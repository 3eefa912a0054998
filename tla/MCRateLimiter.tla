---------------------------- MODULE MCRateLimiter ----------------------------
(***************************************************************************)
(* Instances of RateLimiter for TLC.                                       *)
(***************************************************************************)
EXTENDS RateLimiter, TLC

\* No proxy; one proxy, counted as 0; two proxies.
MCDeployments ==
  {[trustProxy |-> FALSE, trustedProxiesCount |-> 1, proxies |-> 0],
   [trustProxy |-> TRUE, trustedProxiesCount |-> 0, proxies |-> 1],
   [trustProxy |-> TRUE, trustedProxiesCount |-> 2, proxies |-> 2]}

\* No header, an entry that is no address, and one or two addresses.
MCForged == {<<>>, <<Junk>>} \cup {<<a>> : a \in IPs} \cup {<<a, a>> : a \in IPs}

Symmetry == Permutations(Requests) \cup Permutations(IPs)
=============================================================================
