---------------------------- MODULE TokenBuckets ----------------------------
(***************************************************************************)
(* What the rate limiter promises ("Per-IP token-bucket limiter"): every   *)
(* client address has one bucket, for ever; a request is admitted if and   *)
(* only if its own client's bucket holds the price of a request, which it  *)
(* then pays, and nobody else does.  RateLimiter, which finds the client   *)
(* behind proxies, creates buckets on demand and throws idle ones away, is *)
(* shown to implement this specification.                                  *)
(***************************************************************************)
EXTENDS Integers

CONSTANTS
  IPs,       \* client addresses
  Requests,  \* requests; each is decided at most once
  Cost,      \* price of one request, in credits
  Rate,      \* credits earned per second
  Capacity   \* a full bucket

VARIABLES
  client,    \* client[r]: who sends r; never changes
  level,     \* level[ip]: the credits in its bucket now
  verdict    \* verdict[r]: "none", "allowed" or "denied"

vars == <<client, level, verdict>>

Init ==
  /\ client \in [Requests -> IPs]
  /\ level = [ip \in IPs |-> Capacity]
  /\ verdict = [r \in Requests |-> "none"]

Admit(r) ==
  /\ verdict[r] = "none"
  /\ level[client[r]] >= Cost
  /\ level' = [level EXCEPT ![client[r]] = @ - Cost]
  /\ verdict' = [verdict EXCEPT ![r] = "allowed"]
  /\ UNCHANGED client

Refuse(r) ==
  /\ verdict[r] = "none"
  /\ level[client[r]] < Cost
  /\ verdict' = [verdict EXCEPT ![r] = "denied"]
  /\ UNCHANGED <<client, level>>

\* One second passes for every bucket.
Refill ==
  /\ level' = [ip \in IPs |-> IF level[ip] + Rate > Capacity
                                THEN Capacity ELSE level[ip] + Rate]
  /\ UNCHANGED <<client, verdict>>

Next ==
  \/ \E r \in Requests : Admit(r) \/ Refuse(r)
  \/ Refill

Spec == Init /\ [][Next]_vars
=============================================================================
