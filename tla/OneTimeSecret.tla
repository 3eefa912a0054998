--------------------------- MODULE OneTimeSecret ---------------------------
(***************************************************************************)
(* What the service promises, without requests, clocks, tables or failures *)
(* (README: "a single-use link that self-destructs after the first view"): *)
(* a secret is published once, then leaves for good, either to exactly one *)
(* reader or, if it was given a lifetime, by expiring.  SecretStore is     *)
(* shown to implement this specification.                                  *)
(***************************************************************************)
CONSTANTS
  Secrets,  \* everything that may ever be stored
  Readers,  \* reveal attempts; an attempt obtains at most one secret
  None      \* "no secret"

VARIABLES
  status,   \* status[s]: where the secret is in its life
  holder    \* holder[x]: the secret reader x was given, or None

vars == <<status, holder>>

Published == {"forever", "timed"}   \* in the store, without / with a lifetime

Init ==
  /\ status = [s \in Secrets |-> "unborn"]
  /\ holder = [x \in Readers |-> None]

\* The store accepts s; its kind is fixed from then on.
Publish(s, kind) ==
  /\ status[s] = "unborn"
  /\ status' = [status EXCEPT ![s] = kind]
  /\ UNCHANGED holder

\* Reading is destroying: one step gives s to x and withdraws it.
Reveal(s, x) ==
  /\ status[s] \in Published
  /\ holder[x] = None
  /\ status' = [status EXCEPT ![s] = "revealed"]
  /\ holder' = [holder EXCEPT ![x] = s]

\* A batch of secrets is given up at once; only those with a lifetime may be.
Expire(S) ==
  /\ \A s \in S : status[s] = "timed"
  /\ status' = [s \in Secrets |-> IF s \in S THEN "expired" ELSE status[s]]
  /\ UNCHANGED holder

Next ==
  \/ \E s \in Secrets, kind \in Published : Publish(s, kind)
  \/ \E s \in Secrets, x \in Readers : Reveal(s, x)
  \/ \E S \in SUBSET Secrets : Expire(S)

Spec == Init /\ [][Next]_vars
=============================================================================
