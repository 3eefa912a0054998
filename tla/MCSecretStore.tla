--------------------------- MODULE MCSecretStore ---------------------------
(***************************************************************************)
(* Instances of SecretStore for TLC.                                       *)
(***************************************************************************)
EXTENDS SecretStats, TLC

Behind == -1            \* the app server clock is one tick behind
Lifetimes == {0, 2}      \* no expiry; two seconds
Overflowing == {3}       \* three seconds of 3 ticks exceed a Duration of < 4 ticks
Symmetry == Permutations(Creates) \cup Permutations(Reveals)
              \cup Permutations(Tokens)
=============================================================================
