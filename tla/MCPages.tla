------------------------------- MODULE MCPages -------------------------------
(***************************************************************************)
(* Instances of Pages for TLC: the default limit of 10 MiB and files below *)
(* it, at it and of a blocked type, and a text far beyond it, so that each *)
(* verdict on the size is somebody's.                                      *)
(***************************************************************************)
EXTENDS Pages, TLC

CONSTANTS small, full, exe, book

MCSize == small :> 1000 @@ full :> MaxBytes @@ exe :> 1 @@ book :> 20000000
MCHeaderLen == small :> 60 @@ full :> 1200 @@ exe :> 60 @@ book :> 27

Symmetry == Permutations(Visits)
=============================================================================
