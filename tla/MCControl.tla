----------------------------- MODULE MCControl -----------------------------
(***************************************************************************)
(* One execution that forks a region, and callers that command it.         *)
(***************************************************************************)
EXTENDS Control, TLC

CONSTANTS top, c1, c2, u, v

Regions == top :> (1 :> c1 @@ 2 :> c2)
OneRegion == top :> (1 :> c1)

Symmetry == Permutations(Caller)
=============================================================================
