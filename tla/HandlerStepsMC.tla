-------------------------- MODULE HandlerStepsMC ---------------------------
(***************************************************************************)
(* Instances of HandlerSteps for TLC.  Threads and identifiers are only    *)
(* compared for equality, so that permuting them changes nothing.          *)
(***************************************************************************)
EXTENDS HandlerSteps, TLC

CONSTANTS p1, p2, v1, v2, t1, t2

Symmetric == Permutations(Threads) \union Permutations(VenueIds)
               \union Permutations(TagIds)
=============================================================================
