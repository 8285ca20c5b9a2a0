---------------------------- MODULE VenueJobsMC ----------------------------
(***************************************************************************)
(* Instances of VenueJobs for TLC.  The safety run uses that devices and   *)
(* jobs are only compared for equality.                                    *)
(***************************************************************************)
EXTENDS VenueJobs, TLC

CONSTANTS j1, j2, j3, d1, d2

Symmetric == Permutations(JobIds) \union Permutations(Devices)
=============================================================================
