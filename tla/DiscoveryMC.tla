----------------------------- MODULE DiscoveryMC -----------------------------
(***************************************************************************)
(* Discovery, and the serial number cache it feeds, in one run: the        *)
(* initial state chooses which of the two moves.  Discovery has the cache  *)
(* as a set; SerialNumberCache has its vectors and searches.               *)
(***************************************************************************)
EXTENDS Discovery, SerialNumberCache

VARIABLE part

mcvars == <<part, dvars, svars>>

MCInit ==
    /\ part \in {"discovery", "serials"}
    /\ DiscoveryInit /\ SerialInit

MCNext ==
    \/ part = "discovery" /\ DiscoveryNext /\ UNCHANGED <<part, svars>>
    \/ part = "serials" /\ SerialNext /\ UNCHANGED <<part, dvars>>

MCSpec == MCInit /\ [][MCNext]_mcvars /\ DiscoveryFairness
=============================================================================
