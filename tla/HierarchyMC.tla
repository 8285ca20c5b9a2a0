---------------------------- MODULE HierarchyMC ----------------------------
(***************************************************************************)
(* An instance of Hierarchy for TLC.  The identifiers of one table are     *)
(* interchangeable: the handlers compare them only for equality.           *)
(*                                                                         *)
(* A behaviour begins after some identifiers were handed out and their     *)
(* rows deleted, one of the sets Spent.  This splits the instance into     *)
(* some with more venues and some with a configuration.                    *)
(***************************************************************************)
EXTENDS Hierarchy, TLC

CONSTANTS Op, e1, v1, v2, t1, c1, s1,
          Spent     \* the sets of identifiers and subscribers of earlier rows

SymmetricVenues == Permutations(VenueIds)

VARIABLE spent
mcvars == <<vars, spent>>

MCInit == Init /\ spent = {}

Begin(ids) ==
    /\ spent = {}
    /\ spent' = ids
    /\ issued' = issued \union (ids \ Subscribers)
    /\ UNCHANGED <<entityVars, venueVars, deviceVars, tagVars, ownerVars, configVars,
                   deviceConfigs>>

MCNext ==
    \/ \E ids \in Spent : Begin(ids)
    \/ /\ spent # {} /\ UNCHANGED spent
       /\ Next
       /\ \A t \in TagIds : tSubscriber'[t] \notin spent
       /\ \A v \in VenueIds : vSubscriber'[v] \notin spent

MCSpec == MCInit /\ [][MCNext]_mcvars
=============================================================================
