---------------------------- MODULE ReferencesMC ----------------------------
(***************************************************************************)
(* Three groups of records that refer to one another within the group and  *)
(* not beyond: the initial state chooses the group whose requests arrive,  *)
(* the others keep their initial state.                                    *)
(***************************************************************************)
EXTENDS References, Operators, RadiusEndpoints, TLC

VARIABLE group

mcvars == <<group, vars, operatorVars, radiusVars>>

RecordSymmetry == Permutations(RecordIds)

\* The kinds that meet in the first group: a kind with itself, and the two kinds
\* that the same rows name or list.  A map has no rival: nothing refers to it.
MCKinds == {{"contact"}, {"location"}, {"variables"},
            {"contact", "location"}, {"map", "variables"}}

MCInit ==
    /\ group \in {"records", "operators", "radius"}
    /\ Init /\ OperatorsInit /\ RadiusInit
    /\ group = "records" => {kind[r] : r \in RecordIds} \in MCKinds
    /\ group # "records" => kind = [r \in RecordIds |-> "contact"]

MCNext ==
    \/ group = "records" /\ Next /\ UNCHANGED <<group, operatorVars, radiusVars>>
    \/ group = "operators" /\ OperatorsNext /\ UNCHANGED <<group, vars, radiusVars>>
    \/ group = "radius" /\ RadiusNext /\ UNCHANGED <<group, vars, operatorVars>>

MCSpec == MCInit /\ [][MCNext]_mcvars
=============================================================================
