--------------------------- MODULE MicroServiceMC ----------------------------
(***************************************************************************)
(* The registry of services and the token cache live on the same topic of  *)
(* service events and share no state.  The initial state chooses the part  *)
(* that moves; nothing of the other is ever enabled, so its fairness asks  *)
(* for nothing.                                                            *)
(***************************************************************************)
EXTENDS ServiceRegistry, TokenCache

MCEndPointOf == [i \in Instances |-> IF i = "c" THEN "q" ELSE "p"]

VARIABLE part

mcvars == <<part, rvars, tvars>>

MCInit ==
    /\ part \in {"registry", "tokens"}
    /\ RegistryInit /\ TokenInit

MCNext ==
    \/ part = "registry" /\ RegistryNext /\ UNCHANGED <<part, tvars>>
    \/ part = "tokens" /\ TokenNext /\ UNCHANGED <<part, rvars>>

MCSpec == MCInit /\ [][MCNext]_mcvars /\ RegistryFairness /\ TokenFairness
=============================================================================
