------------------------------- MODULE Lines -------------------------------
(***************************************************************************)
(* Who is above whom.  up[p] is what is next above p; what is not in the   *)
(* domain of up is nothing.                                                *)
(***************************************************************************)

\* p and everything above it: the least set that has p, and what is next above with it.
Line(up, p) ==
    {q \in DOMAIN up : \A S \in SUBSET DOMAIN up :
        /\ p \in DOMAIN up => p \in S
        /\ \A x \in S : up[x] \in DOMAIN up => up[x] \in S
        => q \in S}

NoneAboveItself(up) ==
    \A S \in SUBSET DOMAIN up : S # {} => \E p \in S : up[p] \notin S
=============================================================================
