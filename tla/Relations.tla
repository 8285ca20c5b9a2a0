----------------------------- MODULE Relations -----------------------------
(***************************************************************************)
(* The record layer of owprov (framework/orm.h) as the handlers use it.    *)
(*                                                                         *)
(* A table is a set of live identifiers ("rows") plus one function per     *)
(* column.  A relation column holds, for each row, the set of identifiers  *)
(* listed in that row.  In the source such a column is a vector kept       *)
(* sorted and without repetition by ManipulateVectorMember, so a set loses *)
(* nothing.                                                                *)
(*                                                                         *)
(* NoId is the empty string that stands for "no such reference".           *)
(***************************************************************************)
CONSTANT NoId

(***************************************************************************)
(* ManipulateVectorMember: read the owner's record, add or erase the       *)
(* member, write the record back.  A missing owner is silently ignored.    *)
(***************************************************************************)
AddMembership(col, rows, owner, member) ==
    IF owner \in rows THEN [col EXCEPT ![owner] = @ \union {member}] ELSE col

RemoveMembership(col, rows, owner, member) ==
    IF owner \in rows THEN [col EXCEPT ![owner] = @ \ {member}] ELSE col

\* A mutation: adding before removing loses a member that moves to where it is.
ManageMembershipAddsFirst(col, rows, from, to, member) ==
    RemoveMembership(AddMembership(col, rows, to, member), rows, from, member)

\* ManageMembership removes first and adds second, without comparing the two.
ManageMembership(col, rows, from, to, member) ==
    AddMembership(RemoveMembership(col, rows, from, member), rows, to, member)

(***************************************************************************)
(* MoveUsage: col is the inUse column of the referenced table, from and to *)
(* the sets of rows referenced before and after.  Nothing is written when  *)
(* the two are equal.                                                      *)
(***************************************************************************)
MoveUsage(col, rows, from, to, member) ==
    [x \in DOMAIN col |->
        IF from = to \/ x \notin rows THEN col[x]
        ELSE IF x \in to THEN col[x] \union {member}
        ELSE IF x \in from THEN col[x] \ {member}
        ELSE col[x]]

\* A single reference as the set MoveUsage works on.
RefSet(id) == IF id = NoId THEN {} ELSE {id}

=============================================================================
