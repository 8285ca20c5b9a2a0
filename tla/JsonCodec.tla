------------------------------ MODULE JsonCodec ------------------------------
(***************************************************************************)
(* The JSON form of the REST objects.  Every class of RESTObjects/ has a   *)
(* to_json that writes some of its members under keys and a from_json      *)
(* that reads some keys back into members.  A codec is the pair of those   *)
(* two tables: sets of <<key, member>>.                                    *)
(*                                                                         *)
(* An object is a function from members to values, a JSON document a       *)
(* function from keys to values.  The value of a member is a sequence (a   *)
(* scalar has one element) and Unset is the value the struct starts with.  *)
(***************************************************************************)
EXTENDS Sequences

Unset == <<>>

Same(members) == {<<m, m>> : m \in members}

Codec(members, writes, reads) == [members |-> members, writes |-> writes, reads |-> reads]

\* Every member is written and read under its own name.
Plain(members) == Codec(members, Same(members), Same(members))

\* The members of the pairs have another name on the wire.
Renaming(members, pairs) ==
    LET all == Same(members \ {p[2] : p \in pairs}) \cup pairs
    IN  Codec(members, all, all)

Without(pairs, members) == {p \in pairs : p[2] \notin members}

Omitting(c, members) ==
    Codec(c.members, Without(c.writes, members), Without(c.reads, members))
NotRead(c, members)    == [c EXCEPT !.reads = Without(@, members)]
NotWritten(c, members) == [c EXCEPT !.writes = Without(@, members)]
WriteOnly(c)           == [c EXCEPT !.reads = {}]
ReadOnly(c)            == [c EXCEPT !.writes = {}]
ReadsAlso(c, pairs)    == [c EXCEPT !.reads = @ \cup pairs]

\* Members of ProvObjects::ObjectInfo, which the other classes hold as "info"
\* and write at the top level of their own document.
ObjectInfo == {"id", "name", "description", "notes", "created", "modified", "tags"}

WithInfo(c) ==
    Codec(c.members \cup ObjectInfo, c.writes \cup Same(ObjectInfo), c.reads \cup Same(ObjectInfo))

Blank(c) == [m \in c.members |-> Unset]

ToJson(c, obj) ==
    [k \in {p[1] : p \in c.writes} |-> obj[(CHOOSE p \in c.writes : p[1] = k)[2]]]

\* field_from_json leaves a member alone when its key is absent.  A key that is
\* not the member's own name takes precedence over it (InventoryTag::deviceGroup).
FromJson(c, json, obj) ==
    [m \in c.members |->
        LET present == {p \in c.reads : p[2] = m /\ p[1] \in DOMAIN json}
            chosen  == IF \E p \in present : p[1] # m
                       THEN CHOOSE p \in present : p[1] # m
                       ELSE CHOOSE p \in present : TRUE
        IN  IF present = {} THEN obj[m] ELSE json[chosen[1]]]
=============================================================================
