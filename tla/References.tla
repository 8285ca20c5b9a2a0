----------------------------- MODULE References -----------------------------
(***************************************************************************)
(* Contacts, locations, maps and variable blocks: the records an entity    *)
(* owns and other records refer to.                                        *)
(*                                                                         *)
(* Every reference is stored twice.  A record names its entity, its venue  *)
(* and its management policy, and each of those lists the record (the      *)
(* contacts, locations, maps, variables lists, the policy's inUse).  A     *)
(* holder (an inventory tag, a venue, a device configuration) names the    *)
(* records it uses, and each record lists its holders (inUse of a contact  *)
(* or location, configurations of a variable block).  The four handlers    *)
(* share the helpers of RESTAPI_db_helpers.h and differ in the few         *)
(* decisions that the handler records below spell out.                     *)
(*                                                                         *)
(* A row takes its columns with it: they are reset when it is deleted.     *)
(* A request that an early return refuses changes nothing and is not an    *)
(* action.  Where a refusal depends on what is not modelled (the user of a *)
(* map, the devices of a venue) the accepted request is simply possible.   *)
(***************************************************************************)
EXTENDS Relations

CONSTANTS
    EntityIds, VenueIds, TagIds, ConfigIds, PolicyIds, RecordIds,
    Keep        \* a PUT body without the member

ASSUME ReferencesAssumption ==
    /\ NoId \notin EntityIds \union VenueIds \union PolicyIds \union RecordIds
    /\ Keep \notin EntityIds \union VenueIds \union PolicyIds \union {NoId}
    /\ VenueIds \intersect (TagIds \union ConfigIds \union EntityIds) = {}
    /\ TagIds \intersect (ConfigIds \union EntityIds) = {}
    /\ ConfigIds \intersect EntityIds = {}

Kinds == {"contact", "location", "map", "variables"}
Holders == TagIds \union VenueIds \union ConfigIds
Owners == EntityIds \union VenueIds

VARIABLES
    kind,       \* kind[r]: the table record r belongs to
    records,    \* the records that exist
    issued,     \* the identifiers handed out so far: a UUID is never reused
    entityOf, venueOf, policyOf,    \* what a record names
    users,      \* users[r]: inUse or configurations of record r
    inline,     \* locations created by CreateObjects
    entities, venues, policies, tags, configs,      \* the rows that exist
    listed,     \* listed[o]: the records in the lists of entity or venue o
    policyUse,  \* policyUse[p]: the records in inUse of policy p
    uses,       \* uses[h]: the records holder h names
    forced,     \* the records deleted with ?force=true (history)
    presented   \* the records the body of an entity's or venue's POST listed (history)

recordVars == <<records, issued, entityOf, venueOf, policyOf, inline>>
rowVars == <<entities, venues, policies, tags, configs>>
vars == <<kind, recordVars, users, rowVars, listed, policyUse, uses, forced, presented>>

live == tags \union venues \union configs

TypeOK ==
    /\ kind \in [RecordIds -> Kinds]
    /\ records \subseteq issued /\ inline \subseteq issued
    /\ issued \subseteq RecordIds \union Holders \union EntityIds
    /\ entityOf \in [RecordIds -> EntityIds \union {NoId}]
    /\ venueOf \in [RecordIds -> VenueIds \union {NoId}]
    /\ policyOf \in [RecordIds -> PolicyIds \union {NoId}]
    /\ users \in [RecordIds -> SUBSET Holders]
    /\ entities \subseteq EntityIds /\ policies \subseteq PolicyIds
    /\ tags \subseteq TagIds /\ venues \subseteq VenueIds /\ configs \subseteq ConfigIds
    /\ listed \in [Owners -> SUBSET RecordIds]
    /\ policyUse \in [PolicyIds -> SUBSET RecordIds]
    /\ uses \in [Holders -> SUBSET RecordIds]
    /\ forced \subseteq RecordIds
    /\ presented \in [Owners -> SUBSET RecordIds]

Init ==
    /\ kind \in [RecordIds -> Kinds]
    /\ records = {} /\ issued = {} /\ inline = {} /\ forced = {}
    /\ entityOf = [r \in RecordIds |-> NoId]
    /\ venueOf = [r \in RecordIds |-> NoId]
    /\ policyOf = [r \in RecordIds |-> NoId]
    /\ users = [r \in RecordIds |-> {}]
    /\ entities = {} /\ policies = PolicyIds
    /\ tags = {} /\ venues = {} /\ configs = {}
    /\ listed = [o \in Owners |-> {}]
    /\ policyUse = [p \in PolicyIds |-> {}]
    /\ uses = [h \in Holders |-> {}]
    /\ presented = [o \in Owners |-> {}]

Fresh(id) == id \notin issued

(***************************************************************************)
(* The four handlers.                                                      *)
(*   entities, venues: what POST accepts as the owner, besides one that    *)
(*     exists ("none": no owner, "unknown": an owner that does not exist)  *)
(*   frees: DELETE takes the record out of its policy's inUse              *)
(*   refuses: DELETE refuses a record with users                           *)
(*   force: ... unless the request says force=true                         *)
(*   claims: POST stores the users the body lists                          *)
(***************************************************************************)

\* The guard "entity.empty() && !Exists" refuses only an empty entity.  DELETE
\* gives MoveUsage the contact's own identifier where the policy belongs.
ContactHandler ==
    [entities |-> {"unknown"}, venues |-> {"none"}, frees |-> FALSE,
     refuses |-> TRUE, force |-> TRUE, claims |-> FALSE]

LocationHandler ==
    [entities |-> {}, venues |-> {"none"}, frees |-> FALSE,
     refuses |-> TRUE, force |-> TRUE, claims |-> FALSE]

\* A mutation: a deleted map stays in use at its policy.
MapHandlerKeepsPolicy ==
    [entities |-> {"none"}, venues |-> {"none", "unknown"}, frees |-> FALSE,
     refuses |-> FALSE, force |-> FALSE, claims |-> FALSE]

\* Nothing refers to a map; its venue is not checked on POST.
MapHandler ==
    [entities |-> {"none"}, venues |-> {"none", "unknown"}, frees |-> TRUE,
     refuses |-> FALSE, force |-> FALSE, claims |-> FALSE]

\* A mutation: the configurations of a variable block are not looked at.
VariablesHandlerUnguarded ==
    [entities |-> {"none"}, venues |-> {"none"}, frees |-> TRUE,
     refuses |-> FALSE, force |-> FALSE, claims |-> TRUE]

\* The configurations of the body are stored as they come.
VariablesHandler ==
    [entities |-> {"none"}, venues |-> {"none"}, frees |-> TRUE,
     refuses |-> TRUE, force |-> FALSE, claims |-> TRUE]

Handler(r) ==
    CASE kind[r] = "contact"   -> ContactHandler
      [] kind[r] = "location"  -> LocationHandler
      [] kind[r] = "map"       -> MapHandler
      [] kind[r] = "variables" -> VariablesHandler

Acceptable(accepts, owner, rows) ==
    \/ owner \in rows
    \/ owner = NoId /\ "none" \in accepts
    \/ owner \notin rows \union {NoId} /\ "unknown" \in accepts

\* A contact or location has no venue column.
HasVenue(r) == kind[r] \in {"map", "variables"}

(***************************************************************************)
(* POST: the record, then the lists of its owners and the policy's inUse.  *)
(***************************************************************************)
RecordPost(r, entity, venue, policy, claimed) ==
    /\ Fresh(r)
    /\ Acceptable(Handler(r).entities, entity, entities)
    /\ Acceptable(Handler(r).venues, venue, venues)
    /\ HasVenue(r) \/ venue = NoId
    /\ policy \in policies \union {NoId}
    /\ records' = records \union {r}
    /\ issued' = issued \union {r}
    /\ entityOf' = [entityOf EXCEPT ![r] = entity]
    /\ venueOf' = [venueOf EXCEPT ![r] = venue]
    /\ policyOf' = [policyOf EXCEPT ![r] = policy]
    /\ users' = [users EXCEPT ![r] = IF Handler(r).claims THEN claimed ELSE {}]
    /\ listed' = AddMembership(AddMembership(listed, entities, entity, r),
                               venues, venue, r)
    /\ policyUse' = MoveUsage(policyUse, policies, {}, RefSet(policy), r)
    /\ UNCHANGED <<kind, inline, rowVars, uses, forced, presented>>

(***************************************************************************)
(* PUT: CreateMove for the members the body has (each must exist or be     *)
(* empty), the record, then MoveUsage and ManageMembership.                *)
(***************************************************************************)
MoveAllowed(new, rows) == new \in rows \union {NoId, Keep}
Moved(old, new) == IF new = Keep THEN old ELSE new
From(old, new) == IF new = Keep THEN NoId ELSE old
To(new) == IF new = Keep THEN NoId ELSE new

RecordPut(r, entity, venue, policy) ==
    /\ r \in records
    /\ MoveAllowed(policy, policies)
    /\ MoveAllowed(entity, entities)
    /\ MoveAllowed(venue, venues)
    /\ HasVenue(r) \/ venue = Keep
    /\ entityOf' = [entityOf EXCEPT ![r] = Moved(@, entity)]
    /\ venueOf' = [venueOf EXCEPT ![r] = Moved(@, venue)]
    /\ policyOf' = [policyOf EXCEPT ![r] = Moved(@, policy)]
    /\ policyUse' = MoveUsage(policyUse, policies, RefSet(From(policyOf[r], policy)),
                              RefSet(To(policy)), r)
    /\ listed' = ManageMembership(
                    ManageMembership(listed, entities, From(entityOf[r], entity),
                                     To(entity), r),
                    venues, From(venueOf[r], venue), To(venue), r)
    /\ UNCHANGED <<kind, records, issued, inline, users, rowVars, uses, forced, presented>>

(***************************************************************************)
(* DELETE.  The order of its statements (a variable block leaves its lists *)
(* before it goes, the others after) shows only to other requests.         *)
(***************************************************************************)
RecordDelete(r, force) ==
    /\ r \in records
    /\ force => Handler(r).force
    /\ Handler(r).refuses => (users[r] = {} \/ force)
    /\ records' = records \ {r}
    /\ entityOf' = [entityOf EXCEPT ![r] = NoId]
    /\ venueOf' = [venueOf EXCEPT ![r] = NoId]
    /\ policyOf' = [policyOf EXCEPT ![r] = NoId]
    /\ users' = [users EXCEPT ![r] = {}]
    /\ listed' = RemoveMembership(RemoveMembership(listed, entities, entityOf[r], r),
                                  venues, venueOf[r], r)
    /\ policyUse' = IF Handler(r).frees
                    THEN MoveUsage(policyUse, policies, RefSet(policyOf[r]), {}, r)
                    ELSE policyUse
    /\ inline' = inline \ {r}
    /\ forced' = IF force THEN forced \union {r} ELSE forced
    /\ UNCHANGED <<kind, issued, rowVars, uses, presented>>

(***************************************************************************)
(* The holders, as far as their references go.                             *)
(***************************************************************************)

\* A tag has one contact and one location, a venue several contacts and one
\* location, a configuration several variable blocks.
AtMostOne(S) == \A x, y \in S : x = y
OfKind(S, k) == {r \in S : kind[r] = k}
Nameable(h, refs) ==
    /\ h \in ConfigIds => refs = OfKind(refs, "variables")
    /\ h \notin ConfigIds => refs = OfKind(refs, "contact") \union OfKind(refs, "location")
    /\ h \in TagIds => AtMostOne(OfKind(refs, "contact"))
    /\ AtMostOne(OfKind(refs, "location"))

\* The tags, venues and configurations that exist once h does.
Exists(h) ==
    /\ issued' = issued \union {h}
    /\ tags' = tags \union ({h} \intersect TagIds)
    /\ venues' = venues \union ({h} \intersect VenueIds)
    /\ configs' = configs \union ({h} \intersect ConfigIds)

Gone(h) ==
    /\ tags' = tags \ {h}
    /\ venues' = venues \ {h}
    /\ configs' = configs \ {h}

\* POST of a tag, venue or configuration: what it names must exist.  The maps
\* and variable blocks in the body of a venue are stored unchecked.
HolderPost(h, refs, lists) ==
    /\ Fresh(h)
    /\ Nameable(h, refs)
    /\ refs \subseteq records
    /\ lists = {} \/ h \in VenueIds
    /\ listed' = [o \in Owners |-> IF o = h THEN lists ELSE listed[o]]
    /\ presented' = [o \in Owners |-> IF o = h THEN lists ELSE presented[o]]
    /\ Exists(h)
    /\ uses' = [uses EXCEPT ![h] = refs]
    /\ users' = MoveUsage(users, records, {}, refs, h)
    /\ UNCHANGED <<kind, records, entityOf, venueOf, policyOf, inline, entities,
                   policies, policyUse, forced>>

\* POST of a venue whose role cannot be stored: the venue is deleted again, the
\* usages it left at its contacts and location are not.
VenuePostRolledBack(v, refs) ==
    /\ Fresh(v)
    /\ Nameable(v, refs)
    /\ refs \subseteq records
    /\ issued' = issued \union {v}
    /\ users' = MoveUsage(users, records, {}, refs, v)
    /\ UNCHANGED <<kind, records, entityOf, venueOf, policyOf, inline, rowVars,
                   listed, policyUse, uses, forced, presented>>

\* PUT: per kind the body either leaves the references alone or names records
\* that exist.
HolderPut(h, refs) ==
    /\ h \in live
    /\ Nameable(h, refs)
    /\ \A k \in Kinds : \/ OfKind(refs, k) = OfKind(uses[h], k)
                        \/ OfKind(refs, k) \subseteq records
    /\ uses' = [uses EXCEPT ![h] = refs]
    /\ users' = MoveUsage(users, records, uses[h], refs, h)
    /\ UNCHANGED <<kind, recordVars, rowVars, listed, policyUse, forced, presented>>

HolderDelete(h) ==
    /\ h \in live
    /\ Gone(h)
    /\ users' = MoveUsage(users, records, uses[h], {}, h)
    /\ uses' = [uses EXCEPT ![h] = {}]
    /\ listed' = [o \in Owners |-> IF o = h THEN {} ELSE listed[o]]
    /\ presented' = [o \in Owners |-> IF o = h THEN {} ELSE presented[o]]
    /\ UNCHANGED <<kind, recordVars, entities, policies, policyUse, forced>>

\* A subscriber-only configuration goes with its tag; the DELETE of a subscriber or
\* of its device takes venues, tags and configurations along.  Only the row goes:
\* the records it used still list it.
HolderDropped(h) ==
    /\ h \in live
    /\ Gone(h)
    /\ uses' = [uses EXCEPT ![h] = {}]
    /\ listed' = [o \in Owners |-> IF o = h THEN {} ELSE listed[o]]
    /\ presented' = [o \in Owners |-> IF o = h THEN {} ELSE presented[o]]
    /\ UNCHANGED <<kind, recordVars, users, entities, policies, policyUse, forced>>

(***************************************************************************)
(* createObjects of a venue request: a location placed in the entity above *)
(* the venue.  Its policy and inUse are stored as the body has them and    *)
(* the policy is not told.                                                 *)
(***************************************************************************)
InlineLocation(v, r, entity, policy, claimed) ==
    /\ kind[r] = "location" /\ Fresh(r)
    /\ records' = records \union {r}
    /\ inline' = inline \union {r}
    /\ entityOf' = [entityOf EXCEPT ![r] = entity]
    /\ policyOf' = [policyOf EXCEPT ![r] = policy]
    /\ listed' = AddMembership(listed, entities, entity, r)
    /\ uses' = [uses EXCEPT ![v] = OfKind(@, "contact") \union {r}]
    /\ users' = [MoveUsage(users, records, OfKind(uses[v], "location"), {}, v)
                    EXCEPT ![r] = claimed \union {v}]

\* The body may not name a location as well.
VenuePostInline(v, r, entity, policy, claimed) ==
    /\ Fresh(v)
    /\ InlineLocation(v, r, entity, policy, claimed)
    /\ issued' = issued \union {v, r}
    /\ venues' = venues \union {v}
    /\ UNCHANGED <<kind, venueOf, entities, policies, tags, configs, policyUse, forced, presented>>

VenuePutInline(v, r, entity, policy, claimed) ==
    /\ v \in venues
    /\ InlineLocation(v, r, entity, policy, claimed)
    /\ issued' = issued \union {r}
    /\ UNCHANGED <<kind, venueOf, rowVars, policyUse, forced, presented>>

(***************************************************************************)
(* The rows the records name.                                              *)
(***************************************************************************)

\* POST of an entity clears the contacts and locations of the body; its maps and
\* variable blocks are stored unchecked.
EntityPost(e, lists) ==
    /\ Fresh(e)
    /\ entities' = entities \union {e}
    /\ issued' = issued \union {e}
    /\ listed' = [listed EXCEPT ![e] = lists]
    /\ presented' = [presented EXCEPT ![e] = lists]
    /\ UNCHANGED <<kind, records, entityOf, venueOf, policyOf, inline, users, venues,
                   policies, tags, configs, policyUse, uses, forced>>

\* An entity with contacts or locations is kept; its maps and variable blocks
\* are not looked at.
EntityDelete(e) ==
    /\ e \in entities
    /\ OfKind(listed[e], "contact") = {} /\ OfKind(listed[e], "location") = {}
    /\ entities' = entities \ {e}
    /\ listed' = [listed EXCEPT ![e] = {}]
    /\ presented' = [presented EXCEPT ![e] = {}]
    /\ UNCHANGED <<kind, recordVars, users, venues, policies, tags, configs, policyUse,
                   uses, forced>>

\* A policy is deleted whoever uses it.
PolicyDelete(p) ==
    /\ p \in policies
    /\ policies' = policies \ {p}
    /\ policyUse' = [policyUse EXCEPT ![p] = {}]
    /\ UNCHANGED <<kind, recordVars, users, entities, venues, tags, configs, listed,
                   uses, forced, presented>>

(***************************************************************************)
(* The consistency check at startup drops from an entity what no longer    *)
(* exists (but looks at no map) and clears the references of a tag.        *)
(***************************************************************************)
Restart ==
    /\ listed' = [o \in Owners |->
                    IF o \in entities
                    THEN (listed[o] \intersect records) \union OfKind(listed[o], "map")
                    ELSE listed[o]]
    /\ uses' = [h \in Holders |->
                    IF h \in tags THEN uses[h] \intersect records ELSE uses[h]]
    /\ UNCHANGED <<kind, recordVars, users, rowVars, policyUse, forced, presented>>

-----------------------------------------------------------------------------

\* A request cannot name a UUID that was not handed out yet.
Known(ids) == ids \intersect issued

RecordStep ==
    \E r \in RecordIds :
        \/ \E entity \in EntityIds \union {NoId}, venue \in VenueIds \union {NoId},
              policy \in PolicyIds \union {NoId}, claimed \in {{}, Known(ConfigIds)} :
                /\ {entity, venue} \subseteq issued \union {NoId}
                /\ claimed = {} \/ Handler(r).claims
                /\ RecordPost(r, entity, venue, policy, claimed)
        \* A PUT that moves several members does what as many PUTs do in a row.
        \/ \E entity \in EntityIds \union {NoId} : RecordPut(r, entity, Keep, Keep)
        \/ \E venue \in VenueIds \union {NoId} : RecordPut(r, Keep, venue, Keep)
        \/ \E policy \in PolicyIds \union {NoId} : RecordPut(r, Keep, Keep, policy)
        \/ \E force \in BOOLEAN : RecordDelete(r, force)

\* The maps and variable blocks a body may list.
Listable == {r \in Known(RecordIds) : HasVenue(r)}

HolderStep ==
    \/ \E h \in Holders :
        \* A new tag or configuration that names no record changes nothing here.
        \/ \E refs \in SUBSET RecordIds, lists \in {{}, Listable} :
                /\ h \in VenueIds \/ refs # {}
                /\ HolderPost(h, refs, lists)
        \/ \E refs \in SUBSET RecordIds : HolderPut(h, refs)
        \/ HolderDelete(h)
        \/ HolderDropped(h)
    \/ \E v \in VenueIds, refs \in (SUBSET RecordIds) \ {{}} : VenuePostRolledBack(v, refs)
    \/ \E v \in VenueIds, r \in RecordIds, entity \in entities \union {NoId},
          policy \in PolicyIds \union {NoId}, claimed \in {{}, Known(TagIds)} :
            \/ VenuePostInline(v, r, entity, policy, claimed)
            \/ VenuePutInline(v, r, entity, policy, claimed)

OwnerStep ==
    \/ \E e \in EntityIds : (\E lists \in {{}, Listable} : EntityPost(e, lists)) \/ EntityDelete(e)
    \/ \E p \in PolicyIds : PolicyDelete(p)

Next == RecordStep \/ HolderStep \/ OwnerStep \/ Restart

Spec == Init /\ [][Next]_vars

-----------------------------------------------------------------------------

(***************************************************************************)
(* What an owner lists is what names it.  An entity or a venue that exists *)
(* lists every existing record that names it, and nothing else but maps    *)
(* and variable blocks its own POST listed; a policy's inUse holds every   *)
(* existing record that names the policy (locations created inline apart), *)
(* and nothing else but deleted contacts and locations, whose DELETE frees *)
(* the wrong row.  About POST, PUT and DELETE of the four handlers, whose  *)
(* lists and records are written by separate statements.                   *)
(***************************************************************************)
ListsExact ==
    /\ \A o \in entities \union venues :
        LET naming == {r \in records : IF o \in entities THEN entityOf[r] = o ELSE venueOf[r] = o}
        IN  naming \subseteq listed[o] /\ listed[o] \subseteq naming \union presented[o]
    /\ \A p \in policies :
        LET naming == {r \in records : policyOf[r] = p}
            stale == {r \in RecordIds \ records :
                        kind[r] \in {"contact", "location"}}
        IN  naming \ inline \subseteq policyUse[p] /\ policyUse[p] \subseteq naming \union stale

(***************************************************************************)
(* A record that an existing tag, venue or configuration names exists,     *)
(* unless it was deleted with force; and it lists that holder, so that the *)
(* next DELETE is refused.  About the inUse test of the DELETE handlers,   *)
(* which trusts that every request of every holder kept the list.          *)
(***************************************************************************)
HeldRecordsKept ==
    \A h \in live : \A r \in uses[h] :
        IF r \in records THEN h \in users[r] ELSE r \in forced

=============================================================================
