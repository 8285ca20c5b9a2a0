---------------------------- MODULE HandlerSteps ----------------------------
(***************************************************************************)
(* The inventory and venue handlers one database statement at a time.      *)
(*                                                                         *)
(* The REST server runs each request on a thread of its own, and a handler *)
(* is a sequence of separately committed statements: nothing spans two of  *)
(* them.  A handler here first reads and validates, which fixes the list   *)
(* of statements it will execute; other handlers run in between, and the   *)
(* process may die between any two.  Adding a tag to a venue's list or     *)
(* removing it is two statements, a read of the venue's whole record and a *)
(* write of it.                                                            *)
(*                                                                         *)
(* Only the relation between tags and venues is kept: the one between tags *)
(* and entities is maintained by the same helpers in the same handlers.    *)
(***************************************************************************)
EXTENDS Relations, Naturals, Sequences

CONSTANTS Threads, VenueIds, TagIds,
          MaxCrashes,     \* bound on the number of crashes in a behaviour
          Root, Op, Keep  \* of Hierarchy; Op is the entity the venues belong to

\* The identifiers are UUIDs, no two rows of any table share one.
ASSUME HandlerStepsAssumption ==
    /\ VenueIds \intersect TagIds = {}
    /\ {NoId, Keep, Root, Op} \intersect (VenueIds \union TagIds) = {}
    /\ NoId \notin {Keep, Root, Op} /\ Keep \notin {Root, Op} /\ Root # Op
    /\ MaxCrashes \in Nat

VARIABLES
    venues, vDevices,     \* the rows of VenueDB and their devices column
    tags, tVenue,         \* the rows of InventoryDB and their venue column
    issued,               \* UUIDs handed out
    deleted,              \* UUIDs whose row was deleted
    todo,                 \* the statements each thread's handler has left
    phase,                \* "serving", or where the consistency check is
    served,               \* a request was accepted since the last start
    crashes

rows == <<venues, vDevices, tags, tVenue, deleted>>
vars == <<rows, issued, todo, phase, served, crashes>>

Phases == {"venues", "inventory", "serving"}

CreateTag(t, v)   == [op |-> "createTag", tag |-> t, venue |-> v]
UpdateTag(t, v)   == [op |-> "updateTag", tag |-> t, venue |-> v]
DeleteTag(t)      == [op |-> "deleteTag", tag |-> t]
DeleteVenue(v)    == [op |-> "deleteVenue", venue |-> v]
UpdateVenue(v, l) == [op |-> "updateVenue", venue |-> v, list |-> l]
AddDevice(v, t)   == [op |-> "addDevice", venue |-> v, tag |-> t]
RemoveDevice(v, t) == [op |-> "removeDevice", venue |-> v, tag |-> t]

VenueRefs == VenueIds \union {NoId}

Statements ==
    [op : {"createTag", "updateTag"}, tag : TagIds, venue : VenueRefs]
      \union [op : {"deleteTag"}, tag : TagIds]
      \union [op : {"deleteVenue"}, venue : VenueIds]
      \union [op : {"updateVenue"}, venue : VenueIds, list : SUBSET TagIds]
      \union [op : {"addDevice", "removeDevice"}, venue : VenueIds, tag : TagIds]

TypeOK ==
    /\ venues \in SUBSET VenueIds
    /\ vDevices \in [VenueIds -> SUBSET TagIds]
    /\ tags \in SUBSET TagIds
    /\ tVenue \in [TagIds -> VenueRefs]
    /\ issued \in SUBSET (VenueIds \union TagIds)
    /\ deleted \in SUBSET issued
    /\ \A p \in Threads : Len(todo[p]) <= 3 /\ \A i \in DOMAIN todo[p] :
          todo[p][i] \in Statements
    /\ phase \in Phases
    /\ served \in BOOLEAN
    /\ crashes \in 0..MaxCrashes

Init ==
    /\ venues = {} /\ vDevices = [v \in VenueIds |-> {}]
    /\ tags = {} /\ tVenue = [t \in TagIds |-> NoId]
    /\ issued = {} /\ deleted = {}
    /\ todo = [p \in Threads |-> <<>>]
    /\ phase = "serving"
    /\ served = FALSE
    /\ crashes = 0

(***************************************************************************)
(* The beginning of each handler: it reads, validates, and knows what it   *)
(* will write.                                                             *)
(***************************************************************************)
Accept(p, statements) ==
    /\ phase = "serving"
    /\ todo[p] = <<>>
    /\ todo' = [todo EXCEPT ![p] = statements]
    /\ served' = TRUE
    /\ UNCHANGED <<phase, crashes>>

\* A mutation: the old list is forgotten.
MoveKeepsOld(from, to, t) == IF to = NoId THEN <<>> ELSE <<AddDevice(to, t)>>

\* The membership updates of a ManageMembership call.
Move(from, to, t) ==
    (IF from = NoId THEN <<>> ELSE <<RemoveDevice(from, t)>>)
      \o (IF to = NoId THEN <<>> ELSE <<AddDevice(to, t)>>)

\* Discovery (CreateFromConnection) executes the same statements.
InventoryPost(p, t, v) ==
    /\ t \notin issued
    /\ v \in venues \union {NoId}
    /\ issued' = issued \union {t}
    /\ Accept(p, <<CreateTag(t, v)>> \o Move(NoId, v, t))
    /\ UNCHANGED rows

InventoryPut(p, t, v) ==
    /\ t \in tags
    /\ v \in venues \union {NoId}
    /\ Accept(p, <<UpdateTag(t, v)>> \o Move(tVenue[t], v, t))
    /\ UNCHANGED <<rows, issued>>

InventoryDelete(p, t) ==
    /\ t \in tags
    /\ Accept(p, Move(tVenue[t], NoId, t) \o <<DeleteTag(t)>>)
    /\ UNCHANGED <<rows, issued>>

\* A venue's row is created in one statement, with the body's devices, whichever
\* venue their tags are in.
VenuePost(p, v, devices) ==
    /\ v \notin issued
    /\ Accept(p, <<>>)
    /\ issued' = issued \union {v}
    /\ venues' = venues \union {v}
    /\ vDevices' = [vDevices EXCEPT ![v] = devices]
    /\ UNCHANGED <<tags, tVenue, deleted>>

\* Any update of a venue writes back the whole record it read, devices included.
VenuePut(p, v) ==
    /\ v \in venues
    /\ Accept(p, <<UpdateVenue(v, vDevices[v])>>)
    /\ UNCHANGED <<rows, issued>>

VenueDelete(p, v) ==
    /\ v \in venues
    /\ vDevices[v] = {}
    /\ Accept(p, <<DeleteVenue(v)>>)
    /\ UNCHANGED <<rows, issued>>

(***************************************************************************)
(* The statements.  UPDATE and DELETE of a row that is not there succeed   *)
(* and do nothing.                                                         *)
(***************************************************************************)
\* A mutation: UpdateRecord creates the row when it is missing.
UpdateVenueUpserts(s) ==
    /\ venues' = venues \union {s.venue}
    /\ vDevices' = [vDevices EXCEPT ![s.venue] = s.list]
    /\ UNCHANGED <<tags, tVenue, deleted>>

UpdateVenueRow(s) ==
    /\ vDevices' = IF s.venue \in venues THEN [vDevices EXCEPT ![s.venue] = s.list]
                   ELSE vDevices
    /\ UNCHANGED <<venues, tags, tVenue, deleted>>

CreateTagRow(s) ==
    /\ tags' = tags \union {s.tag}
    /\ tVenue' = [tVenue EXCEPT ![s.tag] = s.venue]
    /\ UNCHANGED <<venues, vDevices, deleted>>

UpdateTagRow(s) ==
    /\ tVenue' = IF s.tag \in tags THEN [tVenue EXCEPT ![s.tag] = s.venue] ELSE tVenue
    /\ UNCHANGED <<venues, vDevices, tags, deleted>>

DeleteTagRow(s) ==
    /\ tags' = tags \ {s.tag}
    /\ tVenue' = [tVenue EXCEPT ![s.tag] = NoId]
    /\ deleted' = deleted \union {s.tag}
    /\ UNCHANGED <<venues, vDevices>>

DeleteVenueRow(s) ==
    /\ venues' = venues \ {s.venue}
    /\ deleted' = deleted \union {s.venue}
    /\ vDevices' = [vDevices EXCEPT ![s.venue] = {}]
    /\ UNCHANGED <<tags, tVenue>>

\* The read of ManipulateVectorMember: the write follows only when the venue is
\* there and its list changes.
ReadForUpdate(s, rest) ==
    LET list == vDevices[s.venue]
        new  == IF s.op = "addDevice" THEN list \union {s.tag} ELSE list \ {s.tag}
    IN  IF s.venue \in venues /\ new # list
        THEN <<UpdateVenue(s.venue, new)>> \o rest
        ELSE rest

Execute(p) ==
    /\ phase = "serving"
    /\ todo[p] # <<>>
    /\ LET s == Head(todo[p])
           rest == Tail(todo[p])
       IN  \/ /\ s.op = "createTag" /\ CreateTagRow(s)
              /\ todo' = [todo EXCEPT ![p] = rest]
           \/ /\ s.op = "updateTag" /\ UpdateTagRow(s)
              /\ todo' = [todo EXCEPT ![p] = rest]
           \/ /\ s.op = "deleteTag" /\ DeleteTagRow(s)
              /\ todo' = [todo EXCEPT ![p] = rest]
           \/ /\ s.op = "deleteVenue" /\ DeleteVenueRow(s)
              /\ todo' = [todo EXCEPT ![p] = rest]
           \/ /\ s.op = "updateVenue" /\ UpdateVenueRow(s)
              /\ todo' = [todo EXCEPT ![p] = rest]
           \/ /\ s.op \in {"addDevice", "removeDevice"}
              /\ todo' = [todo EXCEPT ![p] = ReadForUpdate(s, rest)]
              /\ UNCHANGED rows
    /\ UNCHANGED <<issued, phase, served, crashes>>

(***************************************************************************)
(* A crash, at any statement and also during the consistency check, and    *)
(* the check of the next start.                                            *)
(***************************************************************************)
Crash ==
    /\ crashes < MaxCrashes
    /\ crashes' = crashes + 1
    /\ todo' = [p \in Threads |-> <<>>]
    /\ phase' = "venues"
    /\ served' = FALSE
    /\ UNCHANGED <<rows, issued>>

FixVenueDevices ==
    /\ phase = "venues"
    /\ vDevices' = [v \in VenueIds |-> vDevices[v] \intersect tags]
    /\ phase' = "inventory"
    /\ UNCHANGED <<venues, tags, tVenue, deleted, issued, todo, served, crashes>>

\* A mutation: references are left as they are.
FixInventoryIdle ==
    /\ phase = "inventory"
    /\ phase' = "serving"
    /\ UNCHANGED <<rows, issued, todo, served, crashes>>

FixInventory ==
    /\ phase = "inventory"
    /\ tVenue' = [t \in TagIds |-> IF tVenue[t] \in venues THEN tVenue[t] ELSE NoId]
    /\ phase' = "serving"
    /\ UNCHANGED <<venues, vDevices, tags, deleted, issued, todo, served, crashes>>

Request(p) ==
    \/ \E t \in TagIds, v \in VenueRefs : InventoryPost(p, t, v)
    \/ \E t \in tags, v \in VenueRefs : InventoryPut(p, t, v)
    \/ \E t \in tags : InventoryDelete(p, t)
    \/ \E v \in VenueIds, ds \in {{}} \union {{t} : t \in tags} : VenuePost(p, v, ds)
    \/ \E v \in venues : VenuePut(p, v)
    \/ \E v \in venues : VenueDelete(p, v)

Next ==
    \/ \E p \in Threads : Request(p) \/ Execute(p)
    \/ Crash
    \/ FixVenueDevices
    \/ FixInventory

Spec == Init /\ [][Next]_vars

-----------------------------------------------------------------------------
(***************************************************************************)
(* A row that was deleted stays deleted: a handler that read it before and *)
(* writes its copy afterwards does not bring it back, and the same UUID is *)
(* never created again.                                                    *)
(***************************************************************************)
NoResurrection == deleted \intersect (venues \union tags) = {}

(***************************************************************************)
(* When the service starts serving, no tag refers to a missing venue and   *)
(* no venue lists a missing tag, wherever the crash hit the handlers and   *)
(* the previous consistency checks.                                        *)
(***************************************************************************)
StartsConsistent ==
    phase = "serving" /\ ~served =>
       /\ \A t \in tags : tVenue[t] \in venues \union {NoId}
       /\ \A v \in venues : vDevices[v] \subseteq tags

(***************************************************************************)
(* What the statements that are still to come will have done.              *)
(***************************************************************************)
Pending == UNION {{todo[p][i] : i \in DOMAIN todo[p]} : p \in Threads}

Ops(ops) == {s \in Pending : s.op \in ops}

Finished(v) == v \notin {s.venue : s \in Ops({"deleteVenue"})}

(***************************************************************************)
(* One request at a time, the statements of a handler amount to the atomic *)
(* action of Hierarchy.  The mapping shows a handler's whole effect as     *)
(* soon as it has validated its request.  The venues are those of one      *)
(* operator entity.                                                        *)
(***************************************************************************)
mTags == (tags \union {s.tag : s \in Ops({"createTag"})})
            \ {s.tag : s \in Ops({"deleteTag"})}

mVenues == {v \in venues : Finished(v)}

mTagVenue ==
    [t \in TagIds |->
        IF t \notin mTags THEN NoId
        ELSE IF \E s \in Ops({"createTag", "updateTag"}) : s.tag = t
        THEN (CHOOSE s \in Ops({"createTag", "updateTag"}) : s.tag = t).venue
        ELSE tVenue[t]]

mVenueDevices ==
    [v \in VenueIds |->
        LET written == {s \in Ops({"updateVenue"}) : s.venue = v}
            base == IF v \notin venues \/ written = {} THEN vDevices[v]
                    ELSE (CHOOSE s \in written : TRUE).list
            removed == {s.tag : s \in {r \in Ops({"removeDevice"}) : r.venue = v}}
            added == {s.tag : s \in {a \in Ops({"addDevice"}) : a.venue = v}}
        IN  (base \ removed) \union added]

Atomic == INSTANCE Hierarchy WITH
    EntityIds <- {Root, Op}, OperatorEntities <- {Op}, ConfigIds <- {},
    Subscribers <- {}, SubscriberOnly <- {},
    entities <- {Root, Op},
    eParent <- [e \in {Root, Op} |-> IF e = Op THEN Root ELSE NoId],
    eChildren <- [e \in {Root, Op} |-> IF e = Root THEN {Op} ELSE {}],
    eVenues <- [e \in {Root, Op} |-> IF e = Op THEN mVenues ELSE {}],
    eDevices <- [e \in {Root, Op} |-> {}],
    eConfigurations <- [e \in {Root, Op} |-> {}],
    venues <- mVenues,
    vEntity <- [v \in VenueIds |-> IF v \in mVenues THEN Op ELSE NoId],
    vParent <- [v \in VenueIds |-> NoId],
    vChildren <- [v \in VenueIds |-> {}],
    vDevices <- mVenueDevices,
    vConfigurations <- [v \in VenueIds |-> {}],
    vDeviceConfiguration <- [v \in VenueIds |-> {}],
    vSubscriber <- [v \in VenueIds |-> NoId],
    tags <- mTags,
    tEntity <- [t \in TagIds |-> NoId],
    tVenue <- mTagVenue,
    tConfiguration <- [t \in TagIds |-> NoId],
    tSubscriber <- [t \in TagIds |-> NoId],
    configs <- {},
    cInUse <- [c \in {} |-> {}], cEntity <- [c \in {} |-> NoId],
    cVenue <- [c \in {} |-> NoId],
    issued <- issued \union {Root, Op},
    deviceConfigs <- {}

\* The statements of the handlers implement the atomic requests of Hierarchy.
ImplementsAtomicRequests == Atomic!Spec

=============================================================================
