------------------------------ MODULE Discovery ------------------------------
(***************************************************************************)
(* Devices that connect to the gateway enter the inventory by themselves:  *)
(* the gateway's messages on the connection topic are queued by the Kafka  *)
(* callback and one worker thread of AutoDiscovery turns each into         *)
(* InventoryDB::CreateFromConnection.  REST threads create, change and     *)
(* delete the tags of the same devices at the same time.  A step is a      *)
(* statement that reads or writes the tables, the serial number cache or   *)
(* the gateway; nothing locks them together.                               *)
(*                                                                         *)
(* A place stands for what owns a tag, its venue, entity and subscriber;   *)
(* the device type and the locale of a message differ from the row's or    *)
(* not.  Of a tag's state only its method counts: "settled" is one other   *)
(* than "claiming" (auto-discovery, claimed), and "unreadable" is text     *)
(* that is not a JSON object, or a claim that has no date.                 *)
(***************************************************************************)
EXTENDS Naturals, Sequences, FiniteSets

CONSTANTS Serials,      \* serial numbers
          MaxTags,      \* bound: tags created
          Places,       \* venues and entities
          PlaceByIP,    \* the place GetByIP finds for the devices' address, or Nowhere
          RestThreads,  \* threads of the REST server
          MaxQueue,     \* bound: messages in Queue_
          MaxRequests   \* bound: requests served

Nowhere == "nowhere"

ASSUME DiscoveryAssumption ==
    /\ Nowhere \notin Places
    /\ "absent" \notin Serials /\ "worker" \notin RestThreads
    /\ PlaceByIP \in Places \cup {Nowhere}
    /\ MaxQueue \in Nat \ {0}
    /\ MaxTags \in Nat /\ MaxRequests \in Nat

VARIABLES tags,        \* id -> row of the inventory table, Absent if there is none
          created,     \* number of tags created; the next UUID is one more
          devices,     \* place -> the ids in its list of devices
          serialCache, \* SerialNumberCache
          owner,       \* the gateway's owner of each serial number
          queue,       \* AutoDiscovery::Queue_
          running,     \* AutoDiscovery::Running_
          agent,       \* the worker and the REST threads: where each is, with what
          requests,    \* requests served
          overlapped   \* history: serials on which two agents worked at once

dvars == <<tags, created, devices, serialCache, owner, queue, running, agent, requests,
           overlapped>>

TagIds == 1..MaxTags
Worker == "worker"
Agents == RestThreads \cup {Worker}
Resting == [pc |-> "idle"]

Tag(s, place, method) == [serial |-> s, place |-> place, method |-> method]
Absent == Tag("absent", Nowhere, "none")
TagsOf(s) == {i \in TagIds : tags[i].serial = s}
At(a, pc) == agent[a].pc = pc
Goto(a, pc) == agent' = [agent EXCEPT ![a] = IF pc = "done" THEN Resting ELSE [@ EXCEPT !.pc = pc]]

\* An agent starts on a serial number.
Start(a, s, state) ==
    /\ agent' = [agent EXCEPT ![a] = state]
    /\ overlapped' = overlapped \cup
          IF \E b \in Agents \ {a} : ~At(b, "idle") /\ agent[b].serial = s THEN {s} ELSE {}

-----------------------------------------------------------------------------
(* The statements the agents are made of.                                  *)
(***************************************************************************)
\* CreateRecord with a new UUID; the serial number is not a key.
CreateTag(a) ==
    /\ created < MaxTags
    /\ created' = created + 1
    /\ tags' = [tags EXCEPT ![created'] = agent[a].tag]
    /\ agent' = [agent EXCEPT ![a].id = created', ![a].pc = "created"]
    /\ UNCHANGED <<devices, serialCache, owner>>

\* UpdateRecord("id", ...) writes the whole row, if it is still there.
UpdateTag(a, next) ==
    /\ tags' = [tags EXCEPT ![agent[a].id] = IF @ = Absent THEN Absent ELSE agent[a].tag]
    /\ Goto(a, next)
    /\ UNCHANGED <<created, devices, serialCache, owner>>

\* Mutant: the serial number is left out of the cache.
NotCacheSerialNumber(a, next) ==
    /\ Goto(a, next)
    /\ UNCHANGED <<tags, created, devices, serialCache, owner>>

CacheSerialNumber(a, next) ==
    /\ serialCache' = serialCache \cup {agent[a].serial}
    /\ Goto(a, next)
    /\ UNCHANGED <<tags, created, devices, owner>>

\* ManageMembership and AddDevice.
MoveDevice(a, from, to, next) ==
    /\ devices' = [p \in Places |-> (devices[p] \ IF p = from THEN {agent[a].id} ELSE {})
                                        \cup IF p = to THEN {agent[a].id} ELSE {}]
    /\ Goto(a, next)
    /\ UNCHANGED <<tags, created, serialCache, owner>>

\* SetVenue and SetOwnerShip: the gateway may be away; nobody looks at the result.
PushOwner(a, next) ==
    /\ owner' \in {owner, [owner EXCEPT ![agent[a].serial] = agent[a].tag.place]}
    /\ Goto(a, next)
    /\ UNCHANGED <<tags, created, devices, serialCache>>

-----------------------------------------------------------------------------
(* The connection topic and the worker.                                    *)
(***************************************************************************)
Kinds == {"ping", "connect", "disconnect", "garbled"}

ConnectionReceived(k, s) ==
    /\ running
    /\ Len(queue) < MaxQueue
    /\ queue' = Append(queue, [kind |-> k, serial |-> s])
    /\ UNCHANGED <<tags, created, devices, serialCache, owner, running, agent, requests,
                   overlapped>>

\* Mutant: an exception in the loop ends the thread.
CaughtNot(m) ==
    agent' = [agent EXCEPT ![Worker] =
                 IF m.kind = "garbled" THEN [pc |-> "ended", serial |-> "none"] ELSE @]

\* A message without payload, or that does not parse, is caught and forgotten.
Caught(m) == UNCHANGED agent

\* run takes a message: a disconnection or an unreadable message is dropped, the
\* others read the tag of their serial number.
Dequeue ==
    /\ running /\ At(Worker, "idle") /\ queue # <<>>
    /\ queue' = Tail(queue)
    /\ LET m == Head(queue)
           Connection(pc, id, tag) ==
               [pc |-> pc, serial |-> m.serial, id |-> id, tag |-> tag, kind |-> m.kind]
       IN  \/ /\ m.kind \in {"disconnect", "garbled"}
              /\ Caught(m)
              /\ UNCHANGED overlapped
           \/ /\ m.kind \in {"ping", "connect"}
              /\ IF TagsOf(m.serial) = {}
                 THEN Start(Worker, m.serial,
                            Connection("new", 0,
                                       Tag(m.serial, PlaceByIP, "settled")))
                 ELSE \E i \in TagsOf(m.serial) :
                        Start(Worker, m.serial, Connection("known", i, tags[i]))
    /\ UNCHANGED <<tags, created, devices, serialCache, owner, running, requests>>

\* A tag being claimed is claimed when its device connects within a day, and has no
\* state otherwise.
ClaimedMethods(method) == IF method = "claiming" THEN {"settled", "none"} ELSE {method}

\* The tag's state does not parse: the exception drops the message in run, before
\* the row is written and the owner pushed.
StateThrows ==
    /\ At(Worker, "known") /\ agent[Worker].tag.method = "unreadable"
    /\ Goto(Worker, "done")
    /\ UNCHANGED <<tags, created, devices, serialCache, owner>>

\* The copy read is changed in memory.
Change ==
    /\ At(Worker, "known") /\ agent[Worker].tag.method # "unreadable"
    /\ \E meth \in ClaimedMethods(agent[Worker].tag.method), differs \in BOOLEAN :
         LET old == agent[Worker].tag.method
         IN  agent' = [agent EXCEPT ![Worker].tag.method = meth,
                         ![Worker].pc = IF differs \/ meth # old \/ old = "none"
                                        THEN "changed" ELSE "written"]
    /\ UNCHANGED <<tags, created, devices, serialCache, owner>>

\* Mutant: the owner is only pushed with a ping.
PushesPing(kind, place) == kind = "ping" /\ place # Nowhere

Pushes(kind, place) == kind = "connect" /\ place # Nowhere

\* CreateFromConnection, a statement at a time.
Work ==
    /\ \/ At(Worker, "new") /\ CreateTag(Worker)
       \/ At(Worker, "created") /\ CacheSerialNumber(Worker, "cached")
       \/ At(Worker, "cached")
            /\ MoveDevice(Worker, Nowhere, agent[Worker].tag.place,
                          IF agent[Worker].tag.place = Nowhere THEN "done" ELSE "placed")
       \/ At(Worker, "placed") /\ PushOwner(Worker, "done")
       \/ StateThrows
       \/ Change
       \/ At(Worker, "changed") /\ UpdateTag(Worker, "written")
       \/ /\ At(Worker, "written")
          /\ IF Pushes(agent[Worker].kind, agent[Worker].tag.place)
             THEN PushOwner(Worker, "done")
             ELSE Goto(Worker, "done") /\ UNCHANGED <<tags, created, devices, serialCache, owner>>
    /\ UNCHANGED <<queue, running, requests, overlapped>>

\* Stop: the worker ends after the message it is in, what is queued is dropped.
Stop ==
    /\ running
    /\ running' = FALSE
    /\ queue' = <<>>
    /\ UNCHANGED <<tags, created, devices, serialCache, owner, agent, requests, overlapped>>

-----------------------------------------------------------------------------
(* The inventory handler.  Only what touches the state above; Hierarchy and  *)
(* HandlerSteps have the rest.                                             *)
(***************************************************************************)
Request(t, s, pc, id, tag, from) ==
    /\ requests < MaxRequests /\ At(t, "idle")
    /\ requests' = requests + 1
    /\ Start(t, s, [pc |-> pc, serial |-> s, id |-> id, tag |-> tag, from |-> from])
    /\ UNCHANGED <<tags, created, devices, serialCache, owner, queue, running>>

\* Bodies may have any text as state.  Bound: a POST has a claim of the device, a PUT
\* what cannot be read, or no state; a claim that expires leaves none.
DoPost(t, s, p) ==
    /\ TagsOf(s) = {}
    /\ Request(t, s, "posting", 0, Tag(s, p, "claiming"), Nowhere)

\* A PUT may move the tag and replace its state.
DoPut(t, s, p, keeps) ==
    \E i \in TagsOf(s) :
        Request(t, s, "putting", i,
                [tags[i] EXCEPT !.place = p, !.method = IF keeps THEN @ ELSE "unreadable"],
                tags[i].place)

DoDelete(t, s) ==
    \E i \in TagsOf(s) : Request(t, s, "deleting", i, tags[i], tags[i].place)

\* DeleteRecord, then DeleteSerialNumber.
DeleteTag(t) ==
    /\ tags' = [tags EXCEPT ![agent[t].id] = Absent]
    /\ Goto(t, "deleted")
    /\ UNCHANGED <<created, devices, serialCache, owner>>

UncacheSerialNumber(t) ==
    /\ serialCache' = serialCache \ {agent[t].serial}
    /\ Goto(t, "done")
    /\ UNCHANGED <<tags, created, devices, owner>>

\* The row may be gone when a PUT writes it: UpdateRecord succeeds all the same and
\* the handler goes on.
Serve(t) ==
    /\ \/ At(t, "posting") /\ CreateTag(t)
       \/ At(t, "created") /\ PushOwner(t, "owned")
       \/ At(t, "owned") /\ CacheSerialNumber(t, "cached")
       \/ At(t, "cached") /\ MoveDevice(t, Nowhere, agent[t].tag.place, "done")
       \/ At(t, "putting") /\ UpdateTag(t, "put")
       \/ At(t, "put") /\ MoveDevice(t, agent[t].from, agent[t].tag.place, "moved")
       \/ At(t, "moved") /\ PushOwner(t, "done")
       \/ At(t, "deleting") /\ MoveDevice(t, agent[t].from, Nowhere, "unlisted")
       \/ At(t, "unlisted") /\ DeleteTag(t)
       \/ At(t, "deleted") /\ UncacheSerialNumber(t)
    /\ UNCHANGED <<queue, running, requests, overlapped>>

-----------------------------------------------------------------------------
DiscoveryInit ==
    /\ tags = [i \in TagIds |-> Absent]
    /\ created = 0
    /\ devices = [p \in Places |-> {}]
    /\ serialCache = {}
    /\ owner = [s \in Serials |-> Nowhere]
    /\ queue = <<>>
    /\ running = TRUE
    /\ agent = [a \in Agents |-> Resting]
    /\ requests = 0
    /\ overlapped = {}

DiscoveryNext ==
    \/ \E k \in Kinds, s \in Serials : ConnectionReceived(k, s)
    \/ Dequeue
    \/ Work
    \/ Stop
    \/ \E t \in RestThreads, s \in Serials :
         \/ \E p \in Places \cup {Nowhere} :
              \/ DoPost(t, s, p)
              \/ \E keeps \in BOOLEAN : DoPut(t, s, p, keeps)
         \/ DoDelete(t, s)
         \/ Serve(t)

\* Threads go on while they have something to do.
DiscoveryFairness ==
    /\ WF_dvars(Dequeue) /\ WF_dvars(Work)
    /\ \A t \in RestThreads : WF_dvars(Serve(t))

DiscoverySpec == DiscoveryInit /\ [][DiscoveryNext]_dvars /\ DiscoveryFairness

-----------------------------------------------------------------------------
\* Between operations a serial number has at most one tag, is in SerialNumberCache
\* exactly if it has one, and the tag is in the list of devices of its place, unless
\* two threads once worked on the serial number at the same time: every way through
\* CreateFromConnection and the handler keeps the three together.
StoredCachedListed ==
    \A s \in Serials \ overlapped :
        (\A a \in Agents : At(a, "idle") \/ agent[a].serial # s) =>
            /\ Cardinality(TagsOf(s)) <= 1
            /\ (s \in serialCache) = (TagsOf(s) # {})
            /\ \A i \in TagsOf(s), p \in Places : (i \in devices[p]) = (tags[i].place = p)

\* A device that announces itself gets a tag, whatever messages came before its own:
\* the worker survives messages it cannot read.
ConnectedDevicesDiscovered ==
    \A s \in Serials :
        (\E n \in 1..Len(queue) : queue[n].serial = s /\ queue[n].kind \in {"ping", "connect"})
            ~> (TagsOf(s) # {} \/ ~running \/ created = MaxTags)

\* The gateway ends up with the owner the inventory has, although pushes fail, are
\* overtaken by later ones and carry what was read before a request: a device that
\* keeps connecting has its owner pushed again, provided the tag has one, its state
\* can be read and the gateway does not refuse every push.  Of a tag with a state
\* that cannot be read no later connection pushes the owner.
AboutToPush(s) ==
    At(Worker, "written") /\ agent[Worker].serial = s
        /\ Pushes(agent[Worker].kind, agent[Worker].tag.place)

OwnerSettles ==
    \A s \in Serials, i \in TagIds :
        (/\ <>[](/\ TagsOf(s) = {i} /\ tags[i].place # Nowhere
                 /\ tags[i].method # "unreadable"
                 /\ \A t \in RestThreads : At(t, "idle"))
         /\ []<><<queue' = Append(queue, [kind |-> "connect", serial |-> s])>>_dvars
         /\ []<>AboutToPush(s) =>
                []<><<AboutToPush(s) /\ owner'[s] = agent[Worker].tag.place>>_dvars)
            => <>[](owner[s] = tags[i].place)
=============================================================================
