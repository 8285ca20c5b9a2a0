--------------------------- MODULE ServiceRegistry ---------------------------
(***************************************************************************)
(* How this service knows the others: every instance of a service posts    *)
(* JOIN, KEEP_ALIVE and LEAVE on the topic of service events, and          *)
(* MicroService::BusMessageReceived keeps Services_ from them.  Services_  *)
(* is keyed by the private end point: an instance that replaces another on *)
(* the same machine has a new ID and the same end point.                   *)
(*                                                                         *)
(* All messages go through partition 0, so the topic is one queue.  Time   *)
(* is counted in periods of the bus timer; an entry's age is the number of *)
(* periods since it was last written.                                      *)
(***************************************************************************)
EXTENDS Naturals, Sequences

CONSTANTS Instances,      \* the instances of other services
          EndPoints,      \* private end points
          EndPointOf,     \* instance -> its private end point
          Timeout,        \* the periods of 120 seconds
          MaxTopic        \* bound: messages on the topic not yet consumed

Self == "self"            \* this service

ASSUME RegistryAssumption ==
    /\ Self \notin Instances
    /\ EndPointOf \in [Instances -> EndPoints]
    /\ Timeout \in Nat \ {0}
    /\ MaxTopic \in Nat \ {0}

VARIABLES instance,       \* instance, Self included -> "off", "up" or "gone"
          topic,          \* the messages not yet consumed
          services        \* Services_: end point -> [id, age], None if absent

rvars == <<instance, topic, services>>

None == [id |-> "none", age |-> 0]
Listed(e) == services[e] # None

Message(event, i) == [event |-> event, id |-> i]
Post(event, i) ==
    /\ Len(topic) < MaxTopic
    /\ topic' = Append(topic, Message(event, i))

-----------------------------------------------------------------------------
(* EventBusManager::run of every instance, and the ways it can end.        *)
(***************************************************************************)
\* What was posted before this service started makes no difference: the next
\* KEEP_ALIVE lists an instance as its JOIN would have.
Join(i) ==
    /\ instance[i] = "off"
    /\ i # Self => instance[Self] = "up"
    /\ Post("JOIN", i)
    /\ instance' = [instance EXCEPT ![i] = "up"]
    /\ UNCHANGED services

KeepAlive(i) ==
    /\ instance[i] = "up"
    /\ Post("KEEP_ALIVE", i)
    /\ UNCHANGED <<instance, services>>

\* Stop() wakes the thread, which queues its LEAVE; the instance ends.
Leave(i) ==
    /\ i # Self /\ instance[i] = "up"
    /\ Post("LEAVE", i)
    /\ instance' = [instance EXCEPT ![i] = "gone"]
    /\ UNCHANGED services

\* The instance crashes, or its producer stops with the LEAVE still in Queue_.
LeaveLost(i) ==
    /\ i # Self /\ instance[i] = "up"
    /\ instance' = [instance EXCEPT ![i] = "gone"]
    /\ UNCHANGED <<topic, services>>

-----------------------------------------------------------------------------
(* BusMessageReceived, under InfraMutex_.  This service hears its own      *)
(* messages as well.                                                       *)
(***************************************************************************)
\* Mutant: JOIN is the only event that lists a service.
UpdatedByJoin(m) ==
    IF m.id = Self \/ m.event = "KEEP_ALIVE" THEN services
    ELSE [services EXCEPT ![EndPointOf[m.id]] =
            IF m.event = "LEAVE" THEN None ELSE [id |-> m.id, age |-> 0]]

\* LEAVE erases the entry of the end point, JOIN and KEEP_ALIVE overwrite it.
Updated(m) ==
    IF m.id = Self THEN services
    ELSE [services EXCEPT ![EndPointOf[m.id]] =
            IF m.event = "LEAVE" THEN None ELSE [id |-> m.id, age |-> 0]]

\* Mutant: entries are dropped when the message names them only.
Kept(s) == s

\* After every message, its own included, entries older than the timeout go.
WithoutZombies(s) == [e \in EndPoints |-> IF s[e].age > Timeout THEN None ELSE s[e]]

BusMessageReceived ==
    /\ instance[Self] = "up" /\ topic # <<>>
    /\ services' = WithoutZombies(Updated(Head(topic)))
    /\ topic' = Tail(topic)
    /\ UNCHANGED instance

\* A period passes.
Tick ==
    /\ \E e \in EndPoints : Listed(e) /\ services[e].age <= Timeout
    /\ services' = [e \in EndPoints |->
                        IF Listed(e) /\ services[e].age <= Timeout
                        THEN [services[e] EXCEPT !.age = @ + 1] ELSE services[e]]
    /\ UNCHANGED <<instance, topic>>

RegistryInit ==
    /\ instance = [i \in Instances \cup {Self} |-> "off"]
    /\ topic = <<>>
    /\ services = [e \in EndPoints |-> None]

RegistryNext ==
    \/ \E i \in Instances \cup {Self} : Join(i) \/ KeepAlive(i) \/ Leave(i) \/ LeaveLost(i)
    \/ BusMessageReceived
    \/ Tick

\* The timer of every thread fires again, the dispatcher consumes what is there,
\* time passes.  A full topic delays a post, it does not prevent it.
RegistryFairness ==
    /\ \A i \in Instances \cup {Self} : SF_rvars(KeepAlive(i))
    /\ WF_rvars(BusMessageReceived)
    /\ WF_rvars(Tick)

RegistrySpec == RegistryInit /\ [][RegistryNext]_rvars /\ RegistryFairness

-----------------------------------------------------------------------------
Of(e) == {i \in Instances : EndPointOf[i] = e}

\* An end point whose instances have all gone, with or without a LEAVE that was
\* heard, is dropped from Services_ for good: BusMessageReceived looks for zombies
\* after every message and this service's own keep-alives are messages too.
ZombiesRemoved ==
    \A e \in EndPoints :
        (instance[Self] = "up" /\ \A i \in Of(e) : instance[i] = "gone") ~> [](~Listed(e))

\* A running instance whose predecessors on the end point have gone is listed
\* again and again, also when the LEAVE of a predecessor comes after its JOIN and
\* erases the entry they share.
LiveServiceListed ==
    \A i \in Instances :
        <>[](/\ instance[Self] = "up" /\ instance[i] = "up"
             /\ \A j \in Of(EndPointOf[i]) \ {i} : instance[j] # "up")
            => []<>(services[EndPointOf[i]].id = i)
=============================================================================
