------------------------------ MODULE Operators ------------------------------
(***************************************************************************)
(* Operators, the entity each one owns under the root, and their service   *)
(* classes.                                                                *)
(*                                                                         *)
(* POST writes an entity, the root's list of children, the operator and    *)
(* its default service class, and takes the first two back when the third  *)
(* fails; DELETE removes the four again.  Each write is a step, a crash    *)
(* may fall between any two of them.  The entity of operator o is written  *)
(* o: an operator creates exactly one.                                     *)
(*                                                                         *)
(* Bound: one operator request under way at a time.  What puts children,   *)
(* devices or venues into an operator's entity, signups into an operator   *)
(* or a service class into a subscriber device is another component; here  *)
(* it comes and goes.                                                      *)
(***************************************************************************)
CONSTANTS
    OperatorIds, DefaultOperator, ClassIds, DeviceIds, RegistrationIds,
    NoClass     \* the empty string

ASSUME OperatorsAssumption ==
    DefaultOperator \in OperatorIds /\ NoClass \notin ClassIds /\ ClassIds # {}

VARIABLES
    operators,      \* the operators that exist
    registration,   \* registration[o]: its registrationId
    opEntities,     \* the operators whose entity exists
    rootChildren,   \* the operators whose entity the root lists
    occupied,       \* the operators whose entity has children, devices, ...
    signups,        \* the operators with signups
    classes,        \* the service classes that exist
    classOf,        \* classOf[c]: its operator
    defaults,       \* the classes with defaultService
    deviceClass,    \* deviceClass[d]: the class of a subscriber device
    used,           \* the identifiers handed out
    request,        \* the operator request under way
    disturbed       \* the operators whose request crashed, failed half way, or was
                    \* crossed by the POST of a class (history)

operatorVars == <<operators, registration, opEntities, rootChildren, occupied, signups,
                  classes, classOf, defaults, deviceClass, used, request, disturbed>>

Idle == [at |-> "idle", op |-> DefaultOperator]

\* After the first start: InitializeSystemDBs made the default operator, whose
\* entity is the root, and its default class.
OperatorsInit ==
    LET c == CHOOSE x \in ClassIds : TRUE
    IN
    /\ operators = {DefaultOperator}
    /\ registration = [o \in OperatorIds |-> ""]
    /\ opEntities = {} /\ rootChildren = {} /\ occupied = {} /\ signups = {}
    /\ classes = {c} /\ defaults = {c}
    /\ classOf = [x \in ClassIds |-> DefaultOperator]
    /\ deviceClass = [d \in DeviceIds |-> NoClass]
    /\ used = {DefaultOperator, c}
    /\ request = Idle
    /\ disturbed = {}

At(step) == request.at = step
Goto(step) == request' = [request EXCEPT !.at = step]
Done == request' = Idle

(***************************************************************************)
(* POST: the registration must be new, then the four writes.               *)
(***************************************************************************)
OperatorPost(o, r) ==
    /\ At("idle")
    /\ o \notin used
    /\ \A x \in operators : registration[x] # r
    /\ used' = used \union {o}
    /\ registration' = [registration EXCEPT ![o] = r]
    /\ request' = [at |-> "entity", op |-> o]
    /\ UNCHANGED <<operators, opEntities, rootChildren, occupied, signups, classes, classOf,
                   defaults, deviceClass, disturbed>>

PostEntity(stored) ==
    /\ At("entity")
    /\ opEntities' = IF stored THEN opEntities \union {request.op} ELSE opEntities
    /\ IF stored THEN Goto("child") ELSE Done
    /\ UNCHANGED <<operators, registration, rootChildren, occupied, signups, classes,
                   classOf, defaults, deviceClass, used, disturbed>>

PostChild ==
    /\ At("child")
    /\ rootChildren' = rootChildren \union {request.op}
    /\ Goto("operator")
    /\ UNCHANGED <<operators, registration, opEntities, occupied, signups, classes, classOf,
                   defaults, deviceClass, used, disturbed>>

PostOperator(stored) ==
    /\ At("operator")
    /\ operators' = IF stored THEN operators \union {request.op} ELSE operators
    /\ Goto(IF stored THEN "class" ELSE "undo child")
    /\ UNCHANGED <<registration, opEntities, rootChildren, occupied, signups, classes,
                   classOf, defaults, deviceClass, used, disturbed>>

PostClass(c) ==
    /\ At("class")
    /\ c \notin used
    /\ classes' = classes \union {c}
    /\ defaults' = defaults \union {c}
    /\ classOf' = [classOf EXCEPT ![c] = request.op]
    /\ used' = used \union {c}
    /\ Done
    /\ UNCHANGED <<operators, registration, opEntities, rootChildren, occupied, signups,
                   deviceClass, disturbed>>

PostUndoChild ==
    /\ At("undo child")
    /\ rootChildren' = rootChildren \ {request.op}
    /\ Goto("undo entity")
    /\ UNCHANGED <<operators, registration, opEntities, occupied, signups, classes, classOf,
                   defaults, deviceClass, used, disturbed>>

PostUndoEntity ==
    /\ At("undo entity")
    /\ opEntities' = opEntities \ {request.op}
    /\ Done
    /\ UNCHANGED <<operators, registration, rootChildren, occupied, signups, classes,
                   classOf, defaults, deviceClass, used, disturbed>>

(***************************************************************************)
(* DELETE: not the default operator, none with signups, none whose entity  *)
(* is occupied.  An operator whose entity is gone is deleted all the same. *)
(***************************************************************************)
OperatorDelete(o) ==
    /\ At("idle")
    /\ o \in operators \ {DefaultOperator}
    /\ o \notin signups
    /\ o \in opEntities => o \notin occupied
    /\ request' = [at |-> IF o \in opEntities THEN "drop entity" ELSE "drop operator",
                   op |-> o]
    /\ UNCHANGED <<operators, registration, opEntities, rootChildren, occupied, signups,
                   classes, classOf, defaults, deviceClass, used, disturbed>>

DropEntity ==
    /\ At("drop entity")
    /\ opEntities' = opEntities \ {request.op}
    /\ occupied' = occupied \ {request.op}
    /\ Goto("drop child")
    /\ UNCHANGED <<operators, registration, rootChildren, signups, classes, classOf,
                   defaults, deviceClass, used, disturbed>>

\* A mutation: the root keeps listing the entity.
DropChildNot ==
    /\ At("drop child")
    /\ Goto("drop operator")
    /\ UNCHANGED <<operators, registration, opEntities, rootChildren, occupied, signups,
                   classes, classOf, defaults, deviceClass, used, disturbed>>

DropChild ==
    /\ At("drop child")
    /\ rootChildren' = rootChildren \ {request.op}
    /\ Goto("drop operator")
    /\ UNCHANGED <<operators, registration, opEntities, occupied, signups, classes, classOf,
                   defaults, deviceClass, used, disturbed>>

\* The answer is an error when the row cannot be deleted; the rest stays done.
DropOperator(deleted) ==
    /\ At("drop operator")
    /\ operators' = IF deleted THEN operators \ {request.op} ELSE operators
    /\ disturbed' = IF deleted THEN disturbed ELSE disturbed \union {request.op}
    /\ IF deleted THEN Goto("drop classes") ELSE Done
    /\ UNCHANGED <<registration, opEntities, rootChildren, occupied, signups, classes,
                   classOf, defaults, deviceClass, used>>

DropClasses ==
    LET gone == {c \in classes : classOf[c] = request.op}
    IN
    /\ At("drop classes")
    /\ classes' = classes \ gone
    /\ defaults' = defaults \ gone
    /\ Done
    /\ UNCHANGED <<operators, registration, opEntities, rootChildren, occupied, signups,
                   classOf, deviceClass, used, disturbed>>

OperatorsCrash ==
    /\ ~At("idle")
    /\ disturbed' = disturbed \union {request.op}
    /\ Done
    /\ UNCHANGED <<operators, registration, opEntities, rootChildren, occupied, signups,
                   classes, classOf, defaults, deviceClass, used>>

(***************************************************************************)
(* Service classes.  The first class of an operator without a default one  *)
(* becomes the default.  A class that a subscriber device names is kept.   *)
(***************************************************************************)
HasDefault(o) == \E c \in defaults : classOf[c] = o

ServiceClassPost(c, o) ==
    /\ c \notin used
    /\ o \in operators
    /\ classes' = classes \union {c}
    /\ defaults' = IF HasDefault(o) THEN defaults ELSE defaults \union {c}
    /\ classOf' = [classOf EXCEPT ![c] = o]
    /\ used' = used \union {c}
    /\ disturbed' = IF ~At("idle") /\ request.op = o THEN disturbed \union {o} ELSE disturbed
    /\ UNCHANGED <<operators, registration, opEntities, rootChildren, occupied, signups,
                   deviceClass, request>>

ServiceClassDelete(c) ==
    /\ c \in classes
    /\ \A d \in DeviceIds : deviceClass[d] # c
    /\ classes' = classes \ {c}
    /\ defaults' = defaults \ {c}
    /\ UNCHANGED <<operators, registration, opEntities, rootChildren, occupied, signups,
                   classOf, deviceClass, used, request, disturbed>>

(***************************************************************************)
(* The other components.                                                   *)
(***************************************************************************)

\* POST or PUT of a subscriber device: the class is empty or exists, whoever's it is.
DeviceNamesClass(d, c) ==
    /\ c \in classes \union {NoClass}
    /\ deviceClass' = [deviceClass EXCEPT ![d] = c]
    /\ UNCHANGED <<operators, registration, opEntities, rootChildren, occupied, signups,
                   classes, classOf, defaults, used, request, disturbed>>

EntityFills(o) ==
    /\ o \in opEntities
    /\ occupied' \in {occupied \union {o}, occupied \ {o}}
    /\ UNCHANGED <<operators, registration, opEntities, rootChildren, signups, classes,
                   classOf, defaults, deviceClass, used, request, disturbed>>

\* Nobody asks for the signups of the default operator.
Signs(o) ==
    /\ o \in operators \ {DefaultOperator}
    /\ signups' \in {signups \union {o}, signups \ {o}}
    /\ UNCHANGED <<operators, registration, opEntities, rootChildren, occupied, classes,
                   classOf, defaults, deviceClass, used, request, disturbed>>

OperatorsNext ==
    \/ \E o \in OperatorIds :
        \/ \E r \in RegistrationIds : OperatorPost(o, r)
        \/ OperatorDelete(o) \/ EntityFills(o) \/ Signs(o)
        \/ \E c \in ClassIds : ServiceClassPost(c, o)
    \/ \E stored \in BOOLEAN : PostEntity(stored) \/ PostOperator(stored) \/ DropOperator(stored)
    \/ PostChild \/ PostUndoChild \/ PostUndoEntity
    \/ DropEntity \/ DropChild \/ DropClasses
    \/ OperatorsCrash
    \/ \E c \in ClassIds :
        \/ PostClass(c) \/ ServiceClassDelete(c)
        \/ \E d \in DeviceIds : DeviceNamesClass(d, c)
    \/ \E d \in DeviceIds : DeviceNamesClass(d, NoClass)

OperatorsSpec == OperatorsInit /\ [][OperatorsNext]_operatorVars

-----------------------------------------------------------------------------

(***************************************************************************)
(* Between requests an operator is whole or absent: it exists exactly when *)
(* its entity does, the root lists exactly those entities, its classes are *)
(* there with it and at most one is the default, and no two operators      *)
(* share a registration.  Operators whose request crashed, failed half way *)
(* or was crossed by the POST of a class are excepted.  About the order of *)
(* writes and the taking back in POST and DELETE of operators.             *)
(***************************************************************************)
OperatorsWhole ==
    LET broken == disturbed \union (IF At("idle") THEN {} ELSE {request.op})
        whole == OperatorIds \ (broken \union {DefaultOperator})
    IN
    /\ \A o \in whole : (o \in operators) <=> (o \in opEntities)
    /\ \A o \in whole : (o \in operators) <=> (o \in rootChildren)
    /\ \A c \in classes : classOf[c] \in operators \union broken
    /\ \A c, d \in defaults : classOf[c] = classOf[d] => c = d \/ classOf[c] \in broken
    /\ \A o, x \in operators : registration[o] = registration[x] => o = x

=============================================================================
