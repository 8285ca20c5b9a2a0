---------------------------- MODULE Subscribers ----------------------------
(***************************************************************************)
(* Subscribers and the devices they are given: the signup handler          *)
(* (POST, PUT and DELETE /subscriber), the subscriber device handler       *)
(* (POST, PUT and DELETE /subscriberDevice) and the removeSubscriber       *)
(* command of the inventory handler.                                       *)
(*                                                                         *)
(* A handler checks a rule against the tables, calls other services, and   *)
(* writes; other handlers run and the process may die between its steps.   *)
(* One step here is the part of a handler between two such points: what a  *)
(* check found is remembered in job[p] and may be stale when it is used.   *)
(* Every step but the first may also fail, which ends the handler.         *)
(*                                                                         *)
(* A subscriber's venue belongs to the entity of the operator and is named *)
(* after the e-mail address; the devices it lists are the tags that name   *)
(* it (Hierarchy shows that the two agree).  The accounts are owsec's.     *)
(* The configurations of devices and the analytics boards of venues are    *)
(* not part of this module.                                                *)
(***************************************************************************)
EXTENDS Naturals, FiniteSets

CONSTANTS Threads, Emails, UserIds, Operators, Serials,
          SignupIds, DeviceIds,  \* UUIDs: a bound on the rows alive at a time
          NoId,          \* the empty string
          Unassigned,    \* {NoId} if requests may leave the subscriber empty, else {}
          Ordinary,      \* some venue that is no subscriber's
          Keep           \* a field that is not in the body of a PUT

ASSUME SubscribersAssumption ==
    /\ {NoId, Keep, Ordinary} \intersect UserIds = {}
    /\ Cardinality({NoId, Keep, Ordinary}) = 3
    /\ Unassigned \subseteq {NoId}

VARIABLES
    account,     \* owsec: the account of each e-mail address
    everUsed,    \* owsec: account identifiers handed out
    signups,     \* SignupDB
    venues,      \* VenueDB: the subscribers' venues
    devices,     \* SubscriberDeviceDB
    tags,        \* InventoryDB: subscriber and venue of each serial number
    job          \* what each handler still has to do

owsec == <<account, everUsed>>
vars  == <<owsec, signups, venues, devices, tags, job>>

Users == UserIds \union {NoId}

NoTag == [present |-> FALSE, user |-> NoId, venue |-> NoId]
Idle  == [step |-> "idle"]

Signup == [id : SignupIds, email : Emails, user : Users, operator : Operators,
           status : {"waitingForEmail", "waitingForDevice"}]
Venue  == [user : UserIds, email : Emails, operator : Operators]
Device == [id : DeviceIds, serial : Serials, user : Users, group : {"olg", "ap"}]
Tag    == [present : BOOLEAN, user : Users, venue : Users \union {Ordinary}]

SignupSteps == {"askOwsec", "createSignup", "updateSignup", "ensureVenue",
                "deleteVenue", "deleteAccount", "deleteSignup"}
DeviceSteps == {"createDevice", "createTag", "updateDevice", "updateDeviceOnly",
                "updateTag", "deleteDevice", "deleteTag"}
UserSteps   == {"dropSignup", "dropDevices"}

TypeOK ==
    /\ account \in [Emails -> Users]
    /\ everUsed \in SUBSET UserIds
    /\ signups \in SUBSET Signup
    /\ venues \in SUBSET Venue
    /\ devices \in SUBSET Device
    /\ tags \in [Serials -> Tag]
    /\ \A p \in Threads : \/ job[p] = Idle
                          \/ job[p].step \in SignupSteps /\ job[p].row \in Signup
                          \/ job[p].step \in DeviceSteps /\ job[p].row \in Device
                          \/ job[p].step \in UserSteps /\ job[p].user \in UserIds

Init ==
    /\ account = [e \in Emails |-> NoId] /\ everUsed = {}
    /\ signups = {} /\ venues = {} /\ devices = {}
    /\ tags = [s \in Serials |-> NoTag]
    /\ job = [p \in Threads |-> Idle]

Accounts == {account[e] : e \in Emails} \ {NoId}

\* A UUID that no row has and no handler remembers is as good as a new one.
Unused(ids, table) ==
    ids \ ({r.id : r \in table}
             \union {job[p].row.id : p \in {q \in Threads :
                                       job[q].step \in SignupSteps \union DeviceSteps}})
NewId(ids, table) == CHOOSE id \in Unused(ids, table) : TRUE

\* A free thread accepts a request that passed its checks.
Begin(p, step, row) ==
    /\ job[p] = Idle
    /\ job' = [job EXCEPT ![p] = [step |-> step, row |-> row]]
    /\ UNCHANGED <<owsec, signups, venues, devices, tags>>

\* The next step of the handler on p, and its end.
Then(p, step, row) ==
    job' = [job EXCEPT ![p] = [step |-> step, row |-> row]]
Done(p) == job' = [job EXCEPT ![p] = Idle]

\* UPDATE writes the whole record; a row that is gone stays gone.
UpdateRecord(table, row) ==
    {IF r.id = row.id THEN row ELSE r : r \in table}

DeleteRecord(table, row) == {r \in table : r.id # row.id}

(***************************************************************************)
(* POST /subscriber.  An address that has a row is refused or answered     *)
(* from the row, unless the row waits for the e-mail and a resend is       *)
(* asked: then the row read here is the one stored in the end.             *)
(***************************************************************************)
\* A mutation: a resend starts a verified signup over.
SubscriberPostRestarts(p, e, o, resend) ==
    \/ /\ resend
       /\ \E s \in signups :
            /\ s.email = e /\ s.operator = o
            /\ Begin(p, "askOwsec", [s EXCEPT !.status = "waitingForEmail"])
    \/ /\ \A s \in signups : s.email # e
       /\ Unused(SignupIds, signups) # {}
       /\ Begin(p, "askOwsec",
                [id |-> NewId(SignupIds, signups), email |-> e, user |-> NoId,
                 operator |-> o, status |-> "waitingForEmail"])

SubscriberPost(p, e, o, resend) ==
    \/ /\ \A s \in signups : s.email # e
       /\ Unused(SignupIds, signups) # {}
       /\ Begin(p, "askOwsec",
                [id |-> NewId(SignupIds, signups), email |-> e, user |-> NoId,
                 operator |-> o, status |-> "waitingForEmail"])
    \/ /\ resend
       /\ \E s \in signups :
            /\ s.email = e /\ s.operator = o /\ s.status = "waitingForEmail"
            /\ Begin(p, "askOwsec", s)

\* What the handler does with the account in owsec's answer.
SignupAnswered(p, u) ==
    LET row == job[p].row
    IN  IF row.user # NoId THEN Then(p, "updateSignup", row)
        ELSE IF \E s \in signups : s.user = u THEN Done(p)
        ELSE Then(p, "createSignup", [row EXCEPT !.user = u])

\* owsec creates the account of an address that has none.
OwsecSignup(p) ==
    /\ job[p].step = "askOwsec"
    /\ LET e == job[p].row.email
       IN  \/ /\ account[e] # NoId
              /\ SignupAnswered(p, account[e])
              /\ UNCHANGED owsec
           \/ /\ account[e] = NoId
              /\ \E u \in UserIds \ everUsed :
                    /\ account' = [account EXCEPT ![e] = u]
                    /\ everUsed' = everUsed \union {u}
                    /\ SignupAnswered(p, u)
    /\ UNCHANGED <<signups, venues, devices, tags>>

\* Whether the statement succeeded is not looked at.
StoreSignup(p) ==
    /\ job[p].step \in {"createSignup", "updateSignup"}
    /\ \/ signups' = IF job[p].step = "createSignup" THEN signups \union {job[p].row}
                     ELSE UpdateRecord(signups, job[p].row)
       \/ signups' = signups
    /\ Then(p, "ensureVenue", job[p].row)
    /\ UNCHANGED <<owsec, venues, devices, tags>>

EnsureVenue(p) ==
    LET row == job[p].row
    IN  /\ job[p].step = "ensureVenue"
        /\ venues' = IF \E v \in venues : v.email = row.email /\ v.operator = row.operator
                     THEN venues
                     ELSE venues \union {[user |-> row.user, email |-> row.email,
                                          operator |-> row.operator]}
        /\ Done(p)
        /\ UNCHANGED <<owsec, signups, devices, tags>>

(***************************************************************************)
(* PUT /subscriber, called by owsec.  Only emailVerified moves a signup.   *)
(***************************************************************************)
EmailVerified(p, s) ==
    /\ job[p] = Idle
    /\ s.status = "waitingForEmail"
    /\ signups' = UpdateRecord(signups, [s EXCEPT !.status = "waitingForDevice"])
    /\ UNCHANGED <<owsec, venues, devices, tags, job>>

(***************************************************************************)
(* DELETE /subscriber: the venue, then the account, then the signup.       *)
(***************************************************************************)
VenueDevices(u) == {s \in Serials : tags[s].present /\ tags[s].venue = u}

DevicesOf(u) == {d \in devices : d.user = u}
TagsOf(u)    == {s \in Serials : tags[s].present /\ tags[s].user = u}

\* A mutation: only the subscriber's own devices are looked at.
SubscriberDeleteOccupied(p, s) ==
    /\ DevicesOf(s.user) = {} /\ TagsOf(s.user) = {}
    /\ Begin(p, "deleteVenue", s)

\* A mutation: only the venue is looked at.
SubscriberDeleteByVenue(p, s) ==
    /\ VenueDevices(s.user) = {}
    /\ Begin(p, "deleteVenue", s)

SubscriberDelete(p, s) ==
    /\ DevicesOf(s.user) = {} /\ TagsOf(s.user) = {}
    /\ \A v \in venues : v.user = s.user => VenueDevices(s.user) = {}
    /\ Begin(p, "deleteVenue", s)

DeleteVenue(p) ==
    /\ job[p].step = "deleteVenue"
    /\ venues' = {v \in venues : v.user # job[p].row.user}
    /\ Then(p, "deleteAccount", job[p].row)
    /\ UNCHANGED <<owsec, signups, devices, tags>>

\* owsec refuses to delete an account it does not have.
OwsecDelete(p) ==
    /\ job[p].step = "deleteAccount"
    /\ job[p].row.user \in Accounts
    /\ account' = [e \in Emails |-> IF account[e] = job[p].row.user THEN NoId
                                    ELSE account[e]]
    /\ Then(p, "deleteSignup", job[p].row)
    /\ UNCHANGED <<everUsed, signups, venues, devices, tags>>

DeleteSignup(p) ==
    /\ job[p].step = "deleteSignup"
    /\ signups' = DeleteRecord(signups, job[p].row)
    /\ Done(p)
    /\ UNCHANGED <<owsec, venues, devices, tags>>

(***************************************************************************)
(* The rules for the group of a device.                                    *)
(***************************************************************************)
\* The first device of a subscriber is its gateway, no other one is.
ValidateDeviceGroup(u, g) == (DevicesOf(u) = {}) <=> (g = "olg")

\* A mutation: the device's present subscriber is looked at instead of the new one.
ValidateGroupOfOld(d, u, g) ==
    g = "olg" => ~ \E e \in DevicesOf(d.user) : e.group = "olg" /\ e.id # d.id

\* A device may always become a mesh node, and the gateway if there is no other.
ValidateDeviceGroupForUpdate(d, u, g) ==
    LET target == IF u \in {NoId, Keep} THEN d.user ELSE u
    IN  g = "olg" => ~ \E e \in DevicesOf(target) : e.group = "olg" /\ e.id # d.id

(***************************************************************************)
(* POST /subscriberDevice.  The subscriber must have an account, or be     *)
(* left empty.                                                             *)
(***************************************************************************)
DevicePost(p, serial, u, g) ==
    /\ \A d \in devices : d.serial # serial
    /\ u \in Accounts \union {NoId}
    /\ ValidateDeviceGroup(u, g)
    /\ Unused(DeviceIds, devices) # {}
    /\ Begin(p, "createDevice", [id |-> NewId(DeviceIds, devices), serial |-> serial,
                                 user |-> u, group |-> g])

CreateSubscriberDeviceRecord(p) ==
    /\ job[p].step = "createDevice"
    /\ devices' = devices \union {job[p].row}
    /\ Then(p, "createTag", job[p].row)
    /\ UNCHANGED <<owsec, signups, venues, tags>>

\* The venue found for a subscriber.  With an empty subscriber the query is for a
\* venue whose subscriber column is empty, which any ordinary venue's is.
ResolvedVenues(u) ==
    IF u = NoId THEN {NoId, Ordinary}
    ELSE IF \E v \in venues : v.user = u THEN {u} ELSE {NoId}

\* The tag of the serial number is created or updated; it stays where it is when
\* no venue is found.
CreateInventoryRecord(p) ==
    LET row == job[p].row
        old == tags[row.serial]
    IN  /\ job[p].step \in {"createTag", "updateTag"}
        /\ \E v \in ResolvedVenues(row.user) :
             tags' = [tags EXCEPT ![row.serial] =
                        [present |-> TRUE, user |-> row.user,
                         venue |-> IF v = NoId THEN old.venue ELSE v]]
        /\ Done(p)
        /\ UNCHANGED <<owsec, signups, venues, devices>>

\* The tag could not be stored: a POST takes its device row back.
InventoryRecordFails(p) ==
    /\ job[p].step \in {"createTag", "updateTag"}
    /\ devices' = IF job[p].step = "createTag" THEN DeleteRecord(devices, job[p].row)
                  ELSE devices
    /\ Done(p)
    /\ UNCHANGED <<owsec, signups, venues, tags>>

(***************************************************************************)
(* PUT /subscriberDevice.  The group is required, the subscriber may be    *)
(* changed.  The tag is brought into line when the subscriber, or another  *)
(* field that the tag has too, is in the body (tagFields).                 *)
(***************************************************************************)
DevicePut(p, d, u, g, tagFields) ==
    /\ u \in Accounts \union {NoId, Keep}
    /\ ValidateDeviceGroupForUpdate(d, u, g)
    /\ Begin(p, IF u # Keep \/ tagFields THEN "updateDevice" ELSE "updateDeviceOnly",
             [d EXCEPT !.user = IF u = Keep THEN @ ELSE u, !.group = g])

UpdateDevice(p) ==
    /\ job[p].step \in {"updateDevice", "updateDeviceOnly"}
    /\ devices' = UpdateRecord(devices, job[p].row)
    /\ IF job[p].step = "updateDevice" THEN Then(p, "updateTag", job[p].row)
       ELSE Done(p)
    /\ UNCHANGED <<owsec, signups, venues, tags>>

(***************************************************************************)
(* DELETE /subscriberDevice.                                               *)
(***************************************************************************)
\* The gateway is deleted last.
ValidateDeleteRequest(d) == d.group = "olg" => Cardinality(DevicesOf(d.user)) <= 1

DeviceDelete(p, d) ==
    /\ ValidateDeleteRequest(d)
    /\ Begin(p, "deleteDevice", d)

DeleteDevice(p) ==
    /\ job[p].step = "deleteDevice"
    /\ devices' = DeleteRecord(devices, job[p].row)
    /\ Then(p, "deleteTag", job[p].row)
    /\ UNCHANGED <<owsec, signups, venues, tags>>

DeleteInventoryForSubscriberDevice(p) ==
    /\ job[p].step = "deleteTag"
    /\ tags' = [tags EXCEPT ![job[p].row.serial] = NoTag]
    /\ Done(p)
    /\ UNCHANGED <<owsec, signups, venues, devices>>

(***************************************************************************)
(* PUT /inventory with removeSubscriber: the tag is released, then the     *)
(* signup and every device row of the subscriber are deleted.  The other   *)
(* tags, the venue and the account stay.                                   *)
(***************************************************************************)
RemoveSubscriber(p, s) ==
    /\ job[p] = Idle
    /\ tags[s].present /\ tags[s].user # NoId
    /\ tags' = [tags EXCEPT ![s].user = NoId]
    /\ job' = [job EXCEPT ![p] = [step |-> "dropSignup", user |-> tags[s].user]]
    /\ UNCHANGED <<owsec, signups, venues, devices>>

DropSignup(p) ==
    /\ job[p].step = "dropSignup"
    /\ signups' = {s \in signups : s.user # job[p].user}
    /\ job' = [job EXCEPT ![p].step = "dropDevices"]
    /\ UNCHANGED <<owsec, venues, devices, tags>>

DropDevices(p) ==
    /\ job[p].step = "dropDevices"
    /\ devices' = {d \in devices : d.user # job[p].user}
    /\ Done(p)
    /\ UNCHANGED <<owsec, signups, venues, tags>>

(***************************************************************************)
(* A statement or a call to another service fails, and the handler ends.   *)
(* What it wrote stays; only a failed tag is cleaned up after (above).     *)
(***************************************************************************)
Fails(p) ==
    /\ job[p].step \in {"askOwsec", "deleteVenue", "deleteAccount", "deleteSignup",
                        "ensureVenue", "createDevice", "updateDevice",
                        "updateDeviceOnly", "deleteDevice", "deleteTag"}
    /\ Done(p)
    /\ UNCHANGED <<owsec, signups, venues, devices, tags>>

Crash ==
    /\ \E p \in Threads : job[p] # Idle
    /\ job' = [p \in Threads |-> Idle]
    /\ UNCHANGED <<owsec, signups, venues, devices, tags>>

Request(p) ==
    \/ \E e \in Emails, o \in Operators, r \in BOOLEAN : SubscriberPost(p, e, o, r)
    \/ \E s \in signups : EmailVerified(p, s) \/ SubscriberDelete(p, s)
    \/ \E s \in Serials, u \in UserIds \union Unassigned, g \in {"olg", "ap"} : DevicePost(p, s, u, g)
    \/ \E d \in devices, u \in UserIds \union Unassigned \union {Keep},
          g \in {"olg", "ap"}, f \in BOOLEAN : DevicePut(p, d, u, g, f)
    \/ \E d \in devices : DeviceDelete(p, d)
    \/ \E s \in Serials : RemoveSubscriber(p, s)

Step(p) ==
    \/ OwsecSignup(p) \/ StoreSignup(p) \/ EnsureVenue(p)
    \/ DeleteVenue(p) \/ OwsecDelete(p) \/ DeleteSignup(p)
    \/ CreateSubscriberDeviceRecord(p) \/ CreateInventoryRecord(p)
    \/ InventoryRecordFails(p) \/ UpdateDevice(p)
    \/ DeleteDevice(p) \/ DeleteInventoryForSubscriberDevice(p)
    \/ DropSignup(p) \/ DropDevices(p)
    \/ Fails(p)

Next == (\E p \in Threads : Request(p) \/ Step(p)) \/ Crash

Spec == Init /\ [][Next]_vars

-----------------------------------------------------------------------------
(***************************************************************************)
(* README.md:115: a subscriber has at most one gateway, through every      *)
(* sequence of additions, moves between subscribers, changes of group,     *)
(* failures and crashes.                                                   *)
(***************************************************************************)
OneGateway ==
    \A d, e \in devices :
        d.user = e.user /\ d.user # NoId /\ d.group = "olg" /\ e.group = "olg" => d = e

(***************************************************************************)
(* README.md:119: a subscriber's account goes only when no device is left, *)
(* so every device row names a subscriber that exists, or none.            *)
(***************************************************************************)
DevicesHaveAccount == \A d \in devices : d.user \in Accounts \union {NoId}

(***************************************************************************)
(* README.md:98: a subscriber's venue is not deleted while devices remain  *)
(* in it, also when they were released by removeSubscriber and the address *)
(* signed up again.                                                        *)
(***************************************************************************)
TagsInExistingVenues ==
    \A s \in Serials : tags[s].venue \in {v.user : v \in venues} \union {NoId, Ordinary}

(***************************************************************************)
(* RESTAPI_subscriber_handler.cpp:28: once its e-mail is verified a signup *)
(* is refused any further POST; it never waits for the e-mail again.       *)
(***************************************************************************)
NeverWaitsAgain ==
    \A s \in signups, t \in signups' :
       s.id = t.id /\ s.status = "waitingForDevice" => t.status = "waitingForDevice"

VerifiedStaysVerified == [][NeverWaitsAgain]_vars

=============================================================================
