------------------------- MODULE Subscribers_proofs -------------------------
(***************************************************************************)
(* The rules for subscribers, their devices and their venues, handler by   *)
(* handler, with failures and crashes between the steps of each; for every *)
(* number of addresses, accounts, operators, serial numbers and UUIDs.     *)
(* With two handlers at once OneGateway does not hold: the theorems are    *)
(* about the one thread h.                                                 *)
(***************************************************************************)
EXTENDS Subscribers, TLAPS

Jobs ==
    {Idle} \union [step : SignupSteps, row : Signup]
           \union [step : DeviceSteps, row : Device]
           \union [step : UserSteps, user : UserIds]

SubscribersTypeOK ==
    /\ account \in [Emails -> Users]
    /\ everUsed \in SUBSET UserIds
    /\ signups \in SUBSET Signup
    /\ venues \in SUBSET Venue
    /\ devices \in SUBSET Device
    /\ tags \in [Serials -> Tag]
    /\ job \in [Threads -> Jobs]

\* A row's UUID is its own, and a signup is stored with its account only.
SignupsKnown ==
    /\ \A s \in signups : s.user \in UserIds
    /\ \A s, t \in signups : s.id = t.id => s = t

AbsentNowhere == \A s \in Serials : ~tags[s].present => tags[s].venue = NoId

\* A new gateway has no other beside it.
NoOtherGateway(row) ==
    row.user # NoId /\ row.group = "olg" =>
       \A d \in devices : d.user = row.user /\ d.group = "olg" => d.id = row.id

NewRow(row)     == \A s \in signups : s.id # row.id
WaitingRow(row) == \A s \in signups : s.id = row.id => s.status = "waitingForEmail"

\* What the checks of the handler on h found still holds when it is used.
ChecksHold(h) ==
    LET j == job[h]
    IN  /\ j.step = "askOwsec" =>
             IF j.row.user = NoId THEN NewRow(j.row) ELSE WaitingRow(j.row)
        /\ j.step = "createSignup" => j.row.user \in UserIds /\ NewRow(j.row)
        /\ j.step = "updateSignup" => j.row.user \in UserIds /\ WaitingRow(j.row)
        /\ j.step = "ensureVenue" => j.row.user \in UserIds
        /\ j.step = "deleteVenue" =>
             DevicesOf(j.row.user) = {}
               /\ \A v \in venues : v.user = j.row.user => VenueDevices(j.row.user) = {}
        /\ j.step = "deleteAccount" => DevicesOf(j.row.user) = {}
        /\ j.step \in {"createDevice", "updateDevice", "updateDeviceOnly"} =>
             j.row.user \in Accounts \union {NoId} /\ NoOtherGateway(j.row)
        /\ j.step = "createDevice" => \A d \in devices : d.id # j.row.id

RulesHold ==
    OneGateway /\ DevicesHaveAccount /\ TagsInExistingVenues /\ SignupsKnown /\ AbsentNowhere

SubscribersInv(h) == SubscribersTypeOK /\ RulesHold /\ ChecksHold(h)

LEMMA SubscribersInitInv ==
    ASSUME NEW h, Threads = {h}, Init
    PROVE  SubscribersInv(h)
<1> USE DEF Init
<1>1. NoTag \in Tag /\ NoTag.present = FALSE /\ NoTag.venue = NoId
  BY DEF NoTag, Tag, Users
<1>2. SubscribersTypeOK
  BY <1>1 DEF SubscribersTypeOK, Users, Jobs
<1>3. RulesHold
  BY <1>1 DEF RulesHold, OneGateway, DevicesHaveAccount, TagsInExistingVenues, SignupsKnown,
     AbsentNowhere
<1>4. job[h].step = "idle"
  BY DEF Idle
<1>5. ChecksHold(h)
  BY <1>4 DEF ChecksHold
<1>6. QED
  BY <1>2, <1>3, <1>5 DEF SubscribersInv

\* The row a step works on.
LEMMA JobRow ==
    ASSUME NEW h, Threads = {h}, SubscribersTypeOK
    PROVE  /\ job[h].step \in SignupSteps => job[h].row \in Signup
           /\ job[h].step \in DeviceSteps => job[h].row \in Device
           /\ job[h].step \in UserSteps => job[h].user \in UserIds
<1>1. job[h] \in Jobs
  BY DEF SubscribersTypeOK
<1>2. QED
  BY <1>1 DEF Jobs, Idle, SignupSteps, DeviceSteps, UserSteps

\* A step that writes no table.
LEMMA TablesSame ==
    ASSUME SubscribersTypeOK, RulesHold, UNCHANGED <<owsec, signups, venues, devices, tags>>
    PROVE  /\ RulesHold' /\ NeverWaitsAgain
           /\ (job' \in [Threads -> Jobs]) => SubscribersTypeOK'
<1>1. UNCHANGED <<account, everUsed, signups, venues, devices, tags>>
  BY DEF owsec
<1>2. RulesHold'
  BY <1>1 DEF RulesHold, OneGateway, DevicesHaveAccount, TagsInExistingVenues, SignupsKnown,
     AbsentNowhere, Accounts
<1>3. NeverWaitsAgain
  BY <1>1 DEF RulesHold, SignupsKnown, NeverWaitsAgain
<1>4. (job' \in [Threads -> Jobs]) => SubscribersTypeOK'
  BY <1>1 DEF SubscribersTypeOK
<1>5. QED
  BY <1>2, <1>3, <1>4

\* A handler ends, whatever tables it has written.
LEMMA Ended ==
    ASSUME NEW h, Threads = {h}, SubscribersTypeOK, Done(h)
    PROVE  job' \in [Threads -> Jobs] /\ ChecksHold(h)'
<1>1. job'[h] = Idle /\ job' \in [Threads -> Jobs]
  BY DEF Done, SubscribersTypeOK, Jobs
<1>2. job'[h].step = "idle"
  BY <1>1 DEF Idle
<1>3. QED
  BY <1>1, <1>2 DEF ChecksHold

\* A handler goes on to a step.
LEMMA GoesOn ==
    ASSUME NEW h, Threads = {h}, SubscribersTypeOK, NEW step, NEW row,
           job' = [job EXCEPT ![h] = [step |-> step, row |-> row]],
           \/ step \in SignupSteps /\ row \in Signup
           \/ step \in DeviceSteps /\ row \in Device
    PROVE  /\ job' \in [Threads -> Jobs]
           /\ job'[h].step = step /\ job'[h].row = row
BY DEF SubscribersTypeOK, Jobs

(***************************************************************************)
(* The requests: what the checks found is what the steps rely on.          *)
(***************************************************************************)
LEMMA Accepted ==
    ASSUME NEW h, Threads = {h}, SubscribersInv(h), NEW step, NEW row, Begin(h, step, row),
           \/ step \in SignupSteps /\ row \in Signup
           \/ step \in DeviceSteps /\ row \in Device
    PROVE  /\ SubscribersTypeOK' /\ RulesHold' /\ NeverWaitsAgain
           /\ job'[h].step = step /\ job'[h].row = row
           /\ UNCHANGED <<account, signups, venues, devices, tags>>
<1>1. /\ job' = [job EXCEPT ![h] = [step |-> step, row |-> row]]
      /\ UNCHANGED <<owsec, signups, venues, devices, tags>>
  BY DEF Begin
<1>2. job' \in [Threads -> Jobs] /\ job'[h].step = step /\ job'[h].row = row
  BY <1>1, GoesOn DEF SubscribersInv
<1>3. QED
  BY <1>1, <1>2, TablesSame DEF SubscribersInv, owsec

\* A UUID chosen for a new row is no row's.
LEMMA NewIdIsNew ==
    ASSUME NEW ids, NEW table, Unused(ids, table) # {}
    PROVE  NewId(ids, table) \in ids /\ \A r \in table : r.id # NewId(ids, table)
<1>1. NewId(ids, table) \in Unused(ids, table)
  BY DEF NewId
<1>2. QED
  BY <1>1 DEF Unused

LEMMA SubscriberPostInv ==
    ASSUME NEW h, Threads = {h}, SubscribersInv(h),
           NEW e \in Emails, NEW o \in Operators, NEW r \in BOOLEAN, SubscriberPost(h, e, o, r)
    PROVE  SubscribersInv(h)' /\ NeverWaitsAgain
<1>1. "askOwsec" \in SignupSteps
  BY DEF SignupSteps
<1>2. CASE Unused(SignupIds, signups) # {}
           /\ Begin(h, "askOwsec",
                    [id |-> NewId(SignupIds, signups), email |-> e, user |-> NoId,
                     operator |-> o, status |-> "waitingForEmail"])
  <2> DEFINE n == NewId(SignupIds, signups)
             row == [id |-> n, email |-> e, user |-> NoId,
                     operator |-> o, status |-> "waitingForEmail"]
  <2>1. n \in SignupIds /\ \A s \in signups : s.id # n
    BY <1>2, NewIdIsNew
  <2>2. row \in Signup /\ row.user = NoId /\ row.id = n
    BY <2>1 DEF Signup, Users
  <2>3. Begin(h, "askOwsec", row)
    BY <1>2
  <2> HIDE DEF row, n
  <2>4. /\ SubscribersTypeOK' /\ RulesHold' /\ NeverWaitsAgain
        /\ job'[h].step = "askOwsec" /\ job'[h].row = row /\ UNCHANGED signups
    BY <1>1, <2>2, <2>3, Accepted
  <2>5. ChecksHold(h)'
    BY <2>1, <2>2, <2>4 DEF ChecksHold, NewRow
  <2>6. QED
    BY <2>4, <2>5 DEF SubscribersInv
<1>3. ASSUME NEW s \in signups, s.status = "waitingForEmail", Begin(h, "askOwsec", s)
      PROVE  SubscribersInv(h)' /\ NeverWaitsAgain
  <2>1. s \in Signup /\ s.user \in UserIds /\ \A t \in signups : t.id = s.id => t = s
    BY DEF SubscribersInv, SubscribersTypeOK, RulesHold, SignupsKnown
  <2>2. /\ SubscribersTypeOK' /\ RulesHold' /\ NeverWaitsAgain
        /\ job'[h].step = "askOwsec" /\ job'[h].row = s /\ UNCHANGED signups
    BY <1>1, <1>3, <2>1, Accepted
  <2>3. s.user # NoId
    BY <2>1, SubscribersAssumption
  <2>4. ChecksHold(h)'
    BY <1>3, <2>1, <2>2, <2>3 DEF ChecksHold, WaitingRow
  <2>5. QED
    BY <2>2, <2>4 DEF SubscribersInv
<1>4. QED
  BY <1>2, <1>3 DEF SubscriberPost

LEMMA SubscriberDeleteInv ==
    ASSUME NEW h, Threads = {h}, SubscribersInv(h), NEW s \in signups, SubscriberDelete(h, s)
    PROVE  SubscribersInv(h)' /\ NeverWaitsAgain
<1>1. /\ DevicesOf(s.user) = {} /\ Begin(h, "deleteVenue", s)
      /\ \A v \in venues : v.user = s.user => VenueDevices(s.user) = {}
  BY DEF SubscriberDelete
<1>2. "deleteVenue" \in SignupSteps /\ s \in Signup
  BY DEF SignupSteps, SubscribersInv, SubscribersTypeOK
<1>3. /\ SubscribersTypeOK' /\ RulesHold' /\ NeverWaitsAgain
      /\ job'[h].step = "deleteVenue" /\ job'[h].row = s
      /\ UNCHANGED <<account, signups, venues, devices, tags>>
  BY <1>1, <1>2, Accepted
<1>4. ChecksHold(h)'
  BY <1>1, <1>3 DEF ChecksHold, DevicesOf, VenueDevices
<1>5. QED
  BY <1>3, <1>4 DEF SubscribersInv

LEMMA EmailVerifiedInv ==
    ASSUME NEW h, Threads = {h}, SubscribersInv(h), NEW s \in signups, EmailVerified(h, s)
    PROVE  SubscribersInv(h)' /\ NeverWaitsAgain
<1> DEFINE row == [s EXCEPT !.status = "waitingForDevice"]
<1>1. /\ job[h] = Idle /\ signups' = UpdateRecord(signups, row)
      /\ UNCHANGED <<account, everUsed, venues, devices, tags, job>>
  BY DEF EmailVerified, owsec
<1>2. /\ s \in Signup /\ s.user \in UserIds
      /\ \A t \in signups : t \in Signup /\ t.user \in UserIds
      /\ \A t, u \in signups : t.id = u.id => t = u
  BY DEF SubscribersInv, SubscribersTypeOK, RulesHold, SignupsKnown
<1>3. /\ row \in Signup /\ row.id = s.id /\ row.user = s.user
      /\ row.status = "waitingForDevice"
  BY <1>2 DEF Signup
<1> HIDE DEF row
<1>4. \A t \in signups' : t = row \/ (t \in signups /\ t.id # row.id)
  BY <1>1 DEF UpdateRecord
<1>5. SubscribersTypeOK'
  BY <1>1, <1>2, <1>3, <1>4 DEF SubscribersInv, SubscribersTypeOK
<1>6. SignupsKnown'
  BY <1>2, <1>3, <1>4 DEF SignupsKnown
<1>7. RulesHold'
  BY <1>1, <1>6 DEF SubscribersInv, RulesHold, OneGateway, DevicesHaveAccount, Accounts,
     TagsInExistingVenues, AbsentNowhere
<1>8. NeverWaitsAgain
  BY <1>2, <1>3, <1>4 DEF NeverWaitsAgain
<1>9. job'[h].step = "idle"
  BY <1>1 DEF Idle
<1>10. ChecksHold(h)'
  BY <1>9 DEF ChecksHold
<1>11. QED
  BY <1>5, <1>7, <1>8, <1>10 DEF SubscribersInv

LEMMA DevicePostInv ==
    ASSUME NEW h, Threads = {h}, SubscribersInv(h), NEW serial \in Serials,
           NEW u \in UserIds \union Unassigned, NEW g \in {"olg", "ap"},
           DevicePost(h, serial, u, g)
    PROVE  SubscribersInv(h)' /\ NeverWaitsAgain
<1> DEFINE n == NewId(DeviceIds, devices)
           row == [id |-> n, serial |-> serial, user |-> u, group |-> g]
<1>1. /\ u \in Accounts \union {NoId} /\ ValidateDeviceGroup(u, g)
      /\ Unused(DeviceIds, devices) # {} /\ Begin(h, "createDevice", row)
  BY DEF DevicePost
<1>2. n \in DeviceIds /\ \A d \in devices : d.id # n
  BY <1>1, NewIdIsNew
<1>3. /\ row \in Device /\ row.user = u /\ row.group = g /\ row.id = n /\ "createDevice" \in DeviceSteps
  BY <1>2, SubscribersAssumption DEF Device, Users, DeviceSteps
<1> HIDE DEF row, n
<1>4. /\ SubscribersTypeOK' /\ RulesHold' /\ NeverWaitsAgain
      /\ job'[h].step = "createDevice" /\ job'[h].row = row
      /\ UNCHANGED <<account, signups, venues, devices, tags>>
  BY <1>1, <1>3, Accepted
<1>5. g = "olg" => \A d \in devices : d.user # u
  BY <1>1 DEF ValidateDeviceGroup, DevicesOf
<1>6. ChecksHold(h)'
  BY <1>1, <1>2, <1>3, <1>4, <1>5 DEF ChecksHold, NoOtherGateway, Accounts
<1>7. QED
  BY <1>4, <1>6 DEF SubscribersInv

LEMMA DevicePutInv ==
    ASSUME NEW h, Threads = {h}, SubscribersInv(h), NEW d \in devices,
           NEW u \in UserIds \union Unassigned \union {Keep}, NEW g \in {"olg", "ap"},
           NEW f \in BOOLEAN, DevicePut(h, d, u, g, f)
    PROVE  SubscribersInv(h)' /\ NeverWaitsAgain
<1> DEFINE row == [d EXCEPT !.user = IF u = Keep THEN @ ELSE u, !.group = g]
           step == IF u # Keep \/ f THEN "updateDevice" ELSE "updateDeviceOnly"
<1>1. /\ u \in Accounts \union {NoId, Keep} /\ ValidateDeviceGroupForUpdate(d, u, g)
      /\ Begin(h, step, row)
  BY DEF DevicePut
<1>2. d \in Device /\ d.user \in Accounts \union {NoId}
  BY DEF SubscribersInv, SubscribersTypeOK, RulesHold, DevicesHaveAccount
<1>3. /\ row \in Device /\ row.user = (IF u = Keep THEN d.user ELSE u)
      /\ row.group = g /\ row.id = d.id
  BY <1>2, SubscribersAssumption DEF Device, Users
<1>4. step \in DeviceSteps /\ step \in {"updateDevice", "updateDeviceOnly"}
  BY DEF DeviceSteps
<1> HIDE DEF row, step
<1>5. /\ SubscribersTypeOK' /\ RulesHold' /\ NeverWaitsAgain
      /\ job'[h].step = step /\ job'[h].row = row
      /\ UNCHANGED <<account, signups, venues, devices, tags>>
  BY <1>1, <1>3, <1>4, Accepted
<1>6. row.user # NoId /\ g = "olg" =>
        \A e \in devices : e.user = row.user /\ e.group = "olg" => e.id = d.id
  BY <1>1, <1>3 DEF ValidateDeviceGroupForUpdate, DevicesOf
<1>7. row.user \in Accounts \union {NoId}
  BY <1>1, <1>2, <1>3
<1>8. ChecksHold(h)'
  BY <1>3, <1>4, <1>5, <1>6, <1>7 DEF ChecksHold, NoOtherGateway, Accounts
<1>9. QED
  BY <1>5, <1>8 DEF SubscribersInv

LEMMA DeviceDeleteInv ==
    ASSUME NEW h, Threads = {h}, SubscribersInv(h), NEW d \in devices, DeviceDelete(h, d)
    PROVE  SubscribersInv(h)' /\ NeverWaitsAgain
<1>1. d \in Device /\ "deleteDevice" \in DeviceSteps /\ Begin(h, "deleteDevice", d)
  BY DEF SubscribersInv, SubscribersTypeOK, DeviceSteps, DeviceDelete
<1>2. /\ SubscribersTypeOK' /\ RulesHold' /\ NeverWaitsAgain
      /\ job'[h].step = "deleteDevice"
  BY <1>1, Accepted
<1>3. ChecksHold(h)'
  BY <1>2 DEF ChecksHold
<1>4. QED
  BY <1>2, <1>3 DEF SubscribersInv

LEMMA RemoveSubscriberInv ==
    ASSUME NEW h, Threads = {h}, SubscribersInv(h), NEW s \in Serials, RemoveSubscriber(h, s)
    PROVE  SubscribersInv(h)' /\ NeverWaitsAgain
<1>1. /\ tags[s].present /\ tags[s].user # NoId
      /\ tags' = [tags EXCEPT ![s].user = NoId]
      /\ job' = [job EXCEPT ![h] = [step |-> "dropSignup", user |-> tags[s].user]]
      /\ UNCHANGED <<account, everUsed, signups, venues, devices>>
  BY DEF RemoveSubscriber, owsec
<1>2. tags \in [Serials -> Tag] /\ job \in [Threads -> Jobs]
  BY DEF SubscribersInv, SubscribersTypeOK
<1>3. /\ tags' \in [Serials -> Tag]
      /\ \A x \in Serials : tags'[x].venue = tags[x].venue /\ tags'[x].present = tags[x].present
  BY <1>1, <1>2 DEF Tag, Users
<1>4. job' \in [Threads -> Jobs] /\ job'[h].step = "dropSignup"
  BY <1>1, <1>2 DEF Jobs, UserSteps, Tag, Users
<1>5. SubscribersTypeOK'
  BY <1>1, <1>3, <1>4 DEF SubscribersInv, SubscribersTypeOK
<1>6. RulesHold'
  BY <1>1, <1>3 DEF SubscribersInv, RulesHold, OneGateway, DevicesHaveAccount, Accounts,
     TagsInExistingVenues, AbsentNowhere, SignupsKnown
<1>7. NeverWaitsAgain
  BY <1>1 DEF SubscribersInv, RulesHold, SignupsKnown, NeverWaitsAgain
<1>8. ChecksHold(h)'
  BY <1>4 DEF ChecksHold
<1>9. QED
  BY <1>5, <1>6, <1>7, <1>8 DEF SubscribersInv

(***************************************************************************)
(* The steps of the signup handler.                                        *)
(***************************************************************************)
LEMMA OwsecSignupInv ==
    ASSUME NEW h, Threads = {h}, SubscribersInv(h), OwsecSignup(h)
    PROVE  SubscribersInv(h)' /\ NeverWaitsAgain
<1> DEFINE row == job[h].row
<1>1. /\ job[h].step = "askOwsec" /\ UNCHANGED <<signups, venues, devices, tags>>
  BY DEF OwsecSignup
<1>2. row \in Signup /\ (IF row.user = NoId THEN NewRow(row) ELSE WaitingRow(row))
  BY <1>1, JobRow DEF SubscribersInv, SignupSteps, ChecksHold
<1>3. PICK u \in UserIds : /\ SignupAnswered(h, u)
                           /\ account' \in [Emails -> Users] /\ everUsed' \in SUBSET UserIds
                           /\ Accounts \subseteq Accounts'
  <2>1. /\ account \in [Emails -> Users] /\ everUsed \in SUBSET UserIds
        /\ row.email \in Emails
    BY <1>2 DEF SubscribersInv, SubscribersTypeOK, Signup
  <2>2. CASE /\ account[row.email] # NoId /\ SignupAnswered(h, account[row.email])
             /\ UNCHANGED owsec
    <3>1. account[row.email] \in UserIds
      BY <2>1, <2>2 DEF Users
    <3>2. UNCHANGED <<account, everUsed>> /\ Accounts' = Accounts
      BY <2>2 DEF owsec, Accounts
    <3>3. QED
      BY <2>1, <2>2, <3>1, <3>2
  <2>3. ASSUME account[row.email] = NoId, NEW u \in UserIds,
               account' = [account EXCEPT ![row.email] = u], everUsed' = everUsed \union {u},
               SignupAnswered(h, u)
        PROVE  /\ SignupAnswered(h, u)
               /\ account' \in [Emails -> Users] /\ everUsed' \in SUBSET UserIds
               /\ Accounts \subseteq Accounts'
    <3>1. account' \in [Emails -> Users] /\ everUsed' \in SUBSET UserIds
      BY <2>1, <2>3 DEF Users
    <3>2. \A e \in Emails : account[e] # NoId => account'[e] = account[e]
      BY <2>1, <2>3
    <3>3. Accounts \subseteq Accounts'
      BY <3>2 DEF Accounts
    <3>4. QED
      BY <2>3, <3>1, <3>3
  <2>4. QED
    BY <1>1, <2>2, <2>3 DEF OwsecSignup
<1>4. RulesHold'
  BY <1>1, <1>3 DEF SubscribersInv, RulesHold, OneGateway, DevicesHaveAccount,
     TagsInExistingVenues, AbsentNowhere, SignupsKnown
<1>5. NeverWaitsAgain
  BY <1>1 DEF SubscribersInv, RulesHold, SignupsKnown, NeverWaitsAgain
<1>6. ASSUME job' \in [Threads -> Jobs] PROVE SubscribersTypeOK'
  BY <1>1, <1>3, <1>6 DEF SubscribersInv, SubscribersTypeOK
<1>7. SubscribersTypeOK
  BY DEF SubscribersInv
<1>8. "updateSignup" \in SignupSteps /\ "createSignup" \in SignupSteps
  BY DEF SignupSteps
<1>9. job' \in [Threads -> Jobs] /\ ChecksHold(h)'
  <2>1. CASE row.user # NoId
    <3>1. job' = [job EXCEPT ![h] = [step |-> "updateSignup", row |-> row]]
      BY <1>3, <2>1 DEF SignupAnswered, Then
    <3> HIDE DEF row
    <3>2. job' \in [Threads -> Jobs] /\ job'[h].step = "updateSignup" /\ job'[h].row = row
      BY <1>2, <1>7, <1>8, <3>1, GoesOn
    <3>3. row.user \in UserIds
      BY <1>2, <2>1 DEF Signup, Users
    <3>4. QED
      BY <1>1, <1>2, <2>1, <3>2, <3>3 DEF ChecksHold, WaitingRow
  <2>2. CASE row.user = NoId /\ \E s \in signups : s.user = u
    <3>1. Done(h)
      BY <1>3, <2>2 DEF SignupAnswered
    <3>2. QED
      BY <1>7, <3>1, Ended
  <2>3. CASE row.user = NoId /\ ~ \E s \in signups : s.user = u
    <3> DEFINE new == [row EXCEPT !.user = u]
    <3>1. job' = [job EXCEPT ![h] = [step |-> "createSignup", row |-> new]]
      BY <1>3, <2>3 DEF SignupAnswered, Then
    <3>2. new \in Signup /\ new.user = u /\ new.id = row.id
      BY <1>2 DEF Signup, Users
    <3> HIDE DEF new, row
    <3>3. job' \in [Threads -> Jobs] /\ job'[h].step = "createSignup" /\ job'[h].row = new
      BY <1>7, <1>8, <3>1, <3>2, GoesOn
    <3>4. QED
      BY <1>1, <1>2, <2>3, <3>2, <3>3 DEF ChecksHold, NewRow
  <2>4. QED
    BY <2>1, <2>2, <2>3
<1>10. QED
  BY <1>4, <1>5, <1>6, <1>9 DEF SubscribersInv

LEMMA StoreSignupInv ==
    ASSUME NEW h, Threads = {h}, SubscribersInv(h), StoreSignup(h)
    PROVE  SubscribersInv(h)' /\ NeverWaitsAgain
<1> DEFINE row == job[h].row
<1>1. /\ job[h].step \in {"createSignup", "updateSignup"}
      /\ job' = [job EXCEPT ![h] = [step |-> "ensureVenue", row |-> row]]
      /\ UNCHANGED <<account, everUsed, venues, devices, tags>>
  BY DEF StoreSignup, Then, owsec
<1>2. row \in Signup /\ row.user \in UserIds
  BY <1>1, JobRow DEF SubscribersInv, SignupSteps, ChecksHold
<1>3. /\ \A s \in signups : s \in Signup /\ s.user \in UserIds
      /\ \A s, t \in signups : s.id = t.id => s = t
  BY DEF SubscribersInv, SubscribersTypeOK, RulesHold, SignupsKnown
<1>4. \/ \A t \in signups' : t \in signups
      \/ NewRow(row) /\ \A t \in signups' : t \in signups \/ t = row
      \/ WaitingRow(row) /\ \A t \in signups' : t = row \/ (t \in signups /\ t.id # row.id)
  <2>1. CASE job[h].step = "createSignup"
    BY <2>1 DEF StoreSignup, SubscribersInv, ChecksHold
  <2>2. CASE job[h].step = "updateSignup"
    BY <2>2 DEF StoreSignup, UpdateRecord, SubscribersInv, ChecksHold
  <2>3. QED
    BY <1>1, <2>1, <2>2
<1>5. "ensureVenue" \in SignupSteps /\ SubscribersTypeOK
  BY DEF SignupSteps, SubscribersInv
<1> HIDE DEF row
<1>6. job' \in [Threads -> Jobs] /\ job'[h].step = "ensureVenue" /\ job'[h].row = row
  BY <1>1, <1>2, <1>5, GoesOn
<1>7. SubscribersTypeOK'
  BY <1>1, <1>2, <1>3, <1>4, <1>6 DEF SubscribersInv, SubscribersTypeOK
<1>8. SignupsKnown'
  BY <1>2, <1>3, <1>4 DEF SignupsKnown, NewRow
<1>9. NeverWaitsAgain
  BY <1>3, <1>4 DEF NeverWaitsAgain, NewRow, WaitingRow
<1>10. RulesHold'
  BY <1>1, <1>8 DEF SubscribersInv, RulesHold, OneGateway, DevicesHaveAccount, Accounts,
     TagsInExistingVenues, AbsentNowhere
<1>11. ChecksHold(h)'
  BY <1>2, <1>6 DEF ChecksHold
<1>12. QED
  BY <1>7, <1>9, <1>10, <1>11 DEF SubscribersInv

LEMMA EnsureVenueInv ==
    ASSUME NEW h, Threads = {h}, SubscribersInv(h), EnsureVenue(h)
    PROVE  SubscribersInv(h)' /\ NeverWaitsAgain
<1> DEFINE row == job[h].row
           venue == [user |-> row.user, email |-> row.email, operator |-> row.operator]
<1>1. /\ job[h].step = "ensureVenue" /\ Done(h)
      /\ venues' = venues \/ venues' = venues \union {venue}
      /\ UNCHANGED <<account, everUsed, signups, devices, tags>>
  BY DEF EnsureVenue, owsec
<1>2. row \in Signup /\ row.user \in UserIds
  BY <1>1, JobRow DEF SubscribersInv, SignupSteps, ChecksHold
<1>3. venue \in Venue
  BY <1>2 DEF Signup, Venue
<1> HIDE DEF venue
<1>4. job' \in [Threads -> Jobs] /\ ChecksHold(h)'
  BY <1>1, Ended DEF SubscribersInv
<1>5. SubscribersTypeOK'
  BY <1>1, <1>3, <1>4 DEF SubscribersInv, SubscribersTypeOK
<1>6. RulesHold'
  BY <1>1 DEF SubscribersInv, RulesHold, OneGateway, DevicesHaveAccount, Accounts,
     TagsInExistingVenues, AbsentNowhere, SignupsKnown
<1>7. NeverWaitsAgain
  BY <1>1 DEF SubscribersInv, RulesHold, SignupsKnown, NeverWaitsAgain
<1>8. QED
  BY <1>4, <1>5, <1>6, <1>7 DEF SubscribersInv

LEMMA DeleteVenueInv ==
    ASSUME NEW h, Threads = {h}, SubscribersInv(h), DeleteVenue(h)
    PROVE  SubscribersInv(h)' /\ NeverWaitsAgain
<1> DEFINE row == job[h].row
<1>1. /\ job[h].step = "deleteVenue"
      /\ venues' = {v \in venues : v.user # row.user}
      /\ job' = [job EXCEPT ![h] = [step |-> "deleteAccount", row |-> row]]
      /\ UNCHANGED <<account, everUsed, signups, devices, tags>>
  BY DEF DeleteVenue, Then, owsec
<1>2. /\ row \in Signup /\ DevicesOf(row.user) = {}
      /\ \A v \in venues : v.user = row.user => VenueDevices(row.user) = {}
  BY <1>1, JobRow DEF SubscribersInv, SignupSteps, ChecksHold
<1>3. "deleteAccount" \in SignupSteps /\ SubscribersTypeOK
  BY DEF SignupSteps, SubscribersInv
<1> HIDE DEF row
<1>4. job' \in [Threads -> Jobs] /\ job'[h].step = "deleteAccount" /\ job'[h].row = row
  BY <1>1, <1>2, <1>3, GoesOn
<1>5. SubscribersTypeOK'
  BY <1>1, <1>4 DEF SubscribersInv, SubscribersTypeOK
<1>6. TagsInExistingVenues'
  <2>1. ASSUME NEW s \in Serials, tags[s].venue \notin {NoId, Ordinary}
        PROVE  \E v \in venues' : v.user = tags[s].venue
    <3>1. PICK v \in venues : v.user = tags[s].venue
      BY <2>1 DEF SubscribersInv, RulesHold, TagsInExistingVenues
    <3>2. tags[s].present \/ tags[s].venue = NoId
      BY DEF SubscribersInv, RulesHold, AbsentNowhere
    <3>3. v.user # row.user
      BY <1>2, <2>1, <3>1, <3>2 DEF VenueDevices
    <3>4. QED
      BY <1>1, <3>1, <3>3
  <2>2. QED
    BY <1>1, <2>1 DEF TagsInExistingVenues
<1>7. RulesHold'
  BY <1>1, <1>6 DEF SubscribersInv, RulesHold, OneGateway, DevicesHaveAccount, Accounts,
     AbsentNowhere, SignupsKnown
<1>8. NeverWaitsAgain
  BY <1>1 DEF SubscribersInv, RulesHold, SignupsKnown, NeverWaitsAgain
<1>9. ChecksHold(h)'
  BY <1>1, <1>2, <1>4 DEF ChecksHold, DevicesOf
<1>10. QED
  BY <1>5, <1>7, <1>8, <1>9 DEF SubscribersInv

LEMMA OwsecDeleteInv ==
    ASSUME NEW h, Threads = {h}, SubscribersInv(h), OwsecDelete(h)
    PROVE  SubscribersInv(h)' /\ NeverWaitsAgain
<1> DEFINE row == job[h].row
<1>1. /\ job[h].step = "deleteAccount"
      /\ account' = [e \in Emails |-> IF account[e] = row.user THEN NoId ELSE account[e]]
      /\ job' = [job EXCEPT ![h] = [step |-> "deleteSignup", row |-> row]]
      /\ UNCHANGED <<everUsed, signups, venues, devices, tags>>
  BY DEF OwsecDelete, Then
<1>2. row \in Signup /\ DevicesOf(row.user) = {}
  BY <1>1, JobRow DEF SubscribersInv, SignupSteps, ChecksHold
<1>3. "deleteSignup" \in SignupSteps /\ SubscribersTypeOK
  BY DEF SignupSteps, SubscribersInv
<1> HIDE DEF row
<1>4. job' \in [Threads -> Jobs] /\ job'[h].step = "deleteSignup" /\ job'[h].row = row
  BY <1>1, <1>2, <1>3, GoesOn
<1>5. SubscribersTypeOK'
  BY <1>1, <1>4 DEF SubscribersInv, SubscribersTypeOK, Users
<1>6. \A u \in Accounts : u # row.user => u \in Accounts'
  BY <1>1 DEF Accounts
<1>7. DevicesHaveAccount'
  BY <1>1, <1>2, <1>6 DEF SubscribersInv, RulesHold, DevicesHaveAccount, DevicesOf
<1>8. RulesHold'
  BY <1>1, <1>7 DEF SubscribersInv, RulesHold, OneGateway, TagsInExistingVenues,
     AbsentNowhere, SignupsKnown
<1>9. NeverWaitsAgain
  BY <1>1 DEF SubscribersInv, RulesHold, SignupsKnown, NeverWaitsAgain
<1>10. ChecksHold(h)'
  BY <1>4 DEF ChecksHold
<1>11. QED
  BY <1>5, <1>8, <1>9, <1>10 DEF SubscribersInv

\* Rows of signups and devices are only taken away, and the handler ends or goes on.
LEMMA RowsDropped ==
    ASSUME NEW h, Threads = {h}, SubscribersInv(h),
           signups' \subseteq signups, devices' \subseteq devices,
           UNCHANGED <<account, everUsed, venues, tags>>
    PROVE  /\ RulesHold' /\ NeverWaitsAgain
           /\ (job' \in [Threads -> Jobs]) => SubscribersTypeOK'
<1>1. RulesHold'
  BY DEF SubscribersInv, RulesHold, OneGateway, DevicesHaveAccount, Accounts,
     TagsInExistingVenues, AbsentNowhere, SignupsKnown
<1>2. NeverWaitsAgain
  BY DEF SubscribersInv, RulesHold, SignupsKnown, NeverWaitsAgain
<1>3. (job' \in [Threads -> Jobs]) => SubscribersTypeOK'
  BY DEF SubscribersInv, SubscribersTypeOK
<1>4. QED
  BY <1>1, <1>2, <1>3

LEMMA DropsInv ==
    ASSUME NEW h, Threads = {h}, SubscribersInv(h),
           \/ DeleteSignup(h) \/ DropSignup(h) \/ DropDevices(h)
           \/ InventoryRecordFails(h) \/ DeleteDevice(h) \/ Fails(h)
    PROVE  SubscribersInv(h)' /\ NeverWaitsAgain
<1>1. /\ signups' \subseteq signups /\ devices' \subseteq devices
      /\ UNCHANGED <<account, everUsed, venues, tags>>
  BY DEF DeleteSignup, DropSignup, DropDevices, InventoryRecordFails, DeleteDevice, Fails,
     DeleteRecord, owsec
<1>2. SubscribersTypeOK
  BY DEF SubscribersInv
<1>3. job' \in [Threads -> Jobs] /\ ChecksHold(h)'
  <2>1. CASE Done(h)
    BY <1>2, <2>1, Ended
  <2>2. CASE DropSignup(h)
    <3>1. /\ job[h].step = "dropSignup" /\ job' = [job EXCEPT ![h].step = "dropDevices"]
          /\ job \in [Threads -> Jobs] /\ job[h] \in Jobs
      BY <1>2, <2>2 DEF DropSignup, SubscribersTypeOK
    <3>2. job[h] \in [step : UserSteps, user : UserIds]
      BY <3>1 DEF Jobs, Idle, SignupSteps, DeviceSteps
    <3>3. /\ [job[h] EXCEPT !.step = "dropDevices"] \in Jobs
          /\ [job[h] EXCEPT !.step = "dropDevices"].step = "dropDevices"
      BY <3>2 DEF Jobs, UserSteps
    <3>4. job' \in [Threads -> Jobs] /\ job'[h].step = "dropDevices"
      BY <3>1, <3>3
    <3>5. QED
      BY <3>4 DEF ChecksHold
  <2>3. CASE DeleteDevice(h)
    <3> DEFINE row == job[h].row
    <3>1. /\ job[h].step = "deleteDevice" /\ "deleteTag" \in DeviceSteps
          /\ job' = [job EXCEPT ![h] = [step |-> "deleteTag", row |-> row]]
      BY <2>3 DEF DeleteDevice, Then, DeviceSteps
    <3>2. row \in Device
      BY <1>2, <3>1, JobRow DEF DeviceSteps
    <3> HIDE DEF row
    <3>3. job' \in [Threads -> Jobs] /\ job'[h].step = "deleteTag"
      BY <1>2, <3>1, <3>2, GoesOn
    <3>4. QED
      BY <3>3 DEF ChecksHold
  <2>4. QED
    BY <2>1, <2>2, <2>3 DEF DeleteSignup, DropDevices, InventoryRecordFails, Fails
<1>4. QED
  BY <1>1, <1>3, RowsDropped DEF SubscribersInv

(***************************************************************************)
(* The steps of the subscriber device handler.                             *)
(***************************************************************************)
\* The device row that a handler checked is stored in place of the one it read.
LEMMA RowStored ==
    ASSUME NEW h, Threads = {h}, SubscribersInv(h), NEW row \in Device,
           row.user \in Accounts \union {NoId}, NoOtherGateway(row),
           \/ devices' = devices \union {row}
                /\ (row.user # NoId /\ row.group = "olg" =>
                      \A d \in devices : d.user = row.user => d.group # "olg")
           \/ devices' = UpdateRecord(devices, row),
           UNCHANGED <<account, everUsed, signups, venues, tags>>
    PROVE  /\ RulesHold' /\ NeverWaitsAgain
           /\ (job' \in [Threads -> Jobs]) => SubscribersTypeOK'
<1>1. \A d \in devices' : d = row \/ d \in devices
  BY DEF UpdateRecord
<1>2. DevicesHaveAccount'
  BY <1>1 DEF SubscribersInv, RulesHold, DevicesHaveAccount, Accounts
<1>3. OneGateway'
  <2>1. ASSUME NEW d \in devices', NEW e \in devices', d.user = e.user, d.user # NoId,
               d.group = "olg", e.group = "olg"
        PROVE  d = e
    <3>1. CASE devices' = UpdateRecord(devices, row)
      <4>1. \A x \in devices' : x = row \/ (x \in devices /\ x.id # row.id)
        BY <3>1 DEF UpdateRecord
      <4>2. QED
        BY <2>1, <4>1 DEF SubscribersInv, RulesHold, OneGateway, NoOtherGateway
    <3>2. CASE /\ devices' = devices \union {row}
               /\ (row.user # NoId /\ row.group = "olg" =>
                     \A x \in devices : x.user = row.user => x.group # "olg")
      BY <2>1, <3>2 DEF SubscribersInv, RulesHold, OneGateway
    <3>3. QED
      BY <3>1, <3>2
  <2>2. QED
    BY <2>1 DEF OneGateway
<1>4. RulesHold'
  BY <1>2, <1>3 DEF SubscribersInv, RulesHold, TagsInExistingVenues, AbsentNowhere,
     SignupsKnown
<1>5. NeverWaitsAgain
  BY DEF SubscribersInv, RulesHold, SignupsKnown, NeverWaitsAgain
<1>6. (job' \in [Threads -> Jobs]) => SubscribersTypeOK'
  BY <1>1 DEF SubscribersInv, SubscribersTypeOK
<1>7. QED
  BY <1>4, <1>5, <1>6

LEMMA CreateDeviceInv ==
    ASSUME NEW h, Threads = {h}, SubscribersInv(h), CreateSubscriberDeviceRecord(h)
    PROVE  SubscribersInv(h)' /\ NeverWaitsAgain
<1> DEFINE row == job[h].row
<1>1. /\ job[h].step = "createDevice" /\ devices' = devices \union {row}
      /\ job' = [job EXCEPT ![h] = [step |-> "createTag", row |-> row]]
      /\ UNCHANGED <<account, everUsed, signups, venues, tags>>
  BY DEF CreateSubscriberDeviceRecord, Then, owsec
<1>2. /\ row \in Device /\ row.user \in Accounts \union {NoId}
      /\ row.user # NoId /\ row.group = "olg" =>
           \A d \in devices : d.user = row.user => d.group # "olg"
      /\ NoOtherGateway(row)
  BY <1>1, JobRow DEF SubscribersInv, DeviceSteps, ChecksHold, NoOtherGateway
<1>3. "createTag" \in DeviceSteps /\ SubscribersTypeOK
  BY DEF DeviceSteps, SubscribersInv
<1> HIDE DEF row
<1>4. job' \in [Threads -> Jobs] /\ job'[h].step = "createTag"
  BY <1>1, <1>2, <1>3, GoesOn
<1>5. ChecksHold(h)'
  BY <1>4 DEF ChecksHold
<1>6. QED
  BY <1>1, <1>2, <1>4, <1>5, RowStored DEF SubscribersInv

LEMMA UpdateDeviceInv ==
    ASSUME NEW h, Threads = {h}, SubscribersInv(h), UpdateDevice(h)
    PROVE  SubscribersInv(h)' /\ NeverWaitsAgain
<1> DEFINE row == job[h].row
<1>1. /\ job[h].step \in {"updateDevice", "updateDeviceOnly"}
      /\ devices' = UpdateRecord(devices, row)
      /\ \/ job' = [job EXCEPT ![h] = [step |-> "updateTag", row |-> row]]
         \/ Done(h)
      /\ UNCHANGED <<account, everUsed, signups, venues, tags>>
  BY DEF UpdateDevice, Then, owsec
<1>2. row \in Device /\ row.user \in Accounts \union {NoId} /\ NoOtherGateway(row)
  BY <1>1, JobRow DEF SubscribersInv, DeviceSteps, ChecksHold
<1>3. "updateTag" \in DeviceSteps /\ SubscribersTypeOK
  BY DEF DeviceSteps, SubscribersInv
<1> HIDE DEF row
<1>4. job' \in [Threads -> Jobs] /\ ChecksHold(h)'
  <2>1. CASE Done(h)
    BY <1>3, <2>1, Ended
  <2>2. CASE job' = [job EXCEPT ![h] = [step |-> "updateTag", row |-> row]]
    <3>1. job' \in [Threads -> Jobs] /\ job'[h].step = "updateTag"
      BY <1>2, <1>3, <2>2, GoesOn
    <3>2. QED
      BY <3>1 DEF ChecksHold
  <2>3. QED
    BY <1>1, <2>1, <2>2
<1>5. QED
  BY <1>1, <1>2, <1>4, RowStored DEF SubscribersInv

LEMMA TagsInv ==
    ASSUME NEW h, Threads = {h}, SubscribersInv(h),
           CreateInventoryRecord(h) \/ DeleteInventoryForSubscriberDevice(h)
    PROVE  SubscribersInv(h)' /\ NeverWaitsAgain
<1> DEFINE row == job[h].row
<1>1. /\ job[h].step \in {"createTag", "updateTag", "deleteTag"} /\ Done(h)
      /\ UNCHANGED <<account, everUsed, signups, venues, devices>>
  BY DEF CreateInventoryRecord, DeleteInventoryForSubscriberDevice, owsec
<1>2. row \in Device /\ row.serial \in Serials /\ row.user \in Users
  BY <1>1, JobRow DEF SubscribersInv, DeviceSteps, Device
<1>3. /\ tags \in [Serials -> Tag]
      /\ \A s \in Serials : tags[s].venue \in {v.user : v \in venues} \union {NoId, Ordinary}
      /\ \A s \in Serials : ~tags[s].present => tags[s].venue = NoId
  BY DEF SubscribersInv, SubscribersTypeOK, RulesHold, TagsInExistingVenues, AbsentNowhere
<1>4. PICK t \in Tag : /\ tags' = [tags EXCEPT ![row.serial] = t]
                       /\ t.venue \in {v.user : v \in venues} \union {NoId, Ordinary}
                       /\ ~t.present => t.venue = NoId
  <2>1. CASE DeleteInventoryForSubscriberDevice(h)
    <3>1. /\ NoTag \in Tag /\ NoTag.venue = NoId
          /\ tags' = [tags EXCEPT ![row.serial] = NoTag]
      BY <2>1 DEF NoTag, Tag, Users, DeleteInventoryForSubscriberDevice
    <3> HIDE DEF row
    <3>2. QED
      BY <3>1
  <2>2. CASE CreateInventoryRecord(h)
    <3>1. PICK v \in ResolvedVenues(row.user) :
            tags' = [tags EXCEPT ![row.serial] =
                       [present |-> TRUE, user |-> row.user,
                        venue |-> IF v = NoId THEN tags[row.serial].venue ELSE v]]
      BY <2>2 DEF CreateInventoryRecord
    <3> DEFINE w == IF v = NoId THEN tags[row.serial].venue ELSE v
               t == [present |-> TRUE, user |-> row.user, venue |-> w]
    <3>2. v \in {x.user : x \in venues} \union {NoId, Ordinary}
      BY DEF ResolvedVenues
    <3>3. \A x \in venues : x.user \in UserIds
      BY DEF SubscribersInv, SubscribersTypeOK, Venue
    <3> HIDE DEF row
    <3>4. w \in {x.user : x \in venues} \union {NoId, Ordinary}
      BY <1>2, <1>3, <3>2
    <3>5. w \in Users \union {Ordinary}
      BY <3>3, <3>4 DEF Users
    <3> HIDE DEF w
    <3>6. t \in Tag /\ t.venue = w /\ t.present
      BY <1>2, <3>5 DEF Tag
    <3>7. tags' = [tags EXCEPT ![row.serial] = t]
      BY <3>1 DEF w
    <3> HIDE DEF t
    <3>8. QED
      BY <3>4, <3>6, <3>7
  <2>3. QED
    BY <2>1, <2>2
<1> HIDE DEF row
<1>5. job' \in [Threads -> Jobs] /\ ChecksHold(h)'
  BY <1>1, Ended DEF SubscribersInv
<1>6. SubscribersTypeOK'
  BY <1>1, <1>3, <1>4, <1>5 DEF SubscribersInv, SubscribersTypeOK
<1>7. TagsInExistingVenues' /\ AbsentNowhere'
  BY <1>1, <1>2, <1>3, <1>4 DEF TagsInExistingVenues, AbsentNowhere
<1>8. RulesHold'
  BY <1>1, <1>7 DEF SubscribersInv, RulesHold, OneGateway, DevicesHaveAccount, Accounts,
     SignupsKnown
<1>9. NeverWaitsAgain
  BY <1>1 DEF SubscribersInv, RulesHold, SignupsKnown, NeverWaitsAgain
<1>10. QED
  BY <1>5, <1>6, <1>8, <1>9 DEF SubscribersInv

LEMMA SubscribersNextInv ==
    ASSUME NEW h, Threads = {h}, SubscribersInv(h), [Next]_vars
    PROVE  SubscribersInv(h)' /\ [NeverWaitsAgain]_vars
<1>1. CASE UNCHANGED vars
  <2>1. UNCHANGED <<account, everUsed, signups, venues, devices, tags, job>>
    BY <1>1 DEF vars, owsec
  <2>2. SubscribersTypeOK' /\ RulesHold'
    BY <2>1, TablesSame DEF SubscribersInv, SubscribersTypeOK, owsec
  <2>3. ChecksHold(h)'
    BY <2>1 DEF SubscribersInv, ChecksHold, NewRow, WaitingRow, DevicesOf, VenueDevices,
       Accounts, NoOtherGateway
  <2>4. QED
    BY <1>1, <2>2, <2>3 DEF SubscribersInv
<1>2. CASE Request(h)
  <2>1. SubscribersInv(h)' /\ NeverWaitsAgain
    BY <1>2, SubscriberPostInv, SubscriberDeleteInv, EmailVerifiedInv, DevicePostInv,
       DevicePutInv, DeviceDeleteInv, RemoveSubscriberInv DEF Request
  <2>2. QED
    BY <2>1
<1>3. CASE Step(h)
  <2>1. SubscribersInv(h)' /\ NeverWaitsAgain
    BY <1>3, OwsecSignupInv, StoreSignupInv, EnsureVenueInv, DeleteVenueInv, OwsecDeleteInv,
       DropsInv, CreateDeviceInv, UpdateDeviceInv, TagsInv DEF Step
  <2>2. QED
    BY <2>1
<1>4. CASE Crash
  <2>1. /\ job' = [p \in Threads |-> Idle]
        /\ UNCHANGED <<owsec, signups, venues, devices, tags>>
    BY <1>4 DEF Crash
  <2>2. job' \in [Threads -> Jobs] /\ job'[h].step = "idle"
    BY <2>1 DEF Jobs, Idle
  <2>3. ChecksHold(h)'
    BY <2>2 DEF ChecksHold
  <2>4. SubscribersTypeOK' /\ RulesHold' /\ NeverWaitsAgain
    BY <2>1, <2>2, TablesSame DEF SubscribersInv
  <2>5. QED
    BY <2>3, <2>4 DEF SubscribersInv
<1>5. QED
  BY <1>1, <1>2, <1>3, <1>4 DEF Next

LEMMA SubscribersAlways ==
    ASSUME NEW h, Threads = {h}
    PROVE  Spec => []SubscribersInv(h)
<1>1. Init => SubscribersInv(h)
  BY SubscribersInitInv
<1>2. SubscribersInv(h) /\ [Next]_vars => SubscribersInv(h)'
  BY SubscribersNextInv
<1>3. QED
  BY <1>1, <1>2, PTL DEF Spec

(***************************************************************************)
(* ValidateDeviceGroup and ValidateDeviceGroupForUpdate leave a subscriber *)
(* at most one gateway, as long as one request is served at a time.        *)
(***************************************************************************)
THEOREM OneGatewayTheorem ==
    ASSUME NEW h, Threads = {h}
    PROVE  Spec => []OneGateway
<1>1. SubscribersInv(h) => OneGateway
  BY DEF SubscribersInv, RulesHold
<1>2. QED
  BY <1>1, SubscribersAlways, PTL

(***************************************************************************)
(* DELETE /subscriber takes an account away only when no device row names  *)
(* it, whatever failed or crashed between the venue and the account.       *)
(***************************************************************************)
THEOREM DevicesHaveAccountTheorem ==
    ASSUME NEW h, Threads = {h}
    PROVE  Spec => []DevicesHaveAccount
<1>1. SubscribersInv(h) => DevicesHaveAccount
  BY DEF SubscribersInv, RulesHold
<1>2. QED
  BY <1>1, SubscribersAlways, PTL

(***************************************************************************)
(* DELETE /subscriber takes no venue away that a tag is in, also a tag     *)
(* that removeSubscriber released.                                         *)
(***************************************************************************)
THEOREM TagsInExistingVenuesTheorem ==
    ASSUME NEW h, Threads = {h}
    PROVE  Spec => []TagsInExistingVenues
<1>1. SubscribersInv(h) => TagsInExistingVenues
  BY DEF SubscribersInv, RulesHold
<1>2. QED
  BY <1>1, SubscribersAlways, PTL

(***************************************************************************)
(* A verified signup never waits for its e-mail again: a resend writes     *)
(* back only a row that was still waiting.                                 *)
(***************************************************************************)
THEOREM VerifiedStaysVerifiedTheorem ==
    ASSUME NEW h, Threads = {h}
    PROVE  Spec => VerifiedStaysVerified
<1>1. SubscribersInv(h) /\ [Next]_vars => [NeverWaitsAgain]_vars
  BY SubscribersNextInv
<1>2. QED
  BY <1>1, SubscribersAlways, PTL DEF Spec, VerifiedStaysVerified

=============================================================================
