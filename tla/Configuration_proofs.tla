------------------------ MODULE Configuration_proofs -------------------------
(***************************************************************************)
(* What is made of the stored records: the rules of a device and the       *)
(* configuration pushed to it, for every hierarchy of places, and the      *)
(* serial numbers kept for searches.                                       *)
(***************************************************************************)
EXTENDS DeviceRules, APConfig, SerialNumberCache, SequenceTheorems, FiniteSetTheorems, TLAPS

-----------------------------------------------------------------------------
(* Lines.  The line of a place: itself, then the line of what is above it, *)
(* to which it does not belong.                                            *)
(***************************************************************************)
LEMMA LineIsLeast ==
    ASSUME NEW up, NEW p
    PROVE  /\ Line(up, p) \subseteq DOMAIN up
           /\ p \in DOMAIN up => p \in Line(up, p)
           /\ \A q \in Line(up, p) : up[q] \in DOMAIN up => up[q] \in Line(up, p)
           /\ \A S \in SUBSET DOMAIN up :
                 (p \in DOMAIN up => p \in S) /\ (\A x \in S : up[x] \in DOMAIN up => up[x] \in S)
                   => Line(up, p) \subseteq S
BY DEF Line

LEMMA LineOfNone ==
    ASSUME NEW up, NEW p, p \notin DOMAIN up
    PROVE  Line(up, p) = {}
<1>1. {} \in SUBSET DOMAIN up /\ \A x \in {} : up[x] \in DOMAIN up => up[x] \in {}
  OBVIOUS
<1>2. QED
  BY <1>1, LineIsLeast

LEMMA LineWithin ==
    ASSUME NEW up, NEW p, NEW q \in Line(up, p)
    PROVE  Line(up, q) \subseteq Line(up, p)
<1>1. Line(up, p) \in SUBSET DOMAIN up /\ \A x \in Line(up, p) : up[x] \in DOMAIN up => up[x] \in Line(up, p)
  BY LineIsLeast
<1>2. QED
  BY <1>1, LineIsLeast

LEMMA LineStep ==
    ASSUME NEW up, NEW p \in DOMAIN up
    PROVE  Line(up, p) = {p} \union Line(up, up[p])
<1> DEFINE above == Line(up, up[p])
<1>1. /\ above \subseteq DOMAIN up /\ (up[p] \in DOMAIN up => up[p] \in above)
      /\ \A x \in above : up[x] \in DOMAIN up => up[x] \in above
  BY LineIsLeast
<1>2. p \in Line(up, p) /\ (up[p] \in DOMAIN up => up[p] \in Line(up, p))
  BY LineIsLeast
<1> HIDE DEF above
<1>3. Line(up, p) \subseteq {p} \union above
  <2> DEFINE S == {p} \union above
  <2>1. S \in SUBSET DOMAIN up /\ p \in S /\ \A x \in S : up[x] \in DOMAIN up => up[x] \in S
    BY <1>1
  <2> HIDE DEF S
  <2>2. Line(up, p) \subseteq S
    BY <2>1, LineIsLeast
  <2>3. QED
    BY <2>2 DEF S
<1>4. above \subseteq Line(up, p)
  <2>1. CASE up[p] \in DOMAIN up
    BY <1>2, <2>1, LineWithin DEF above
  <2>2. CASE up[p] \notin DOMAIN up
    BY <2>2, LineOfNone DEF above
  <2>3. QED
    BY <2>1, <2>2
<1>5. QED
  BY <1>2, <1>3, <1>4 DEF above

\* No place is above itself.
LEMMA NotAboveItself ==
    ASSUME NEW up, NoneAboveItself(up), NEW p \in DOMAIN up
    PROVE  p \notin Line(up, up[p])
<1> SUFFICES ASSUME p \in Line(up, up[p]) PROVE FALSE
  OBVIOUS
<1> DEFINE S == {q \in DOMAIN up : p \in Line(up, q)}
<1>1. S \in SUBSET DOMAIN up /\ p \in S
  BY LineIsLeast
<1>2. PICK q \in S : up[q] \notin S
  BY <1>1 DEF NoneAboveItself
<1>3. p \in Line(up, up[q])
  BY <1>2, LineStep
<1>4. up[q] \in DOMAIN up
  BY <1>3, LineOfNone
<1>5. QED
  BY <1>2, <1>3, <1>4

-----------------------------------------------------------------------------
(* DeviceRules.  What is above a place.                                    *)
(***************************************************************************)
LEMMA AboveIsLeast ==
    /\ DOMAIN Upwards = RulePlaces
    /\ \A p : /\ Above(p) \subseteq RulePlaces
              /\ p \in RulePlaces => p \in Above(p)
              /\ p \notin RulePlaces => Above(p) = {}
              /\ \A q \in Above(p) : Upwards[q] \in Above(p) \union {NoOne}
<1>1. DOMAIN Upwards = RulePlaces
  BY DEF Upwards
<1>2. \A p \in RulePlaces : Upwards[p] \in RulePlaces \union {NoOne}
  BY DeviceRulesAssumption
<1>3. QED
  BY <1>1, <1>2, LineIsLeast, LineOfNone DEF Above

LEMMA AboveStep ==
    ASSUME NEW p \in RulePlaces
    PROVE  Above(p) = {p} \union Above(Upwards[p]) /\ p \notin Above(Upwards[p])
<1>1. p \in DOMAIN Upwards /\ NoneAboveItself(Upwards)
  BY DeviceRulesAssumption, AboveIsLeast
<1>2. QED
  BY <1>1, LineStep, NotAboveItself DEF Above

(***************************************************************************)
(* What the walk has come to.  A rule is settled by one it has read, and   *)
(* open as long as none of them sets it.                                   *)
(***************************************************************************)
RulesTypeOK ==
    /\ sets \in [RulePlaces \union {TheDevice} -> SUBSET Rules]
    /\ start \in RuleVenues \union {NoOne}
    /\ at \in RulePlaces \union {NoOne} /\ at # NoOne => at \in Above(start)
    /\ evaluated \in [Rules -> RulePlaces \union {TheDevice, TheService, Inherit}]
    /\ changed \subseteq RulePlaces \union {TheDevice}

\* x says what rule r is: it sets it, and nothing read before it does.
Settled(r, x) ==
    /\ x \notin changed \union {TheService} => r \in sets[x]
    /\ x # TheDevice => \A y \in ({TheDevice} \union (Above(start) \ Above(x))) \ changed : r \notin sets[y]

\* The places the walk has read.
Passed == Above(start) \ Above(at)

RulesInv ==
    /\ RulesTypeOK
    /\ at # NoOne \/ evaluated # Unevaluated =>
         /\ TheDevice \notin changed => start = IF placed \in RuleVenues THEN placed ELSE NoOne
         /\ \A r \in Rules :
              IF evaluated[r] = Inherit
              THEN at # NoOne /\ \A y \in ({TheDevice} \union Passed) \ changed : r \notin sets[y]
              ELSE /\ evaluated[r] \in {TheDevice} \union Passed
                        \union (IF at = NoOne THEN {TheService} ELSE {})
                   /\ Settled(r, evaluated[r])

\* The device is read.
LEMMA ReadDeviceInv ==
    ASSUME RulesInv, ReadDevice
    PROVE  RulesInv'
<1> DEFINE own == DeviceRulesOf(TheDevice)
           venue == IF placed \in RuleVenues THEN placed ELSE NoOne
<1>1. /\ sets' = sets /\ placed' = placed /\ start' = venue /\ at' = venue /\ changed' = {}
      /\ evaluated' = IF venue # NoOne THEN own ELSE ApplyConfigRules(own)
  BY DEF ReadDevice
<1>2. /\ venue \in RuleVenues \union {NoOne} /\ venue \in RulePlaces \union {NoOne}
      /\ venue # NoOne => venue \in Above(venue)
  BY DeviceRulesAssumption, AboveIsLeast
<1>3. own = [r \in Rules |-> IF r \in sets[TheDevice] THEN TheDevice ELSE Inherit]
  BY DEF DeviceRulesOf
<1>4. Passed' = {}
  BY <1>1 DEF Passed, Above, Line
<1> HIDE DEF own, venue
<1>5. \A r \in Rules : own[r] = IF r \in sets[TheDevice] THEN TheDevice ELSE Inherit
  BY <1>3
<1>6. evaluated' \in [Rules -> RulePlaces \union {TheDevice, TheService, Inherit}]
  BY <1>1, <1>3, <1>5 DEF ApplyConfigRules
<1>7. RulesTypeOK'
  <2>1. Above(start)' = Above(venue)
    BY <1>1 DEF Above, Line
  <2>2. QED
    BY <1>1, <1>2, <1>6, <2>1 DEF RulesInv, RulesTypeOK
<1>8. ASSUME NEW r \in Rules
      PROVE  (IF evaluated[r] = Inherit
              THEN at # NoOne /\ \A y \in ({TheDevice} \union Passed) \ changed : r \notin sets[y]
              ELSE /\ evaluated[r] \in {TheDevice} \union Passed
                        \union (IF at = NoOne THEN {TheService} ELSE {})
                   /\ Settled(r, evaluated[r]))'
  <2>1. CASE r \in sets[TheDevice]
    <3>1. evaluated'[r] = TheDevice /\ TheDevice # Inherit
      BY <1>1, <1>5, <2>1, DeviceRulesAssumption DEF ApplyConfigRules
    <3>2. QED
      BY <1>1, <2>1, <3>1 DEF Settled
  <2>2. CASE r \notin sets[TheDevice] /\ venue # NoOne
    <3>1. evaluated'[r] = Inherit
      BY <1>1, <1>5, <2>2
    <3>2. QED
      BY <1>1, <1>4, <2>2, <3>1
  <2>3. CASE r \notin sets[TheDevice] /\ venue = NoOne
    <3>1. evaluated'[r] = TheService /\ TheService # Inherit
      BY <1>1, <1>5, <2>3, DeviceRulesAssumption DEF ApplyConfigRules
    <3>2. Above(NoOne) = {}
      BY AboveIsLeast, DeviceRulesAssumption
    <3>3. Above(start)' = {}
      BY <1>1, <2>3, <3>2 DEF Above, Line
    <3>4. QED
      BY <1>1, <2>3, <3>1, <3>3 DEF Settled
  <2>4. QED
    BY <2>1, <2>2, <2>3
<1>9. QED
  BY <1>1, <1>7, <1>8 DEF RulesInv, venue

\* A place is read: what was open there is settled by it, or goes on to what is above.
LEMMA ReadPlaceInv ==
    ASSUME RulesInv, at \in RulePlaces, ApplyAndGoOn(Upwards[at])
    PROVE  RulesInv'
<1> DEFINE now == ApplyRules(DeviceRulesOf(at), evaluated)
           up == Upwards[at]
<1>1. /\ sets' = sets /\ placed' = placed /\ start' = start /\ changed' = changed
      /\ at' = IF Open(now) THEN up ELSE NoOne
      /\ evaluated' = IF Open(now) /\ up = NoOne THEN ApplyConfigRules(now) ELSE now
  BY DEF ApplyAndGoOn
<1>2. /\ RulesTypeOK /\ at # NoOne /\ at \in Above(start) /\ up \in RulePlaces \union {NoOne}
      /\ at \notin {NoOne, Inherit, TheDevice, TheService} /\ TheService # Inherit
  BY DeviceRulesAssumption DEF RulesInv, RulesTypeOK
<1>3. /\ TheDevice \notin changed => start = IF placed \in RuleVenues THEN placed ELSE NoOne
      /\ \A r \in Rules :
            IF evaluated[r] = Inherit
            THEN \A y \in ({TheDevice} \union Passed) \ changed : r \notin sets[y]
            ELSE evaluated[r] \in {TheDevice} \union Passed /\ Settled(r, evaluated[r])
  BY <1>2 DEF RulesInv
<1>4. \A r \in Rules : now[r] = IF evaluated[r] # Inherit THEN evaluated[r]
                                ELSE IF r \in sets[at] THEN at ELSE Inherit
  BY DEF ApplyRules, DeviceRulesOf
<1>5. now \in [Rules -> RulePlaces \union {TheDevice, TheService, Inherit}]
  BY <1>2 DEF RulesTypeOK, ApplyRules, DeviceRulesOf
<1>6. Open(now) <=> \E r \in Rules : now[r] = Inherit
  BY DEF Open
<1> HIDE DEF now
\* The places read with this one.
<1> DEFINE read == Above(start) \ Above(up)
<1>7. read = Passed \union {at}
  <2>1. Above(at) = {at} \union Above(up) /\ at \notin Above(up)
    BY AboveStep
  <2>2. QED
    BY <1>2, <2>1 DEF Passed
<1>8. /\ Above(start)' = Above(start)
      /\ \A r, x : Settled(r, x)' <=> Settled(r, x)
  BY <1>1 DEF Above, Line, Settled
<1>9. Passed' = Above(start) \ Above(at')
  BY <1>1 DEF Passed, Above, Line
<1>10. ASSUME NEW r \in Rules, now[r] # Inherit
       PROVE  now[r] \in {TheDevice} \union read /\ Settled(r, now[r])
  <2>1. CASE evaluated[r] # Inherit
    BY <1>3, <1>4, <1>7, <2>1
  <2>2. CASE evaluated[r] = Inherit
    <3>1. now[r] = at /\ r \in sets[at]
      BY <1>4, <1>10, <2>2
    <3>2. Settled(r, at)
      BY <1>3, <2>2, <3>1 DEF Settled, Passed
    <3>3. QED
      BY <1>7, <3>1, <3>2
  <2>3. QED
    BY <2>1, <2>2
<1>11. ASSUME NEW r \in Rules, now[r] = Inherit
       PROVE  \A y \in ({TheDevice} \union read) \ changed : r \notin sets[y]
  <2>1. evaluated[r] = Inherit /\ r \notin sets[at]
    BY <1>2, <1>4, <1>11
  <2>2. QED
    BY <1>3, <1>7, <2>1
<1>12. RulesTypeOK'
  <2>1. evaluated' \in [Rules -> RulePlaces \union {TheDevice, TheService, Inherit}]
    BY <1>1, <1>5 DEF ApplyConfigRules
  <2>2. at' \in RulePlaces \union {NoOne} /\ (at' # NoOne => at' \in Above(start))
    BY <1>1, <1>2, AboveIsLeast
  <2>3. QED
    BY <1>1, <1>2, <1>8, <2>1, <2>2 DEF RulesTypeOK
<1>13. CASE Open(now) /\ up # NoOne
  <2>1. at' = up /\ evaluated' = now /\ Passed' = read
    BY <1>1, <1>9, <1>13
  <2>2. QED
    BY <1>1, <1>3, <1>8, <1>10, <1>11, <1>12, <1>13, <2>1 DEF RulesInv
<1>14. CASE Open(now) /\ up = NoOne
  <2>1. at' = NoOne /\ Passed' = read /\ evaluated' = ApplyConfigRules(now)
    BY <1>1, <1>9, <1>14
  <2>2. \A r \in Rules : evaluated'[r] = IF now[r] = Inherit THEN TheService ELSE now[r]
    BY <2>1 DEF ApplyConfigRules
  <2>3. Above(NoOne) = {} /\ Above(TheService) = {}
    BY AboveIsLeast, DeviceRulesAssumption
  <2>4. \A r \in Rules : now[r] = Inherit => Settled(r, TheService)
    BY <1>11, <1>14, <2>3 DEF Settled
  <2>5. QED
    BY <1>1, <1>2, <1>3, <1>8, <1>10, <1>12, <2>1, <2>2, <2>4 DEF RulesInv
<1>15. CASE ~Open(now)
  <2>1. at' = NoOne /\ evaluated' = now
    BY <1>1, <1>15
  <2>2. Passed' = Above(start)
    <3>1. Above(NoOne) = {}
      BY AboveIsLeast, DeviceRulesAssumption
    <3>2. QED
      BY <1>9, <2>1, <3>1
  <2>3. read \subseteq Above(start)
    OBVIOUS
  <2>4. \A r \in Rules : now[r] # Inherit
    BY <1>6, <1>15
  <2>5. QED
    BY <1>1, <1>3, <1>8, <1>10, <1>12, <2>1, <2>2, <2>3, <2>4 DEF RulesInv
<1>16. QED
  BY <1>13, <1>14, <1>15

LEMMA RulesStepInv == RulesInv /\ [RulesNext]_rulesVars => RulesInv'
<1> SUFFICES ASSUME RulesInv, [RulesNext]_rulesVars PROVE RulesInv'
  OBVIOUS
<1>1. ASSUME ReadVenue PROVE RulesInv'
  <2>1. at \in RulePlaces
    BY <1>1, DeviceRulesAssumption DEF ReadVenue
  <2>2. Upwards[at] = IF RuleParentOf[at] # NoOne THEN RuleParentOf[at] ELSE RuleEntityOf[at]
    BY <1>1, <2>1 DEF ReadVenue, Upwards
  <2>3. ApplyAndGoOn(Upwards[at])
    BY <1>1, <2>2 DEF ReadVenue
  <2>4. QED
    BY <2>1, <2>3, ReadPlaceInv
<1>2. ASSUME ReadEntity PROVE RulesInv'
  <2>1. at \in RulePlaces
    BY <1>2 DEF ReadEntity
  <2>2. Upwards[at] = RuleParentOf[at]
    BY <1>2, <2>1 DEF ReadEntity, Upwards
  <2>3. ApplyAndGoOn(Upwards[at])
    BY <1>2, <2>2 DEF ReadEntity
  <2>4. QED
    BY <2>1, <2>3, ReadPlaceInv
\* A change takes what it changes out of what must hold.
<1>3. ASSUME NEW x \in RulePlaces \union {TheDevice}, changed' = changed \union {x},
             sets' \in [RulePlaces \union {TheDevice} -> SUBSET Rules],
             \A y \in (RulePlaces \union {TheDevice}) \ {x} : sets'[y] = sets[y],
             x # TheDevice => placed' = placed,
             UNCHANGED <<start, at, evaluated>>
      PROVE  RulesInv'
  <2>1. Above(start)' = Above(start) /\ Passed' = Passed
    BY <1>3 DEF Above, Line, Passed
  <2>2. Above(start) \subseteq RulePlaces /\ Passed \subseteq RulePlaces
    BY AboveIsLeast DEF Passed
  <2>3. RulesTypeOK'
    BY <1>3, <2>1 DEF RulesInv, RulesTypeOK
  <2>4. ASSUME NEW r \in Rules, NEW w \in RulePlaces \union {TheDevice, TheService}, Settled(r, w)
        PROVE  Settled(r, w)'
    <3>1. w \notin changed' \union {TheService} => r \in sets'[w]
      BY <1>3, <2>4 DEF Settled
    <3>2. w # TheDevice => \A y \in ({TheDevice} \union (Above(start) \ Above(w))) \ changed' : r \notin sets'[y]
      BY <1>3, <2>2, <2>4 DEF Settled
    <3>3. (Above(start) \ Above(w))' = Above(start) \ Above(w)
      BY <1>3 DEF Above, Line
    <3>4. QED
      BY <3>1, <3>2, <3>3 DEF Settled
  <2>5. ASSUME NEW r \in Rules, \A y \in ({TheDevice} \union Passed) \ changed : r \notin sets[y]
        PROVE  \A y \in ({TheDevice} \union Passed) \ changed' : r \notin sets'[y]
    BY <1>3, <2>2, <2>5
  <2>6. evaluated \in [Rules -> RulePlaces \union {TheDevice, TheService, Inherit}]
    BY DEF RulesInv, RulesTypeOK
  <2>7. Unevaluated' = Unevaluated
    BY DEF Unevaluated
  <2>8. QED
    BY <1>3, <2>1, <2>3, <2>4, <2>5, <2>6, <2>7 DEF RulesInv
<1>4. ASSUME NEW x \in DOMAIN sets, NEW rules \in SUBSET Rules, RulesPut(x, rules) PROVE RulesInv'
  BY <1>3, <1>4 DEF RulesPut, RulesInv, RulesTypeOK
<1>5. ASSUME NEW p \in RulePlaces \union {NoOne}, DeviceMoved(p) PROVE RulesInv'
  BY <1>3, <1>5 DEF DeviceMoved, RulesInv, RulesTypeOK
<1>6. CASE UNCHANGED rulesVars
  BY <1>6 DEF rulesVars, RulesInv, RulesTypeOK, Settled, Passed, Above, Line, Unevaluated
<1>7. QED
  BY <1>1, <1>2, <1>4, <1>5, <1>6, ReadDeviceInv DEF RulesNext

\* Each rule of a device is what the nearest says that does not leave it open, for every
\* hierarchy and every set of rules, whatever is changed while the places are read.
THEOREM NearestRuleAppliesTheorem == RulesSpec => []NearestRuleApplies
<1>1. RulesInit => RulesInv
  <2> SUFFICES ASSUME RulesInit PROVE RulesInv
    OBVIOUS
  <2>1. NoOne \notin RuleVenues
    BY DeviceRulesAssumption
  <2>2. QED
    BY <2>1 DEF RulesInit, RulesInv, RulesTypeOK, Unevaluated
<1>2. RulesInv => NearestRuleApplies
  <2> SUFFICES ASSUME RulesInv, at = NoOne, evaluated # Unevaluated
               PROVE  NearestRuleApplies
    BY DEF NearestRuleApplies
  <2>1. Passed \subseteq Above(start)
    BY DEF Passed
  <2>2. QED
    BY <2>1 DEF RulesInv, NearestRuleApplies, Settled
<1>3. QED
  BY <1>1, <1>2, RulesStepInv, PTL DEF RulesSpec

-----------------------------------------------------------------------------
(* APConfig.  The places the walk comes to.                                *)
(***************************************************************************)
LEMMA LineOfPlaces ==
    /\ DOMAIN NextPlace = Places
    /\ \A p : /\ Line(NextPlace, p) \subseteq Places
              /\ p \in Places => p \in Line(NextPlace, p)
              /\ p \notin Places => Line(NextPlace, p) = {}
    /\ \A p \in Places : /\ Line(NextPlace, p) = {p} \union Line(NextPlace, NextPlace[p])
                         /\ p \notin Line(NextPlace, NextPlace[p])
                         /\ NextPlace[p] \in Places \union {NoPlace}
<1>1. DOMAIN NextPlace = Places
  BY DEF NextPlace
<1>2. NoneAboveItself(NextPlace) /\ \A p \in Places : NextPlace[p] \in Places \union {NoPlace}
  BY APConfigAssumption
<1>3. \A p : Line(NextPlace, p) \subseteq Places /\ (p \in Places => p \in Line(NextPlace, p))
  BY <1>1, LineIsLeast
<1>4. \A p : p \notin Places => Line(NextPlace, p) = {}
  BY <1>1, LineOfNone
<1>5. \A p \in Places : Line(NextPlace, p) = {p} \union Line(NextPlace, NextPlace[p])
  BY <1>1, LineStep
<1>6. \A p \in Places : p \notin Line(NextPlace, NextPlace[p])
  BY <1>1, <1>2, NotAboveItself
<1>7. QED
  BY <1>1, <1>2, <1>3, <1>4, <1>5, <1>6

Positions == [place : Places \union {NoPlace}, at : Nat, i : Nat]

RecordsOK ==
    /\ stored \in [ConfigIds -> [exists : BOOLEAN, matches : BOOLEAN, elements : ElementLists]]
    /\ lists \in [Places -> Listings]
    /\ device \in [place : Places \union {NoPlace}, own : ConfigIds \union {NoPlace},
                   subscriber : BOOLEAN]

LEMMA ListsOK ==
    ASSUME RecordsOK
    PROVE  /\ Start \in Places \union {NoPlace}
           /\ \A p \in Places \union {NoPlace} : ListOf(p) \in Seq(ConfigIds)
           /\ \A c \in ConfigIds : /\ Len(ElementsOf(c)) \in Nat
                                   /\ DOMAIN ElementsOf(c) = 1 .. Len(ElementsOf(c))
                                   /\ \A i \in DOMAIN ElementsOf(c) : ElementsOf(c)[i].weight \in Nat
<1>1. Start \in Places \union {NoPlace}
  BY DEF Start, RecordsOK
<1>2. ASSUME NEW p \in Places \union {NoPlace} PROVE ListOf(p) \in Seq(ConfigIds)
  <2>1. CASE p \in Places
    BY <2>1, APConfigAssumption DEF ListOf, RecordsOK
  <2>2. CASE p = NoPlace
    BY <2>2, APConfigAssumption DEF ListOf, RecordsOK
  <2>3. QED
    BY <2>1, <2>2
<1>3. ASSUME NEW c \in ConfigIds
      PROVE  /\ Len(ElementsOf(c)) \in Nat
             /\ DOMAIN ElementsOf(c) = 1 .. Len(ElementsOf(c))
             /\ \A i \in DOMAIN ElementsOf(c) : ElementsOf(c)[i].weight \in Nat
  <2>1. CASE stored[c].exists /\ stored[c].matches
    <3>1. ElementsOf(c) = stored[c].elements /\ stored[c].elements \in ElementLists
      BY <2>1 DEF ElementsOf, RecordsOK
    <3>2. QED
      BY <3>1, APConfigAssumption
  <2>2. CASE ~(stored[c].exists /\ stored[c].matches)
    <3>1. ElementsOf(c) = <<>>
      BY <2>2 DEF ElementsOf
    <3>2. QED
      BY <3>1
  <2>3. QED
    BY <2>1, <2>2
<1>4. QED
  BY <1>1, <1>2, <1>3

LEMMA ApplyingIs ==
    ASSUME RecordsOK, NEW x
    PROVE  /\ x \in Applying <=>
                /\ x \in Positions
                /\ x.place \in {NoPlace} \union Line(NextPlace, Start)
                /\ x.at \in DOMAIN ListOf(x.place)
                /\ x.i \in DOMAIN ElementsOf(ListOf(x.place)[x.at])
           /\ x \in Applying => Element(x).weight \in Nat /\ x.at >= 1 /\ x.i >= 1
<1>1. x \in Applying <=> \E p \in {NoPlace} \union Line(NextPlace, Start) :
                         \E k \in DOMAIN ListOf(p) : \E i \in DOMAIN ElementsOf(ListOf(p)[k]) :
                            x = [place |-> p, at |-> k, i |-> i]
  BY DEF Applying
<1>2. ASSUME NEW p \in {NoPlace} \union Line(NextPlace, Start), NEW k \in DOMAIN ListOf(p),
             NEW i \in DOMAIN ElementsOf(ListOf(p)[k])
      PROVE  /\ p \in Places \union {NoPlace} /\ k \in Nat /\ i \in Nat /\ k >= 1 /\ i >= 1
             /\ ElementsOf(ListOf(p)[k])[i].weight \in Nat
  <2>1. p \in Places \union {NoPlace}
    BY LineOfPlaces
  <2>2. ListOf(p) \in Seq(ConfigIds)
    BY <2>1, ListsOK
  <2>3. k \in 1 .. Len(ListOf(p)) /\ Len(ListOf(p)) \in Nat /\ ListOf(p)[k] \in ConfigIds
    BY <2>2
  <2>4. QED
    BY <2>1, <2>3, ListsOK
<1>3. x \in Applying => x \in Positions /\ x.at >= 1 /\ x.i >= 1
  BY <1>1, <1>2 DEF Positions
<1>4. QED
  BY <1>1, <1>2, <1>3 DEF Element, Positions

LEMMA SameRecords ==
    ASSUME UNCHANGED records
    PROVE  /\ Start' = Start /\ Applying' = Applying
           /\ \A p : ListOf(p)' = ListOf(p)
           /\ \A c : ElementsOf(c)' = ElementsOf(c)
           /\ \A x : Element(x)' = Element(x)
           /\ \A x, y : Before(x, y)' <=> Before(x, y)
           /\ \A b : Throws(b)' <=> Throws(b)
           /\ RecordsOK' <=> RecordsOK
BY DEF records, Start, Applying, ListOf, ElementsOf, Element, Before, Nearer, Throws, RecordsOK,
       Line, NextPlace

\* What InsertAt puts where.
LEMMA InsertedAt ==
    ASSUME NEW S, NEW s \in Seq(S), NEW e \in S, NEW n \in 0 .. Len(s)
    PROVE  /\ InsertAt(s, n + 1, e) \in Seq(S)
           /\ Len(InsertAt(s, n + 1, e)) = Len(s) + 1
           /\ \A j \in 1 .. Len(s) + 1 :
                 InsertAt(s, n + 1, e)[j] = IF j <= n THEN s[j] ELSE IF j = n + 1 THEN e ELSE s[j - 1]
<1> DEFINE a == SubSeq(s, 1, n)
           b == SubSeq(s, n + 1, Len(s))
<1>1. Len(s) \in Nat /\ n \in Nat /\ n <= Len(s) /\ \A j \in 1 .. Len(s) : s[j] \in S
  OBVIOUS
<1>2. a \in Seq(S) /\ Len(a) = n /\ \A j \in 1 .. n : a[j] = s[j]
  BY <1>1, SubSeqProperties
<1>3. b \in Seq(S) /\ Len(b) = Len(s) - n /\ \A j \in 1 .. Len(s) - n : b[j] = s[n + j]
  BY <1>1, SubSeqProperties
<1>4. <<e>> \in Seq(S) /\ Len(<<e>>) = 1 /\ <<e>>[1] = e
  OBVIOUS
<1>5. InsertAt(s, n + 1, e) = (a \o <<e>>) \o b
  <2>1. (n + 1) - 1 = n
    BY <1>1
  <2>2. InsertAt(s, n + 1, e) = (SubSeq(s, 1, (n + 1) - 1) \o <<e>>) \o SubSeq(s, n + 1, Len(s))
    BY DEF InsertAt
  <2>3. QED
    BY <2>1, <2>2
<1> HIDE DEF a, b
<1>6. /\ a \o <<e>> \in Seq(S) /\ Len(a \o <<e>>) = n + 1
      /\ \A j \in 1 .. n + 1 : (a \o <<e>>)[j] = IF j <= n THEN s[j] ELSE e
  BY <1>1, <1>2, <1>4, ConcatProperties
<1> DEFINE c == a \o <<e>>
<1> HIDE DEF c
<1>7. c \in Seq(S) /\ Len(c) = n + 1 /\ \A j \in 1 .. n + 1 : c[j] = IF j <= n THEN s[j] ELSE e
  BY <1>6 DEF c
<1>8. /\ c \o b \in Seq(S) /\ Len(c \o b) = Len(c) + Len(b)
      /\ \A j \in 1 .. Len(c) + Len(b) : (c \o b)[j] = IF j <= Len(c) THEN c[j] ELSE b[j - Len(c)]
  BY <1>3, <1>7, ConcatProperties
<1>9. Len(c) + Len(b) = Len(s) + 1
  BY <1>1, <1>3, <1>7
<1>10. \A j \in 1 .. Len(s) + 1 :
          (c \o b)[j] = IF j <= n THEN s[j] ELSE IF j = n + 1 THEN e ELSE s[j - 1]
  <2> SUFFICES ASSUME NEW j \in 1 .. Len(s) + 1
               PROVE  (c \o b)[j] = IF j <= n THEN s[j] ELSE IF j = n + 1 THEN e ELSE s[j - 1]
    OBVIOUS
  <2>1. (c \o b)[j] = IF j <= n + 1 THEN c[j] ELSE b[j - (n + 1)]
    BY <1>7, <1>8, <1>9
  <2>2. j > n + 1 => b[j - (n + 1)] = s[j - 1]
    <3>1. ASSUME j > n + 1
          PROVE  j - (n + 1) \in 1 .. Len(s) - n /\ n + (j - (n + 1)) = j - 1
      BY <1>1, <3>1
    <3>2. QED
      BY <1>3, <3>1
  <2>3. j <= n + 1 => c[j] = IF j <= n THEN s[j] ELSE e
    BY <1>1, <1>7
  <2>4. QED
    BY <1>1, <2>1, <2>2, <2>3
<1>11. QED
  BY <1>5, <1>8, <1>9, <1>10 DEF c

(***************************************************************************)
(* The walk.  What it has met is nearer than where it is, and is what was  *)
(* collected.                                                              *)
(***************************************************************************)
Met(x) ==
    IF x.place = walk.place THEN x.at < walk.at \/ (x.at = walk.at /\ x.i < walk.i)
    ELSE walk.place # NoPlace /\ (x.place = NoPlace \/ x.place \notin Line(NextPlace, walk.place))

Has(x) == \E j \in DOMAIN Config_ : Config_[j] = x

\* Where the walk is: on the line of the device, and above what it has left.
WalkOK ==
    /\ walk \in Positions /\ walk.at >= 1 /\ walk.i >= 1
    /\ walk.place # NoPlace =>
          /\ walk.place \in Line(NextPlace, Start)
          /\ \A q \in Line(NextPlace, Start) \ Line(NextPlace, walk.place) :
                walk.place \in Line(NextPlace, q)

\* Config_ is in order.
Ordered == \A j, k \in DOMAIN Config_ : j < k => Before(Config_[j], Config_[k])

Named == {Sections[n] : n \in DOMAIN Sections}
Body(j) == Element(Config_[j]).body

\* Element j is the first to define s.
FirstAt(s, j) ==
    /\ j \in DOMAIN Config_ /\ s \in DOMAIN Body(j)
    /\ \A m \in DOMAIN Config_ : m < j => s \notin DOMAIN Body(m)

FirstScalar(s) == \E j \in DOMAIN Config_ : FirstAt(s, j) /\ Body(j)[s] = "scalar"

\* What is in the answer.
SectionsOK ==
    \A s \in DOMAIN sections :
        /\ s \in Named
        /\ \E j \in DOMAIN Config_ : /\ FirstAt(s, j) /\ sections[s] = Config_[j]
                                     /\ Body(j)[s] # "scalar" /\ ~Throws(Body(j)[s])

NamesOK ==
    /\ names = {s \in Named : \E j \in DOMAIN Config_ : j < expand /\ s \in DOMAIN Body(j)}
    /\ \A s \in names \ DOMAIN sections : FirstScalar(s)

AnswerOK ==
    \/ \E s \in Named : \E j \in DOMAIN Config_ : FirstAt(s, j) /\ Throws(Body(j)[s])
    \/ \A s \in Named \ DOMAIN sections :
          (\E j \in DOMAIN Config_ : s \in DOMAIN Body(j)) => FirstScalar(s)

AssemblyInv ==
    /\ RecordsOK
    /\ phase \in {"new", "collect", "expand", "answered"}
    /\ Config_ \in Seq(Applying) /\ Ordered
    /\ expand \in Nat /\ expand >= 1
    /\ phase \in {"new", "collect"} => expand = 1 /\ names = {} /\ sections = <<>>
    /\ phase = "new" => Config_ = <<>>
    /\ phase = "collect" => WalkOK /\ \A x \in Applying : Has(x) <=> Met(x)
    /\ phase \in {"expand", "answered"} => SectionsOK /\ \A x \in Applying : Has(x)
    /\ phase = "expand" => NamesOK
    /\ phase = "answered" => AnswerOK

\* What is collected does not change when nothing is added.
LEMMA SameCollected ==
    ASSUME UNCHANGED <<records, Config_>>
    PROVE  /\ Config_' = Config_ /\ Applying' = Applying /\ (RecordsOK' <=> RecordsOK)
           /\ Ordered' <=> Ordered
           /\ \A x : Has(x)' <=> Has(x)
           /\ \A j : Body(j)' = Body(j)
           /\ \A s, j : FirstAt(s, j)' <=> FirstAt(s, j)
           /\ \A s : FirstScalar(s)' <=> FirstScalar(s)
           /\ \A b : Throws(b)' <=> Throws(b)
           /\ Named' = Named
<1>1. /\ Config_' = Config_ /\ Applying' = Applying /\ (RecordsOK' <=> RecordsOK)
      /\ \A x : Element(x)' = Element(x)
      /\ \A x, y : Before(x, y)' <=> Before(x, y)
      /\ \A b : Throws(b)' <=> Throws(b)
  BY SameRecords
<1>2. (Ordered' <=> Ordered) /\ (\A x : Has(x)' <=> Has(x)) /\ Named' = Named
  BY <1>1 DEF Ordered, Has, Named
<1>3. \A j : Body(j)' = Body(j)
  BY <1>1 DEF Body
<1>4. \A s, j : FirstAt(s, j)' <=> FirstAt(s, j)
  BY <1>1, <1>3 DEF FirstAt
<1>5. \A s : FirstScalar(s)' <=> FirstScalar(s)
  BY <1>1, <1>3, <1>4 DEF FirstScalar
<1>6. QED
  BY <1>1, <1>2, <1>3, <1>4, <1>5

LEMMA MetIsNearer ==
    ASSUME RecordsOK, WalkOK, NEW x \in Applying, Met(x)
    PROVE  Nearer(x, walk)
<1>1. x.place \in {NoPlace} \union Line(NextPlace, Start)
  BY ApplyingIs
<1>2. QED
  BY <1>1 DEF Met, WalkOK, Nearer

LEMMA GetInv ==
    ASSUME AssemblyInv, Get
    PROVE  AssemblyInv'
<1>1. /\ UNCHANGED <<records, Config_>> /\ phase' = IF Config_ = <<>> THEN "collect" ELSE "expand"
      /\ walk' = [place |-> NoPlace, at |-> 1, i |-> 1]
      /\ expand' = 1 /\ names' = {} /\ sections' = <<>>
      /\ phase \in {"new", "answered"}
  BY DEF Get
<1>2. /\ RecordsOK' /\ Config_' \in Seq(Applying') /\ Ordered'
  BY <1>1, SameCollected DEF AssemblyInv
<1>3. CASE Config_ = <<>>
  <2>1. WalkOK'
    BY <1>1 DEF WalkOK, Positions
  <2>2. ASSUME NEW x \in Applying' PROVE ~Has(x)' /\ ~Met(x)'
    <3>1. ~Has(x)'
      BY <1>1, <1>3 DEF Has
    <3>2. x \in Positions /\ x.at >= 1 /\ x.i >= 1
      BY <1>1, SameCollected, ApplyingIs DEF AssemblyInv
    <3>3. ~Met(x)'
      BY <1>1, <3>2 DEF Met, Positions
    <3>4. QED
      BY <3>1, <3>3
  <2>3. QED
    BY <1>1, <1>2, <1>3, <2>1, <2>2 DEF AssemblyInv
<1>4. CASE Config_ # <<>>
  <2>1. phase = "answered" /\ \A x \in Applying : Has(x)
    BY <1>1, <1>4 DEF AssemblyInv
  <2>2. \A x \in Applying' : Has(x)'
    BY <1>1, <2>1, SameCollected
  <2>3. SectionsOK'
    BY <1>1 DEF SectionsOK
  <2>4. NamesOK'
    <3>1. DOMAIN Config_ \subseteq Nat \ {0}
      BY DEF AssemblyInv
    <3>2. QED
      BY <1>1, <3>1 DEF NamesOK
  <2>5. QED
    BY <1>1, <1>2, <1>4, <2>2, <2>3, <2>4 DEF AssemblyInv
<1>5. QED
  BY <1>3, <1>4

\* An element is added: it is the one the walk has come to.
LEMMA AddElementInv ==
    ASSUME AssemblyInv, AddElement
    PROVE  AssemblyInv'
<1> DEFINE S == Applying
<1>1. PICK n \in 0 .. Len(Config_) : GoesAfter(n, walk) /\ Config_' = InsertAt(Config_, n + 1, walk)
  BY DEF AddElement
<1>2. /\ UNCHANGED <<records, phase, expand, names, sections>> /\ phase = "collect" /\ InConfiguration
      /\ walk' = [walk EXCEPT !.i = @ + 1]
  BY DEF AddElement
<1>3. /\ RecordsOK /\ WalkOK /\ Config_ \in Seq(S) /\ Ordered /\ \A x \in S : Has(x) <=> Met(x)
  BY <1>2 DEF AssemblyInv
<1>4. walk \in S /\ walk \in Positions
  <2>1. walk \in Positions /\ walk.place \in {NoPlace} \union Line(NextPlace, Start)
    BY <1>3 DEF WalkOK
  <2>2. QED
    BY <1>2, <1>3, <2>1, ApplyingIs DEF InConfiguration, InList
<1>5. /\ RecordsOK' /\ Applying' = S /\ Start' = Start
      /\ \A x, y : Before(x, y)' <=> Before(x, y)
  BY <1>2, <1>3, SameRecords
<1> HIDE DEF S
<1>6. /\ Config_' \in Seq(S) /\ Len(Config_') = Len(Config_) + 1
      /\ \A j \in 1 .. Len(Config_) + 1 :
            Config_'[j] = IF j <= n THEN Config_[j] ELSE IF j = n + 1 THEN walk ELSE Config_[j - 1]
  <2> DEFINE new == InsertAt(Config_, n + 1, walk)
  <2>1. Config_ \in Seq(S) /\ walk \in S /\ n \in 0 .. Len(Config_)
    BY <1>3, <1>4
  <2>2. /\ new \in Seq(S) /\ Len(new) = Len(Config_) + 1
        /\ \A j \in 1 .. Len(Config_) + 1 :
              new[j] = IF j <= n THEN Config_[j] ELSE IF j = n + 1 THEN walk ELSE Config_[j - 1]
    BY <2>1, InsertedAt
  <2>3. QED
    BY <1>1, <2>2
<1>7. Len(Config_) \in Nat /\ DOMAIN Config_ = 1 .. Len(Config_) /\ DOMAIN Config_' = 1 .. Len(Config_) + 1
  BY <1>3, <1>6
<1>8. \A x \in S : Element(x).weight \in Nat
  BY <1>3, ApplyingIs DEF S
<1>9. \A j \in DOMAIN Config_ : Config_[j] \in S /\ Nearer(Config_[j], walk)
  <2> SUFFICES ASSUME NEW j \in DOMAIN Config_ PROVE Config_[j] \in S /\ Nearer(Config_[j], walk)
    OBVIOUS
  <2>1. Config_[j] \in S
    BY <1>3
  <2>2. Met(Config_[j])
    BY <1>3, <2>1 DEF Has
  <2>3. QED
    BY <1>3, <2>1, <2>2, MetIsNearer DEF S
<1>10. \A j \in DOMAIN Config_ : IF j <= n THEN Before(Config_[j], walk) ELSE Before(walk, Config_[j])
  <2> SUFFICES ASSUME NEW j \in DOMAIN Config_
               PROVE  IF j <= n THEN Before(Config_[j], walk) ELSE Before(walk, Config_[j])
    OBVIOUS
  <2>1. Element(Config_[j]).weight \in Nat /\ Element(walk).weight \in Nat
    BY <1>4, <1>8, <1>9
  <2>2. j <= n <=> Element(Config_[j]).weight >= Element(walk).weight
    BY <1>1 DEF GoesAfter
  <2>3. QED
    BY <1>9, <2>1, <2>2 DEF Before
<1>11. Ordered'
  <2> SUFFICES ASSUME NEW j \in 1 .. Len(Config_) + 1, NEW k \in 1 .. Len(Config_) + 1, j < k
               PROVE  Before(Config_'[j], Config_'[k])
    BY <1>5, <1>7 DEF Ordered
  <2>1. n \in Nat /\ n <= Len(Config_)
    BY <1>1, <1>7
  <2> DEFINE Old(m) == IF m <= n THEN m ELSE m - 1
  <2>2. \A m \in 1 .. Len(Config_) + 1 : m # n + 1 =>
            Old(m) \in DOMAIN Config_ /\ Config_'[m] = Config_[Old(m)]
    BY <1>6, <1>7, <2>1
  <2>3. Config_'[n + 1] = walk
    BY <1>6, <1>7, <2>1
  <2>4. CASE j = n + 1
    <3>1. Old(k) \in DOMAIN Config_ /\ Config_'[k] = Config_[Old(k)] /\ ~(Old(k) <= n)
      BY <1>7, <2>1, <2>2, <2>4
    <3>2. QED
      BY <1>10, <2>3, <2>4, <3>1
  <2>5. CASE k = n + 1
    <3>1. Old(j) \in DOMAIN Config_ /\ Config_'[j] = Config_[Old(j)] /\ Old(j) <= n
      BY <1>7, <2>1, <2>2, <2>5
    <3>2. QED
      BY <1>10, <2>3, <2>5, <3>1
  <2>6. CASE j # n + 1 /\ k # n + 1
    <3>1. /\ Old(j) \in DOMAIN Config_ /\ Config_'[j] = Config_[Old(j)]
          /\ Old(k) \in DOMAIN Config_ /\ Config_'[k] = Config_[Old(k)]
          /\ Old(j) < Old(k)
      BY <1>7, <2>1, <2>2, <2>6
    <3>2. QED
      BY <1>3, <3>1 DEF Ordered
  <2>7. QED
    BY <2>4, <2>5, <2>6
<1>12. \A x : Has(x)' <=> Has(x) \/ x = walk
  <2> SUFFICES ASSUME NEW x PROVE Has(x)' <=> Has(x) \/ x = walk
    OBVIOUS
  <2>1. n \in Nat /\ n <= Len(Config_)
    BY <1>1, <1>7
  <2>2. Has(x)' => Has(x) \/ x = walk
    <3> SUFFICES ASSUME NEW j \in 1 .. Len(Config_) + 1, Config_'[j] = x, x # walk PROVE Has(x)
      BY <1>7 DEF Has
    <3>1. j # n + 1
      BY <1>6, <1>7, <2>1
    <3>2. CASE j <= n
      BY <1>6, <1>7, <2>1, <3>2 DEF Has
    <3>3. CASE ~(j <= n)
      <4>1. j - 1 \in DOMAIN Config_ /\ Config_[j - 1] = x
        BY <1>6, <1>7, <2>1, <3>1, <3>3
      <4>2. QED
        BY <4>1 DEF Has
    <3>4. QED
      BY <3>2, <3>3
  <2>3. Has(x) => Has(x)'
    <3> SUFFICES ASSUME NEW j \in DOMAIN Config_, Config_[j] = x PROVE Has(x)'
      BY DEF Has
    <3>1. CASE j <= n
      <4>1. j \in 1 .. Len(Config_) + 1 /\ Config_'[j] = Config_[j]
        BY <1>6, <1>7, <2>1, <3>1
      <4>2. QED
        BY <1>7, <4>1 DEF Has
    <3>2. CASE ~(j <= n)
      <4>1. j + 1 \in 1 .. Len(Config_) + 1 /\ Config_'[j + 1] = Config_[(j + 1) - 1]
        BY <1>6, <1>7, <2>1, <3>2
      <4>2. (j + 1) - 1 = j
        BY <1>7
      <4>3. QED
        BY <1>7, <4>1, <4>2 DEF Has
    <3>3. QED
      BY <3>1, <3>2
  <2>4. x = walk => Has(x)'
    <3>1. n + 1 \in 1 .. Len(Config_) + 1 /\ Config_'[n + 1] = walk
      BY <1>6, <1>7, <2>1
    <3>2. QED
      BY <1>7, <3>1 DEF Has
  <2>5. QED
    BY <2>2, <2>3, <2>4
<1>13. walk' \in Positions /\ walk'.place = walk.place /\ walk'.at = walk.at /\ walk'.i = walk.i + 1
  BY <1>2, <1>4 DEF Positions
<1>14. \A x \in S : Met(x)' <=> Met(x) \/ x = walk
  <2> SUFFICES ASSUME NEW x \in S PROVE Met(x)' <=> Met(x) \/ x = walk
    OBVIOUS
  <2>1. x \in Positions
    BY <1>3, ApplyingIs DEF S
  <2>2. x = walk <=> x.place = walk.place /\ x.at = walk.at /\ x.i = walk.i
    BY <1>4, <2>1 DEF Positions
  <2>3. x.i \in Nat /\ walk.i \in Nat /\ x.at \in Nat /\ walk.at \in Nat
    BY <1>4, <2>1 DEF Positions
  <2>4. Line(NextPlace, walk'.place) = Line(NextPlace, walk.place)
    BY <1>13
  <2>5. Met(x)' <=> IF x.place = walk.place THEN x.at < walk.at \/ (x.at = walk.at /\ x.i < walk.i + 1)
                    ELSE walk.place # NoPlace /\ (x.place = NoPlace \/ x.place \notin Line(NextPlace, walk.place))
    BY <1>13 DEF Met, Line, NextPlace
  <2>6. QED
    BY <2>2, <2>3, <2>5 DEF Met
<1>15. WalkOK'
  <2>1. walk'.at >= 1 /\ walk'.i >= 1
    BY <1>3, <1>4, <1>13 DEF WalkOK, Positions
  <2>2. Line(NextPlace, Start)' = Line(NextPlace, Start)
    BY <1>5 DEF Line, NextPlace
  <2>3. QED
    BY <1>3, <1>13, <2>1, <2>2, <1>5 DEF WalkOK, Line, NextPlace, Positions
<1>16. QED
  BY <1>2, <1>3, <1>5, <1>6, <1>11, <1>12, <1>14, <1>15 DEF AssemblyInv

LEMMA NextConfigurationInv ==
    ASSUME AssemblyInv, NextConfiguration
    PROVE  AssemblyInv'
<1>1. /\ UNCHANGED <<records, Config_>> /\ UNCHANGED <<phase, expand, names, sections>>
      /\ phase = "collect" /\ InList /\ ~InConfiguration
      /\ walk' = [walk EXCEPT !.at = @ + 1, !.i = 1]
  BY DEF NextConfiguration
<1>2. RecordsOK /\ WalkOK /\ walk \in Positions /\ \A x \in Applying : Has(x) <=> Met(x)
  BY <1>1 DEF AssemblyInv, WalkOK
<1>3. walk' \in Positions /\ walk'.place = walk.place /\ walk'.at = walk.at + 1 /\ walk'.i = 1
  <2>1. walk = [place |-> walk.place, at |-> walk.at, i |-> walk.i] /\ walk.at \in Nat
        /\ walk.place \in Places \union {NoPlace}
    BY <1>2 DEF Positions
  <2>2. walk' = [place |-> walk.place, at |-> walk.at + 1, i |-> 1]
    BY <1>1, <2>1
  <2>3. QED
    BY <2>1, <2>2 DEF Positions
<1>4. RecordsOK' /\ Config_' \in Seq(Applying') /\ Ordered' /\ Applying' = Applying /\ Start' = Start
  BY <1>1, SameCollected, SameRecords DEF AssemblyInv
<1>5. ASSUME NEW x \in Applying PROVE Met(x)' <=> Met(x)
  <2>1. /\ x \in Positions /\ x.at >= 1 /\ x.i >= 1
        /\ x.at \in DOMAIN ListOf(x.place) /\ x.i \in DOMAIN ElementsOf(ListOf(x.place)[x.at])
    BY <1>2, ApplyingIs
  <2>2. x.i \in Nat /\ walk.i \in Nat /\ x.at \in Nat /\ walk.at \in Nat /\ walk.i >= 1
    BY <1>2, <2>1 DEF Positions, WalkOK
  <2>3. Met(x)' <=> IF x.place = walk.place THEN x.at < walk.at + 1 \/ (x.at = walk.at + 1 /\ x.i < 1)
                    ELSE walk.place # NoPlace /\ (x.place = NoPlace \/ x.place \notin Line(NextPlace, walk.place))
    BY <1>3 DEF Met, Line, NextPlace
  <2>4. x.place = walk.place /\ x.at = walk.at => x.i < walk.i
    <3> SUFFICES ASSUME x.place = walk.place, x.at = walk.at PROVE x.i < walk.i
      OBVIOUS
    <3> DEFINE c == ListOf(walk.place)[walk.at]
    <3>1. c \in ConfigIds
      BY <1>1, <1>2, ListsOK DEF InList, Positions
    <3>2. Len(ElementsOf(c)) \in Nat /\ DOMAIN ElementsOf(c) = 1 .. Len(ElementsOf(c))
      BY <1>2, <3>1, ListsOK
    <3>3. x.i \in DOMAIN ElementsOf(c) /\ walk.i \notin DOMAIN ElementsOf(c)
      BY <1>1, <2>1 DEF InConfiguration
    <3>4. QED
      BY <2>2, <3>2, <3>3
  <2>5. QED
    BY <2>1, <2>2, <2>3, <2>4 DEF Met
<1>6. WalkOK'
  <2>1. walk'.at >= 1 /\ walk'.i >= 1
    BY <1>2, <1>3 DEF WalkOK, Positions
  <2>2. QED
    BY <1>2, <1>3, <1>4, <2>1 DEF WalkOK, Line, NextPlace, Positions
<1>7. QED
  BY <1>1, <1>2, <1>4, <1>5, <1>6, SameCollected DEF AssemblyInv

\* The list has been gone through: everything at the place is met.
LEMMA ListDone ==
    ASSUME RecordsOK, WalkOK, ~InList, NEW x \in Applying, x.place = walk.place
    PROVE  Met(x)
<1>1. walk \in Positions /\ walk.at \in Nat /\ walk.at >= 1 /\ walk.place \in Places \union {NoPlace}
  BY DEF WalkOK, Positions
<1>2. ListOf(walk.place) \in Seq(ConfigIds)
  BY <1>1, ListsOK
<1>3. x \in Positions /\ x.at \in DOMAIN ListOf(walk.place) /\ x.at \in Nat
  BY ApplyingIs DEF Positions
<1>4. walk.at \notin DOMAIN ListOf(walk.place)
  BY DEF InList
<1>5. x.at < walk.at
  BY <1>1, <1>2, <1>3, <1>4
<1>6. QED
  BY <1>5 DEF Met

LEMMA GoUpInv ==
    ASSUME AssemblyInv, GoUp
    PROVE  AssemblyInv'
<1> DEFINE up == PlaceAfter(walk.place)
<1>1. /\ UNCHANGED <<records, Config_>> /\ UNCHANGED <<phase, expand, names, sections>>
      /\ phase = "collect" /\ ~InList /\ up # NoPlace
      /\ walk' = [place |-> up, at |-> 1, i |-> 1]
  BY DEF GoUp
<1>2. RecordsOK /\ WalkOK /\ walk \in Positions /\ \A x \in Applying : Has(x) <=> Met(x)
  BY <1>1 DEF AssemblyInv, WalkOK
<1>3. RecordsOK' /\ Config_' \in Seq(Applying') /\ Ordered' /\ Applying' = Applying /\ Start' = Start
  BY <1>1, SameCollected, SameRecords DEF AssemblyInv
<1>4. up = IF walk.place = NoPlace THEN Start ELSE NextPlace[walk.place]
  BY DEF PlaceAfter
<1>5. walk.place # NoPlace =>
         /\ walk.place \in Places /\ walk.place \in Line(NextPlace, Start)
         /\ \A q \in Line(NextPlace, Start) \ Line(NextPlace, walk.place) : walk.place \in Line(NextPlace, q)
  BY <1>2 DEF WalkOK, Positions
<1> HIDE DEF up
<1>6. up \in Places
  <2>1. Start \in Places \union {NoPlace}
    BY <1>2, ListsOK
  <2>2. QED
    BY <1>1, <1>4, <1>5, <2>1, LineOfPlaces
<1>7. up \in Line(NextPlace, Start)
  <2>1. CASE walk.place = NoPlace
    BY <1>4, <1>6, <2>1, LineOfPlaces
  <2>2. CASE walk.place # NoPlace
    <3>1. NextPlace[walk.place] \in DOMAIN NextPlace
      BY <1>4, <1>6, <2>2, LineOfPlaces
    <3>2. QED
      BY <1>4, <1>5, <2>2, <3>1, LineIsLeast
  <2>3. QED
    BY <2>1, <2>2
<1>8. ASSUME NEW q \in Line(NextPlace, Start) \ Line(NextPlace, up) PROVE up \in Line(NextPlace, q)
  <2>1. walk.place # NoPlace
    BY <1>4, <1>8
  <2>2. Line(NextPlace, walk.place) = {walk.place} \union Line(NextPlace, up)
    BY <1>4, <1>5, <2>1, LineOfPlaces
  <2>3. walk.place \in Line(NextPlace, q)
    <3>1. q \in Places
      BY LineOfPlaces
    <3>2. CASE q = walk.place
      BY <3>1, <3>2, LineOfPlaces
    <3>3. CASE q # walk.place
      BY <1>5, <1>8, <2>1, <2>2, <3>3
    <3>4. QED
      BY <3>2, <3>3
  <2>4. NextPlace[walk.place] \in DOMAIN NextPlace
    BY <1>4, <1>6, <2>1, LineOfPlaces
  <2>5. QED
    BY <1>4, <2>1, <2>3, <2>4, LineIsLeast
<1>9. WalkOK'
  <2>1. Line(NextPlace, Start)' = Line(NextPlace, Start) /\ walk'.place = up /\ walk'.at = 1 /\ walk'.i = 1
    BY <1>1, <1>3 DEF Line, NextPlace
  <2>2. Line(NextPlace, walk.place)' = Line(NextPlace, up) /\ \A q : Line(NextPlace, q)' = Line(NextPlace, q)
    BY <2>1 DEF Line, NextPlace
  <2>3. walk' \in Positions
    BY <1>1, <1>6 DEF Positions
  <2>4. QED
    BY <1>7, <1>8, <2>1, <2>2, <2>3 DEF WalkOK, Positions
<1>10. ASSUME NEW x \in Applying PROVE Met(x)' <=> Met(x)
  <2>1. /\ x \in Positions /\ x.at \in Nat /\ x.i \in Nat /\ x.at >= 1 /\ x.i >= 1
        /\ x.place \in {NoPlace} \union Line(NextPlace, Start)
    BY <1>2, ApplyingIs DEF Positions
  <2>2. Met(x)' <=> x.place # up /\ (x.place = NoPlace \/ x.place \notin Line(NextPlace, up))
    BY <1>1, <2>1 DEF Met, Line, NextPlace
  <2>3. x.place = walk.place => Met(x)
    BY <1>1, <1>2, ListDone
  <2>4. up \in Line(NextPlace, up) /\ NoPlace \notin Line(NextPlace, up)
    BY <1>6, LineOfPlaces, APConfigAssumption
  <2>5. CASE walk.place = NoPlace
    BY <1>1, <1>4, <2>1, <2>2, <2>3, <2>5 DEF Met
  <2>6. CASE walk.place # NoPlace
    <3>1. /\ Line(NextPlace, walk.place) = {walk.place} \union Line(NextPlace, up)
          /\ walk.place \notin Line(NextPlace, up)
      BY <1>4, <1>5, <2>6, LineOfPlaces
    <3>2. QED
      BY <1>1, <2>1, <2>2, <2>3, <2>4, <2>6, <3>1 DEF Met
  <2>7. QED
    BY <2>5, <2>6
<1>11. QED
  BY <1>1, <1>2, <1>3, <1>9, <1>10, SameCollected DEF AssemblyInv

\* The walk has ended: everything that applies was met.
LEMMA CollectedInv ==
    ASSUME AssemblyInv, Collected
    PROVE  AssemblyInv'
<1>1. /\ UNCHANGED <<records, Config_>> /\ UNCHANGED <<expand, names, sections>>
      /\ phase = "collect" /\ phase' = "expand" /\ ~InList /\ PlaceAfter(walk.place) = NoPlace
  BY DEF Collected
<1>2. /\ RecordsOK /\ WalkOK /\ walk \in Positions /\ \A x \in Applying : Has(x) <=> Met(x)
      /\ expand = 1 /\ names = {} /\ sections = <<>>
  BY <1>1 DEF AssemblyInv, WalkOK
<1>3. ASSUME NEW x \in Applying PROVE Met(x)
  <2>1. x.place \in {NoPlace} \union Line(NextPlace, Start)
    BY <1>2, ApplyingIs
  <2>2. x.place = walk.place => Met(x)
    BY <1>1, <1>2, ListDone
  <2>3. CASE walk.place = NoPlace
    <3>1. Start = NoPlace /\ NoPlace \notin Places
      BY <1>1, <2>3, APConfigAssumption DEF PlaceAfter
    <3>2. Line(NextPlace, Start) = {}
      BY <3>1, LineOfPlaces
    <3>3. QED
      BY <2>1, <2>2, <2>3, <3>2
  <2>4. CASE walk.place # NoPlace
    <3>1. walk.place \in Places /\ NextPlace[walk.place] = NoPlace /\ NoPlace \notin Places
      BY <1>1, <1>2, <2>4, APConfigAssumption DEF PlaceAfter, Positions
    <3>2. Line(NextPlace, walk.place) = {walk.place}
      BY <3>1, LineOfPlaces
    <3>3. QED
      BY <2>1, <2>2, <2>4, <3>2 DEF Met
  <2>5. QED
    BY <2>3, <2>4
<1>4. RecordsOK' /\ Config_' \in Seq(Applying') /\ Ordered' /\ \A x \in Applying' : Has(x)'
  BY <1>1, <1>2, <1>3, SameCollected DEF AssemblyInv
<1>5. SectionsOK'
  BY <1>1, <1>2 DEF SectionsOK
<1>6. NamesOK'
  <2>1. DOMAIN Config_ \subseteq Nat \ {0}
    BY DEF AssemblyInv
  <2>2. QED
    BY <1>1, <1>2, <2>1 DEF NamesOK
<1>7. QED
  BY <1>1, <1>2, <1>4, <1>5, <1>6 DEF AssemblyInv

LEMMA ExpandElementInv ==
    ASSUME AssemblyInv, ExpandElement
    PROVE  AssemblyInv'
<1> DEFINE body == Element(Config_[expand]).body
           new == {n \in DOMAIN Sections : Sections[n] \in DOMAIN body \ names}
           bad == {n \in new : Throws(body[Sections[n]])}
           added == {Sections[n] : n \in {n \in new : /\ \A m \in bad : n < m
                                                      /\ body[Sections[n]] # "scalar"}}
<1>1. /\ names' = names \union {Sections[n] : n \in new}
      /\ sections' = [s \in DOMAIN sections \union added |->
                         IF s \in added THEN Config_[expand] ELSE sections[s]]
      /\ phase' = IF bad # {} THEN "answered" ELSE phase
      /\ expand' = expand + 1 /\ UNCHANGED <<records, Config_>>
      /\ phase = "expand" /\ expand <= Len(Config_)
  BY DEF ExpandElement
<1>2. /\ RecordsOK /\ Config_ \in Seq(Applying) /\ SectionsOK /\ NamesOK /\ \A x \in Applying : Has(x)
      /\ expand \in Nat /\ expand >= 1
  BY <1>1 DEF AssemblyInv
<1>3. /\ RecordsOK' /\ Config_' \in Seq(Applying') /\ Ordered' /\ \A x \in Applying' : Has(x)'
  BY <1>1, <1>2, SameCollected DEF AssemblyInv
<1>4. expand \in DOMAIN Config_ /\ DOMAIN Config_ \subseteq Nat
  BY <1>1, <1>2
<1>5. body = Body(expand)
  BY DEF Body
<1> HIDE DEF body
\* The element is the first to define what is new in it.
<1>6. ASSUME NEW s \in Named \ names, s \in DOMAIN body
      PROVE  FirstAt(s, expand)
  <2>1. \A m \in DOMAIN Config_ : m < expand => s \notin DOMAIN Body(m)
    BY <1>2, <1>6 DEF NamesOK
  <2>2. QED
    BY <1>4, <1>5, <1>6, <2>1 DEF FirstAt
<1>7. \A n \in new : Sections[n] \in Named \ names /\ Sections[n] \in DOMAIN body
  BY DEF Named
<1>8. \A s \in added : /\ s \in Named /\ FirstAt(s, expand)
                       /\ body[s] # "scalar" /\ ~Throws(body[s])
  <2> SUFFICES ASSUME NEW n \in new, \A m \in bad : n < m, body[Sections[n]] # "scalar"
               PROVE  /\ Sections[n] \in Named /\ FirstAt(Sections[n], expand)
                      /\ ~Throws(body[Sections[n]])
    OBVIOUS
  <2>1. n \notin bad
    <3>1. ~(n < n)
      <4>1. n \in DOMAIN Sections
        OBVIOUS
      <4>2. QED
        BY <4>1, APConfigAssumption
    <3>2. QED
      BY <3>1
  <2>2. QED
    BY <1>6, <1>7, <2>1
<1>9. SectionsOK'
  <2> SUFFICES ASSUME NEW s \in DOMAIN sections \union added
               PROVE  /\ s \in Named
                      /\ \E j \in DOMAIN Config_ : /\ FirstAt(s, j) /\ sections'[s] = Config_[j]
                                                   /\ Body(j)[s] # "scalar" /\ ~Throws(Body(j)[s])
    <3>1. DOMAIN sections' = DOMAIN sections \union added
      BY <1>1
    <3>2. QED
      BY <1>1, <3>1, SameCollected DEF SectionsOK
  <2>1. CASE s \in added
    <3>1. sections'[s] = Config_[expand]
      BY <1>1, <2>1
    <3>2. QED
      BY <1>4, <1>5, <1>8, <2>1, <3>1
  <2>2. CASE s \notin added
    <3>1. s \in DOMAIN sections /\ sections'[s] = sections[s]
      BY <1>1, <2>2
    <3>2. QED
      BY <1>2, <3>1 DEF SectionsOK
  <2>3. QED
    BY <2>1, <2>2
<1>10. CASE bad # {}
  <2>1. phase' = "answered"
    BY <1>1, <1>10
  <2>2. PICK n \in new : Throws(body[Sections[n]])
    BY <1>10
  <2>3. Sections[n] \in Named /\ FirstAt(Sections[n], expand) /\ Throws(Body(expand)[Sections[n]])
    BY <1>5, <1>6, <1>7, <2>2
  <2>4. \E s \in Named : \E j \in DOMAIN Config_ : FirstAt(s, j) /\ Throws(Body(j)[s])
    BY <1>4, <2>3
  <2>5. AnswerOK'
    BY <1>1, <2>4, SameCollected DEF AnswerOK
  <2>6. QED
    BY <1>1, <1>2, <1>3, <1>9, <2>1, <2>5 DEF AssemblyInv
<1>11. CASE bad = {}
  <2>1. phase' = "expand"
    BY <1>1, <1>11
  <2>2. names' = {s \in Named : \E j \in DOMAIN Config_ : j < expand' /\ s \in DOMAIN Body(j)}
    <3>1. {Sections[n] : n \in new} = {s \in Named \ names : s \in DOMAIN Body(expand)}
      BY <1>5 DEF Named
    <3>2. \A j \in DOMAIN Config_ : j < expand' <=> j < expand \/ j = expand
      BY <1>1, <1>2, <1>4
    <3>3. names = {s \in Named : \E j \in DOMAIN Config_ : j < expand /\ s \in DOMAIN Body(j)}
      BY <1>2 DEF NamesOK
    <3>4. QED
      BY <1>1, <1>4, <3>1, <3>2, <3>3
  <2>3. ASSUME NEW s \in names' \ DOMAIN sections' PROVE FirstScalar(s)
    <3>1. s \notin DOMAIN sections /\ s \notin added
      BY <1>1, <2>3
    <3>2. CASE s \in names
      BY <1>2, <3>1, <3>2 DEF NamesOK
    <3>3. CASE s \notin names
      <4>1. PICK n \in new : s = Sections[n]
        BY <1>1, <3>3
      <4>2. body[s] = "scalar"
        BY <1>11, <3>1, <4>1
      <4>3. FirstAt(s, expand)
        BY <1>6, <1>7, <4>1
      <4>4. QED
        BY <1>4, <1>5, <4>2, <4>3 DEF FirstScalar
    <3>4. QED
      BY <3>2, <3>3
  <2>4. NamesOK'
    BY <1>1, <2>2, <2>3, SameCollected DEF NamesOK
  <2>5. QED
    BY <1>1, <1>2, <1>3, <1>9, <2>1, <2>4 DEF AssemblyInv
<1>12. QED
  BY <1>10, <1>11

LEMMA ExpandedInv ==
    ASSUME AssemblyInv, Expanded
    PROVE  AssemblyInv'
<1>1. /\ UNCHANGED <<records, Config_>> /\ UNCHANGED <<expand, names, sections>>
      /\ phase = "expand" /\ phase' = "answered" /\ expand > Len(Config_)
  BY DEF Expanded
<1>2. /\ RecordsOK /\ Config_ \in Seq(Applying) /\ SectionsOK /\ NamesOK /\ \A x \in Applying : Has(x)
      /\ expand \in Nat /\ expand >= 1
  BY <1>1 DEF AssemblyInv
<1>3. /\ RecordsOK' /\ Config_' \in Seq(Applying') /\ Ordered' /\ \A x \in Applying' : Has(x)'
  BY <1>1, <1>2, SameCollected DEF AssemblyInv
<1>4. \A j \in DOMAIN Config_ : j < expand
  BY <1>1, <1>2
<1>5. AnswerOK
  BY <1>2, <1>4 DEF AnswerOK, NamesOK
<1>6. AnswerOK' /\ SectionsOK'
  BY <1>1, <1>2, <1>5, SameCollected DEF AnswerOK, SectionsOK
<1>7. QED
  BY <1>1, <1>2, <1>3, <1>6 DEF AssemblyInv

\* The first to define a section is the one to provide it.
LEMMA FirstProvides ==
    ASSUME Config_ \in Seq(Applying), Ordered, \A x \in Applying : Has(x),
           NEW s, NEW j \in DOMAIN Config_, FirstAt(s, j)
    PROVE  Config_[j] \in Provider(s)
<1>1. Config_[j] \in Defining(s)
  BY DEF FirstAt, Defining, Body
<1>2. ASSUME NEW y \in Defining(s) \ {Config_[j]} PROVE Before(Config_[j], y)
  <2>1. PICK k \in DOMAIN Config_ : Config_[k] = y
    BY DEF Defining, Has
  <2>2. s \in DOMAIN Body(k) /\ k # j
    BY <2>1 DEF Defining, Body
  <2>3. j < k
    <3>1. ~(k < j)
      BY <2>2 DEF FirstAt
    <3>2. j \in Int /\ k \in Int
      OBVIOUS
    <3>3. QED
      BY <2>2, <3>1, <3>2
  <2>4. QED
    BY <2>1, <2>3 DEF Ordered
<1>3. QED
  BY <1>1, <1>2 DEF Provider

\* Every section of an answer comes from the heaviest element that defines it, the
\* nearest of equally heavy ones, for every hierarchy, every set of configurations and
\* every weight, also when Get is called again.
THEOREM HeaviestNearestWinsTheorem == AssemblySpec => []HeaviestNearestWins
<1>1. AssemblyInit => AssemblyInv
  <2> SUFFICES ASSUME AssemblyInit PROVE AssemblyInv
    OBVIOUS
  <2>1. Config_ \in Seq(Applying) /\ Ordered
    BY DEF AssemblyInit, Ordered
  <2>2. QED
    BY <2>1 DEF AssemblyInit, AssemblyInv, RecordsOK
<1>2. AssemblyInv /\ [AssemblyNext]_assemblyVars => AssemblyInv'
  <2> SUFFICES ASSUME AssemblyInv, [AssemblyNext]_assemblyVars PROVE AssemblyInv'
    OBVIOUS
  <2>1. CASE UNCHANGED assemblyVars
    <3>1. UNCHANGED <<records, Config_>> /\ UNCHANGED <<phase, walk, expand, names, sections>>
      BY <2>1 DEF assemblyVars
    <3>2. Start' = Start
      BY <3>1, SameRecords
    <3>3. \A x : Met(x)' <=> Met(x)
      BY <3>1 DEF Met, Line, NextPlace
    <3>4. WalkOK' <=> WalkOK
      BY <3>1, <3>2 DEF WalkOK, Positions, Line, NextPlace
    <3>5. SectionsOK' <=> SectionsOK
      BY <3>1, SameCollected DEF SectionsOK
    <3>6. (NamesOK' <=> NamesOK) /\ (AnswerOK' <=> AnswerOK)
      BY <3>1, SameCollected DEF NamesOK, AnswerOK
    <3>7. QED
      BY <3>1, <3>3, <3>4, <3>5, <3>6, SameCollected DEF AssemblyInv
  <2>2. QED
    BY <2>1, GetInv, AddElementInv, NextConfigurationInv, GoUpInv, CollectedInv, ExpandElementInv,
       ExpandedInv DEF AssemblyNext
<1>3. AssemblyInv => HeaviestNearestWins
  <2> SUFFICES ASSUME AssemblyInv, phase = "answered" PROVE HeaviestNearestWins
    BY DEF HeaviestNearestWins
  <2>1. /\ Config_ \in Seq(Applying) /\ Ordered /\ SectionsOK /\ AnswerOK /\ \A x \in Applying : Has(x)
    BY DEF AssemblyInv
  <2>2. \A s : \A j \in DOMAIN Config_ : FirstAt(s, j) => Config_[j] \in Provider(s)
    BY <2>1, FirstProvides
  <2>3. Good <=> Applying # {}
    <3>1. Config_ # <<>> => Config_[1] \in Applying
      BY <2>1
    <3>2. Config_ = <<>> => Applying = {}
      BY <2>1 DEF Has
    <3>3. QED
      BY <3>1, <3>2 DEF Good
  <2>4. ASSUME NEW s \in DOMAIN sections
        PROVE  /\ s \in Named /\ sections[s] \in Provider(s)
               /\ Element(sections[s]).body[s] # "scalar" /\ ~Throws(Element(sections[s]).body[s])
    BY <2>1, <2>2 DEF SectionsOK, Body
  <2>5. \/ \E s \in Named : \E x \in Provider(s) : Throws(Element(x).body[s])
        \/ \A s \in Named \ DOMAIN sections :
              Defining(s) # {} => \E x \in Provider(s) : Element(x).body[s] = "scalar"
    <3>1. CASE \E s \in Named : \E j \in DOMAIN Config_ : FirstAt(s, j) /\ Throws(Body(j)[s])
      BY <2>2, <3>1 DEF Body
    <3>2. CASE \A s \in Named \ DOMAIN sections :
                  (\E j \in DOMAIN Config_ : s \in DOMAIN Body(j)) => FirstScalar(s)
      <4> SUFFICES ASSUME NEW s \in Named \ DOMAIN sections, NEW y \in Defining(s)
                   PROVE  \E x \in Provider(s) : Element(x).body[s] = "scalar"
        OBVIOUS
      <4>1. \E j \in DOMAIN Config_ : s \in DOMAIN Body(j)
        BY <2>1 DEF Defining, Has, Body
      <4>2. PICK j \in DOMAIN Config_ : FirstAt(s, j) /\ Body(j)[s] = "scalar"
        BY <3>2, <4>1 DEF FirstScalar
      <4>3. QED
        BY <2>2, <4>2 DEF Body
    <3>3. QED
      BY <2>1, <3>1, <3>2 DEF AnswerOK
  <2>6. QED
    BY <2>3, <2>4, <2>5 DEF HeaviestNearestWins, Named
<1>4. QED
  BY <1>1, <1>2, <1>3, PTL DEF AssemblySpec

-----------------------------------------------------------------------------
(* SerialNumberCache.  The numbers in order, each of them once.            *)
(***************************************************************************)
Increasing(arr) == \A j, k \in DOMAIN arr : j < k => arr[j] < arr[k]

\* What std::lower_bound finds in a vector that is in order: everything before it is
\* smaller, and nothing else.
LEMMA LowerBoundSeparates ==
    ASSUME NEW arr \in Seq(Int), Increasing(arr), NEW n \in Int
    PROVE  /\ LowerBound(arr, n) \in 1 .. Len(arr) + 1
           /\ \A k \in DOMAIN arr : arr[k] < n <=> k < LowerBound(arr, n)
<1> DEFINE smaller == {k \in 1 .. Len(arr) : arr[k] < n}
           c == Cardinality(smaller)
<1>1. Len(arr) \in Nat /\ DOMAIN arr = 1 .. Len(arr) /\ \A k \in DOMAIN arr : arr[k] \in Int
  OBVIOUS
<1>2. LowerBound(arr, n) = c + 1
  BY DEF LowerBound
<1>3. \A m \in Nat : IsFiniteSet(1 .. m) /\ Cardinality(1 .. m) = m
  BY FS_Interval
<1>4. IsFiniteSet(smaller) /\ c \in Nat /\ c <= Len(arr)
  <2>1. smaller \in SUBSET (1 .. Len(arr))
    OBVIOUS
  <2>2. IsFiniteSet(smaller) /\ c <= Cardinality(1 .. Len(arr))
    BY <1>1, <1>3, <2>1, FS_Subset
  <2>3. c \in Nat
    BY <2>2, FS_CardinalityType
  <2>4. QED
    BY <1>1, <1>3, <2>2, <2>3
<1>5. ASSUME NEW k \in DOMAIN arr, arr[k] < n PROVE k <= c
  <2>1. k \in Nat /\ k <= Len(arr)
    BY <1>1
  <2>2. ASSUME NEW j \in 1 .. k PROVE j \in smaller
    <3>1. j \in DOMAIN arr /\ arr[j] \in Int /\ arr[k] \in Int /\ (j < k \/ j = k)
      BY <1>1, <2>1
    <3>2. arr[j] < n
      BY <1>5, <3>1 DEF Increasing
    <3>3. QED
      BY <1>1, <3>1, <3>2
  <2>3. 1 .. k \in SUBSET smaller
    BY <2>2
  <2> HIDE DEF smaller
  <2>4. Cardinality(1 .. k) <= c
    BY <1>4, <2>3, FS_Subset
  <2>5. QED
    BY <1>3, <2>1, <2>4
<1>6. ASSUME NEW k \in DOMAIN arr, ~(arr[k] < n) PROVE c < k
  <2>1. k \in Nat /\ k >= 1 /\ k - 1 \in Nat
    BY <1>1
  <2>2. ASSUME NEW j \in smaller PROVE j \in 1 .. (k - 1)
    <3>1. j \in DOMAIN arr /\ arr[j] < n /\ arr[j] \in Int /\ arr[k] \in Int
      BY <1>1
    <3>2. j # k /\ ~(k < j)
      BY <1>6, <3>1 DEF Increasing
    <3>3. QED
      BY <1>1, <2>1, <3>1, <3>2
  <2>3. smaller \in SUBSET (1 .. (k - 1))
    BY <2>2
  <2> HIDE DEF smaller
  <2>4. c <= Cardinality(1 .. (k - 1))
    BY <1>3, <2>1, <2>3, FS_Subset
  <2>5. QED
    BY <1>3, <1>4, <2>1, <2>4
<1> HIDE DEF c
<1>7. QED
  BY <1>1, <1>2, <1>4, <1>5, <1>6

LEMMA InsertedInOrder ==
    ASSUME NEW arr \in Seq(Int), Increasing(arr), NEW n \in Int, n \notin Range(arr)
    PROVE  /\ Inserted(arr, n) \in Seq(Int) /\ Increasing(Inserted(arr, n))
           /\ Range(Inserted(arr, n)) = Range(arr) \union {n}
<1> DEFINE lb == LowerBound(arr, n)
           c == lb - 1
           new == Inserted(arr, n)
           Z == Int
<1>1. /\ Len(arr) \in Nat /\ DOMAIN arr = 1 .. Len(arr) /\ \A k \in DOMAIN arr : arr[k] \in Int /\ arr[k] # n
  BY DEF Range
<1>2. lb = c + 1 /\ c \in 0 .. Len(arr) /\ \A k \in DOMAIN arr : arr[k] < n <=> k <= c
  <2>1. lb \in 1 .. Len(arr) + 1 /\ \A k \in DOMAIN arr : arr[k] < n <=> k < lb
    BY LowerBoundSeparates
  <2> HIDE DEF lb
  <2>2. lb = c + 1 /\ c \in 0 .. Len(arr)
    BY <1>1, <2>1
  <2>3. \A k \in 1 .. Len(arr) : k < lb <=> k <= c
    BY <1>1, <2>1
  <2>4. QED
    BY <1>1, <2>1, <2>2, <2>3
<1>3. new = InsertAt(arr, lb, n)
  BY DEF Inserted
<1> HIDE DEF lb, c, new, Z
<1>4. /\ new \in Seq(Int) /\ Len(new) = Len(arr) + 1
      /\ \A j \in 1 .. Len(arr) + 1 : new[j] = IF j <= c THEN arr[j] ELSE IF j = c + 1 THEN n ELSE arr[j - 1]
  <2>1. arr \in Seq(Z) /\ n \in Z /\ c \in 0 .. Len(arr)
    BY <1>2 DEF Z
  <2>2. /\ InsertAt(arr, c + 1, n) \in Seq(Z) /\ Len(InsertAt(arr, c + 1, n)) = Len(arr) + 1
        /\ \A j \in 1 .. Len(arr) + 1 :
              InsertAt(arr, c + 1, n)[j] = IF j <= c THEN arr[j] ELSE IF j = c + 1 THEN n ELSE arr[j - 1]
    BY <2>1, InsertedAt
  <2>3. new = InsertAt(arr, c + 1, n)
    BY <1>2, <1>3
  <2>4. QED
    BY <2>2, <2>3 DEF Z
<1>5. DOMAIN new = 1 .. Len(arr) + 1
  BY <1>1, <1>4
<1>6. Increasing(new)
  <2> SUFFICES ASSUME NEW j \in 1 .. Len(arr) + 1, NEW k \in 1 .. Len(arr) + 1, j < k
               PROVE  new[j] < new[k]
    BY <1>5 DEF Increasing
  <2>1. c \in Nat /\ c <= Len(arr)
    BY <1>1, <1>2
  <2> DEFINE Old(m) == IF m <= c THEN m ELSE m - 1
  <2>2. \A m \in 1 .. Len(arr) + 1 : m # c + 1 =>
            Old(m) \in DOMAIN arr /\ new[m] = arr[Old(m)] /\ (m <= c <=> Old(m) <= c)
    BY <1>1, <1>4, <2>1
  <2>3. new[c + 1] = n
    BY <1>1, <1>4, <2>1
  <2>4. CASE j = c + 1
    <3>1. Old(k) \in DOMAIN arr /\ new[k] = arr[Old(k)] /\ ~(Old(k) <= c)
      BY <1>1, <2>1, <2>2, <2>4
    <3>2. arr[Old(k)] \in Int /\ arr[Old(k)] # n /\ ~(arr[Old(k)] < n)
      BY <1>1, <1>2, <3>1
    <3>3. QED
      BY <2>3, <2>4, <3>1, <3>2
  <2>5. CASE k = c + 1
    <3>1. Old(j) \in DOMAIN arr /\ new[j] = arr[Old(j)] /\ Old(j) <= c
      BY <1>1, <2>1, <2>2, <2>5
    <3>2. QED
      BY <1>2, <2>3, <2>5, <3>1
  <2>6. CASE j # c + 1 /\ k # c + 1
    <3>1. /\ Old(j) \in DOMAIN arr /\ new[j] = arr[Old(j)]
          /\ Old(k) \in DOMAIN arr /\ new[k] = arr[Old(k)]
          /\ Old(j) < Old(k)
      BY <1>1, <2>1, <2>2, <2>6
    <3>2. QED
      BY <3>1 DEF Increasing
  <2>7. QED
    BY <2>4, <2>5, <2>6
<1>7. Range(new) = Range(arr) \union {n}
  <2>1. c \in Nat /\ c <= Len(arr)
    BY <1>1, <1>2
  <2>2. ASSUME NEW j \in 1 .. Len(arr) + 1 PROVE new[j] \in Range(arr) \union {n}
    <3>1. CASE j = c + 1
      BY <1>4, <1>5, <2>1, <3>1
    <3>2. CASE j <= c
      <4>1. new[j] = arr[j]
        BY <1>4, <3>2
      <4>2. j \in DOMAIN arr
        BY <1>1, <2>1, <3>2
      <4>3. QED
        BY <4>1, <4>2 DEF Range
    <3>3. CASE ~(j <= c) /\ j # c + 1
      <4>1. new[j] = arr[j - 1]
        BY <1>4, <3>3
      <4>2. j - 1 \in DOMAIN arr
        BY <1>1, <2>1, <3>3
      <4>3. QED
        BY <4>1, <4>2 DEF Range
    <3>4. QED
      BY <3>1, <3>2, <3>3
  <2>3. ASSUME NEW j \in DOMAIN arr PROVE arr[j] \in Range(new)
    <3>1. CASE j <= c
      <4>1. j \in DOMAIN new /\ new[j] = arr[j]
        BY <1>1, <1>4, <1>5, <2>1, <3>1
      <4>2. QED
        BY <4>1 DEF Range
    <3>2. CASE ~(j <= c)
      <4>1. j + 1 \in DOMAIN new /\ new[j + 1] = arr[(j + 1) - 1] /\ (j + 1) - 1 = j
        BY <1>1, <1>4, <1>5, <2>1, <3>2
      <4>2. QED
        BY <4>1 DEF Range
    <3>3. QED
      BY <3>1, <3>2
  <2>4. c + 1 \in DOMAIN new /\ new[c + 1] = n
    BY <1>1, <1>4, <1>5, <2>1
  <2>5. QED
    BY <1>5, <2>2, <2>3, <2>4 DEF Range
<1>8. QED
  BY <1>4, <1>6, <1>7 DEF new

LEMMA ErasedInOrder ==
    ASSUME NEW arr \in Seq(Int), Increasing(arr), NEW n \in Range(arr)
    PROVE  /\ Erased(arr, n) \in Seq(Int) /\ Increasing(Erased(arr, n))
           /\ Range(Erased(arr, n)) = Range(arr) \ {n}
<1> DEFINE Found(k) == arr[k] = n /\ \A j \in 1 .. (k - 1) : arr[j] # n
           at_ == CHOOSE k \in DOMAIN arr : Found(k)
           new == Erased(arr, n)
           Z == Int
<1>1. Len(arr) \in Nat /\ DOMAIN arr = 1 .. Len(arr) /\ \A k \in DOMAIN arr : arr[k] \in Int
  OBVIOUS
<1>2. at_ \in DOMAIN arr /\ arr[at_] = n
  <2>1. PICK k \in DOMAIN arr : arr[k] = n
    BY DEF Range
  <2>2. \A j \in 1 .. (k - 1) : arr[j] # n
    <3> SUFFICES ASSUME NEW j \in 1 .. (k - 1) PROVE arr[j] # n
      OBVIOUS
    <3>1. j \in DOMAIN arr /\ j < k
      BY <1>1
    <3>2. arr[j] < arr[k] /\ arr[j] \in Int /\ arr[k] \in Int
      BY <1>1, <3>1 DEF Increasing
    <3>3. QED
      BY <2>1, <3>2
  <2>3. QED
    BY <2>1, <2>2
<1>3. new = RemoveAt(arr, at_)
  BY DEF Erased
<1> HIDE DEF at_, new, Z
<1> DEFINE a == SubSeq(arr, 1, at_ - 1)
           b == SubSeq(arr, at_ + 1, Len(arr))
<1>4. /\ arr \in Seq(Z) /\ at_ \in Nat /\ at_ >= 1 /\ at_ <= Len(arr)
      /\ at_ - 1 \in Nat /\ Len(arr) - at_ \in Nat /\ Len(arr) - 1 \in Nat
  BY <1>1, <1>2 DEF Z
<1>5. a \in Seq(Z) /\ Len(a) = at_ - 1 /\ \A j \in 1 .. (at_ - 1) : a[j] = arr[j]
  BY <1>1, <1>4, SubSeqProperties
<1>6. b \in Seq(Z) /\ Len(b) = Len(arr) - at_ /\ \A j \in 1 .. (Len(arr) - at_) : b[j] = arr[at_ + j]
  <2> DEFINE m == at_ + 1
             l == Len(arr)
  <2>1. m \in Int /\ l \in Int /\ at_ \in Int /\ at_ <= l /\ m = at_ + 1
    BY <1>1, <1>4
  <2>2. \A i \in m .. l : arr[i] \in Z
    BY <1>1, <1>4
  <2> HIDE DEF m, l
  <2>3. /\ SubSeq(arr, m, l) \in Seq(Z)
        /\ Len(SubSeq(arr, m, l)) = IF m <= l THEN l - m + 1 ELSE 0
        /\ \A i \in 1 .. l - m + 1 : SubSeq(arr, m, l)[i] = arr[m + i - 1]
    BY <2>1, <2>2, SubSeqProperties
  <2>4. l - m + 1 = l - at_ /\ (~(m <= l) => l - at_ = 0)
    BY <2>1
  <2>5. \A j \in 1 .. (l - at_) : m + j - 1 = at_ + j
    BY <2>1
  <2>6. b = SubSeq(arr, m, l)
    BY DEF m, l
  <2> HIDE DEF b
  <2>7. QED
    BY <2>3, <2>4, <2>5, <2>6 DEF l
<1>7. new = a \o b
  BY <1>3 DEF RemoveAt
<1> HIDE DEF a, b
<1>8. /\ new \in Seq(Z) /\ Len(new) = Len(a) + Len(b)
      /\ \A j \in 1 .. Len(a) + Len(b) : new[j] = IF j <= Len(a) THEN a[j] ELSE b[j - Len(a)]
  BY <1>5, <1>6, <1>7, ConcatProperties
<1>9. Len(a) + Len(b) = Len(arr) - 1 /\ DOMAIN new = 1 .. (Len(arr) - 1)
  BY <1>1, <1>4, <1>5, <1>6, <1>8
<1> DEFINE Old(j) == IF j < at_ THEN j ELSE j + 1
<1>10. \A j \in DOMAIN new : Old(j) \in DOMAIN arr /\ Old(j) # at_ /\ new[j] = arr[Old(j)]
  <2> SUFFICES ASSUME NEW j \in 1 .. (Len(arr) - 1)
               PROVE  Old(j) \in DOMAIN arr /\ Old(j) # at_ /\ new[j] = arr[Old(j)]
    BY <1>9
  <2>1. Old(j) \in DOMAIN arr /\ Old(j) # at_
    BY <1>1, <1>4
  <2>2. new[j] = IF j <= at_ - 1 THEN a[j] ELSE b[j - (at_ - 1)]
    BY <1>5, <1>8, <1>9
  <2>3. CASE j < at_
    BY <1>4, <1>5, <2>2, <2>3
  <2>4. CASE ~(j < at_)
    <3>1. j - (at_ - 1) \in 1 .. (Len(arr) - at_) /\ at_ + (j - (at_ - 1)) = j + 1 /\ ~(j <= at_ - 1)
      BY <1>1, <1>4, <2>4
    <3>2. b[j - (at_ - 1)] = arr[at_ + (j - (at_ - 1))]
      BY <1>6, <3>1
    <3>3. QED
      BY <2>1, <2>2, <2>4, <3>1, <3>2
  <2>5. QED
    BY <2>1, <2>3, <2>4
<1>11. Increasing(new)
  <2> SUFFICES ASSUME NEW j \in DOMAIN new, NEW k \in DOMAIN new, j < k PROVE new[j] < new[k]
    BY DEF Increasing
  <2>1. Old(j) < Old(k)
    BY <1>4, <1>9
  <2>2. QED
    BY <1>10, <2>1 DEF Increasing
<1>12. Range(new) = Range(arr) \ {n}
  <2>1. \A k \in DOMAIN arr : k # at_ => arr[k] # n
    <3> SUFFICES ASSUME NEW k \in DOMAIN arr, k # at_ PROVE arr[k] # n
      OBVIOUS
    <3>1. k < at_ \/ at_ < k
      BY <1>1, <1>4
    <3>2. arr[k] < arr[at_] \/ arr[at_] < arr[k]
      BY <1>2, <3>1 DEF Increasing
    <3>3. QED
      BY <1>1, <1>2, <3>2
  <2>2. ASSUME NEW k \in DOMAIN arr, k # at_ PROVE arr[k] \in Range(new)
    <3>1. CASE k < at_
      <4>1. k \in DOMAIN new /\ Old(k) = k
        BY <1>1, <1>4, <1>9, <3>1
      <4>2. QED
        BY <1>10, <4>1 DEF Range
    <3>2. CASE k > at_
      <4>1. k - 1 \in DOMAIN new /\ Old(k - 1) = k
        BY <1>1, <1>4, <1>9, <3>2
      <4>2. QED
        BY <1>10, <4>1 DEF Range
    <3>3. QED
      BY <1>1, <1>4, <2>2, <3>1, <3>2
  <2>3. \A j \in DOMAIN new : new[j] \in Range(arr) \ {n}
    BY <1>10, <2>1 DEF Range
  <2>4. QED
    BY <1>2, <2>1, <2>2, <2>3 DEF Range
<1>13. QED
  BY <1>8, <1>11, <1>12 DEF new, Z

\* The cache as Discovery has it: a set to which a number is added, or which loses one.
SetStep ==
    \E n \in Numbers :
        \/ n \notin Range(SNs) /\ Range(SNs') = Range(SNs) \union {n}
        \/ n \in Range(SNs) /\ Range(SNs') = Range(SNs) \ {n}

SerialInv == SNs \in Seq(Int) /\ Increasing(SNs)

LEMMA SerialStep ==
    ASSUME SerialInv, SerialNext
    PROVE  SerialInv' /\ SetStep
<1>1. PICK n \in Numbers : AddSerialNumber(n) \/ DeleteSerialNumber(n)
  BY DEF SerialNext
<1>2. n \in Int
  BY DEF Numbers
<1>3. SNs \in Seq(Int) /\ Increasing(SNs)
  BY DEF SerialInv
<1>4. CASE AddSerialNumber(n)
  <2>1. n \notin Range(SNs) /\ SNs' = Inserted(SNs, n)
    BY <1>4 DEF AddSerialNumber
  <2>2. SNs' \in Seq(Int) /\ Increasing(SNs') /\ Range(SNs') = Range(SNs) \union {n}
    BY <1>2, <1>3, <2>1, InsertedInOrder
  <2>3. SerialInv'
    BY <2>2 DEF SerialInv, Increasing
  <2>4. QED
    BY <2>1, <2>2, <2>3 DEF SetStep
<1>5. CASE DeleteSerialNumber(n)
  <2>1. n \in Range(SNs) /\ SNs' = Erased(SNs, n)
    BY <1>5 DEF DeleteSerialNumber
  <2>2. SNs' \in Seq(Int) /\ Increasing(SNs') /\ Range(SNs') = Range(SNs) \ {n}
    BY <1>3, <2>1, ErasedInOrder
  <2>3. SerialInv'
    BY <2>2 DEF SerialInv, Increasing
  <2>4. QED
    BY <2>1, <2>2, <2>3 DEF SetStep
<1>6. QED
  BY <1>1, <1>4, <1>5

\* The vector of serial numbers is in order at all times, as std::lower_bound requires,
\* and implements the set that Discovery has for it: AddSerialNumber and
\* DeleteSerialNumber add and remove the one number they are called with, whatever the
\* base and the number of digits.
THEOREM SerialsInOrderTheorem ==
    SerialSpec => [](SNs \in Seq(Int) /\ Increasing(SNs)) /\ [][SetStep]_svars
<1>1. SerialInit => SerialInv
  BY DEF SerialInit, SerialInv, Increasing
<1>2. SerialInv /\ [SerialNext]_svars => SerialInv' /\ [SetStep]_svars
  <2> SUFFICES ASSUME SerialInv, [SerialNext]_svars PROVE SerialInv' /\ [SetStep]_svars
    OBVIOUS
  <2>1. CASE UNCHANGED svars
    BY <2>1 DEF svars, SerialInv, Increasing
  <2>2. QED
    BY <2>1, SerialStep
<1>3. SerialInv => SNs \in Seq(Int) /\ Increasing(SNs)
  BY DEF SerialInv
<1>4. QED
  BY <1>1, <1>2, <1>3, PTL DEF SerialSpec
=============================================================================
