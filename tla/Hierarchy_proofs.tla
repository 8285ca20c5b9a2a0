-------------------------- MODULE Hierarchy_proofs --------------------------
(***************************************************************************)
(* The invariants of Hierarchy, for every choice of its constants.         *)
(***************************************************************************)
EXTENDS Hierarchy, TLAPS

(***************************************************************************)
(* ManageMembership: what it returns, that it disturbs no other member,    *)
(* that the member ends up in its new owner's list, and that an absent     *)
(* field (from and to both empty) changes nothing.                         *)
(***************************************************************************)
LEMMA ManageMembershipType ==
    ASSUME NEW S, NEW T, NEW col \in [S -> SUBSET T], NEW rows,
           NEW from, NEW to, NEW member \in T
    PROVE  ManageMembership(col, rows, from, to, member) \in [S -> SUBSET T]
BY DEF ManageMembership, AddMembership, RemoveMembership

LEMMA ManageMembershipOthers ==
    ASSUME NEW S, NEW T, NEW col \in [S -> SUBSET T], NEW rows,
           NEW from, NEW to, NEW member \in T
    PROVE  \A x \in S : \A m \in col[x] :
             m # member => m \in ManageMembership(col, rows, from, to, member)[x]
BY DEF ManageMembership, AddMembership, RemoveMembership

LEMMA ManageMembershipArrives ==
    ASSUME NEW S, NEW T, NEW col \in [S -> SUBSET T], NEW rows \in SUBSET S,
           NEW from, NEW to \in rows, NEW member \in T
    PROVE  member \in ManageMembership(col, rows, from, to, member)[to]
BY DEF ManageMembership, AddMembership, RemoveMembership

LEMMA ManageMembershipIdle ==
    ASSUME NEW col, NEW rows, NoId \notin rows, NEW member
    PROVE  ManageMembership(col, rows, NoId, NoId, member) = col
BY DEF ManageMembership, AddMembership, RemoveMembership

(***************************************************************************)
(* One reference column ref into the rows of another table, whose list     *)
(* column is col: every live row is listed by the row it refers to, which  *)
(* can be missing only when it is in lost.  This is still so after a PUT   *)
(* of member with the value new.                                           *)
(***************************************************************************)
PlacedOne(ref, m, col, rows, lost) ==
    ref[m] # NoId => IF ref[m] \in rows THEN m \in col[ref[m]] ELSE ref[m] \in lost

Placed(ref, live, col, rows, lost) ==
    \A m \in live : PlacedOne(ref, m, col, rows, lost)

PutRef(ref, member, new) == [ref EXCEPT ![member] = Assigned(@, new)]

PutCol(ref, col, rows, member, new) ==
    ManageMembership(col, rows, From(ref[member], new), To(new), member)

LEMMA PutType ==
    ASSUME NEW S, NEW T, NEW col \in [S -> SUBSET T], NEW rows \in SUBSET S,
           NEW ref \in [T -> S \union {NoId}],
           NEW member \in T, NEW new \in rows \union {NoId, Keep}
    PROVE  /\ PutCol(ref, col, rows, member, new) \in [S -> SUBSET T]
           /\ PutRef(ref, member, new) \in [T -> S \union {NoId}]
<1>1. PutCol(ref, col, rows, member, new) \in [S -> SUBSET T]
  BY ManageMembershipType DEF PutCol
<1>2. PutRef(ref, member, new) \in [T -> S \union {NoId}]
  BY DEF PutRef, Assigned
<1>3. QED
  BY <1>1, <1>2

LEMMA PutKeepsPlaced ==
    ASSUME NEW S, NEW T, NEW col \in [S -> SUBSET T], NEW rows \in SUBSET S, NEW lost,
           NEW ref \in [T -> S \union {NoId}], NEW live \in SUBSET T,
           NEW member \in live, NEW new \in rows \union {NoId, Keep},
           NoId \notin S, Keep \notin S, NoId # Keep,
           Placed(ref, live, col, rows, lost)
    PROVE  Placed(PutRef(ref, member, new), live,
                  PutCol(ref, col, rows, member, new), rows, lost)
<1> DEFINE col2 == PutCol(ref, col, rows, member, new)
           ref2 == PutRef(ref, member, new)
<1>1. ASSUME NEW m \in live, m # member PROVE PlacedOne(ref2, m, col2, rows, lost)
  <2>1. ref2[m] = ref[m]
    BY <1>1 DEF PutRef
  <2>2. PlacedOne(ref, m, col, rows, lost)
    BY DEF Placed
  <2>3. \A x \in S : \A k \in col[x] : k # member => k \in col2[x]
    BY ManageMembershipOthers DEF PutCol
  <2>4. QED
    BY <1>1, <2>1, <2>2, <2>3 DEF PlacedOne
<1>2. PlacedOne(ref2, member, col2, rows, lost)
  <2>1. CASE new = Keep
    <3>1. ref2[member] = ref[member]
      BY <2>1 DEF PutRef, Assigned
    <3>2. col2 = ManageMembership(col, rows, NoId, NoId, member)
      BY <2>1 DEF PutCol, From, To
    <3>3. col2 = col
      BY <3>2, ManageMembershipIdle
    <3>4. QED
      BY <3>1, <3>3 DEF Placed, PlacedOne
  <2>2. CASE new # Keep /\ new # NoId
    <3>1. ref2[member] = new /\ new \in rows
      BY <2>2 DEF PutRef, Assigned
    <3>2. To(new) = new
      BY <2>2 DEF To
    <3>3. QED
      BY <3>1, <3>2, ManageMembershipArrives DEF PutCol, PlacedOne
  <2>3. CASE new = NoId
    BY <2>3 DEF PutRef, Assigned, PlacedOne
  <2>4. QED
    BY <2>1, <2>2, <2>3
<1>3. QED
  BY <1>1, <1>2 DEF Placed

LEMMA InitConsistent == Init => Consistent
<1> SUFFICES ASSUME Init PROVE Consistent
  OBVIOUS
<1> USE HierarchyAssumption DEF Init
<1>1. TypeOK
  BY DEF TypeOK, Ids
<1>2. LiveRowsIssued /\ NamesIssued
  BY DEF LiveRowsIssued, NamesIssued, subscriberVenues
<1>3. TagsPlaced /\ VenuesPlaced /\ ConfigurationsHeld
  BY DEF TagsPlaced, VenuesPlaced, ConfigurationsHeld
<1>4. EntitiesPlaced
  BY DEF EntitiesPlaced
<1>5. QED
  BY <1>1, <1>2, <1>3, <1>4 DEF Consistent

LEMMA EntityPostConsistent ==
    ASSUME Consistent,
           NEW e \in EntityIds, NEW parent \in entities, NEW ds \in SUBSET TagIds,
           NEW cs \in SUBSET ConfigIds, NEW ok \in BOOLEAN,
           EntityPost(e, parent, ds, cs, ok), UNCHANGED deviceConfigs
    PROVE  Consistent'
<1> USE HierarchyAssumption DEF Consistent, EntityPost, entityVars, venueVars,
        deviceVars, tagVars, ownerVars, configVars, Fresh, LiveRowsIssued
<1>1. TypeOK'
  <2>1. CASE ok
    <3>1. /\ entities' = entities \union {e}
          /\ eParent' = [eParent EXCEPT ![e] = parent]
          /\ eDevices' = [eDevices EXCEPT ![e] = ds]
          /\ eConfigurations' = [eConfigurations EXCEPT ![e] = cs]
      BY <2>1
    <3>2. entities' \in SUBSET EntityIds /\ eParent' \in [EntityIds -> EntityIds \union {NoId}]
      BY <3>1 DEF TypeOK
    <3>3. eDevices' \in [EntityIds -> SUBSET TagIds]
      BY <3>1 DEF TypeOK
    <3>4. eConfigurations' \in [EntityIds -> SUBSET ConfigIds]
      BY <3>1 DEF TypeOK
    <3>5. eChildren' \in [EntityIds -> SUBSET EntityIds]
      BY DEF TypeOK, AddMembership
    <3>6. issued' \in SUBSET Ids
      BY DEF TypeOK, Ids
    <3>7. UNCHANGED <<venueVars, vDevices, tagVars, vConfigurations, configVars,
                      deviceConfigs>>
      OBVIOUS
    <3> QED
      BY ONLY TypeOK, <3>2, <3>3, <3>4, <3>5, <3>6, <3>7 DEF TypeOK, Ids, venueVars, tagVars, configVars
  <2>2. CASE ~ok
    BY <2>2 DEF TypeOK, AddMembership, Ids
  <2> QED
    BY <2>1, <2>2
<1>2. LiveRowsIssued' /\ NamesIssued'
  BY DEF TypeOK, NamesIssued, subscriberVenues, RefSet
<1>3. TagsPlaced'
  <2>1. CASE ok
    <3>1. \A t \in tags : tEntity[t] \in entities => tEntity[t] # e
       OBVIOUS
    <3>2. /\ entities' = entities \union {e}
          /\ eDevices' = [eDevices EXCEPT ![e] = ds]
      BY <2>1
    <3> QED
      BY <3>1, <3>2 DEF TypeOK, TagsPlaced
  <2>2. CASE ~ok
    BY <2>2 DEF TypeOK, TagsPlaced
  <2> QED
    BY <2>1, <2>2
<1>4. VenuesPlaced'
  BY DEF TypeOK, VenuesPlaced, subscriberVenues
<1>5. EntitiesPlaced'
  BY DEF TypeOK, EntitiesPlaced, AddMembership
<1>6. ConfigurationsHeld'
  BY DEF TypeOK, ConfigurationsHeld, Held
<1>7. QED
  BY <1>1, <1>2, <1>3, <1>4, <1>5, <1>6

LEMMA EntityDeleteConsistent ==
    ASSUME Consistent, NEW e \in entities, EntityDelete(e), UNCHANGED deviceConfigs
    PROVE  Consistent'
<1> USE HierarchyAssumption DEF Consistent, EntityDelete, entityVars, venueVars,
        deviceVars, tagVars, ownerVars, configVars, LiveRowsIssued
<1>1. TypeOK'
  BY DEF TypeOK, RemoveMembership
<1>2. LiveRowsIssued' /\ NamesIssued'
  BY DEF TypeOK, NamesIssued, subscriberVenues, RefSet
<1>3. TagsPlaced'
  BY DEF TypeOK, TagsPlaced
<1>4. VenuesPlaced'
  BY DEF TypeOK, VenuesPlaced, subscriberVenues
<1>5. EntitiesPlaced'
  BY DEF TypeOK, EntitiesPlaced, RemoveMembership
<1>6. ConfigurationsHeld'
  BY DEF TypeOK, ConfigurationsHeld, Held
<1>7. QED
  BY <1>1, <1>2, <1>3, <1>4, <1>5, <1>6

LEMMA VenuePutConsistent ==
    ASSUME Consistent, NEW v \in venues, NEW entity \in entities \union {Keep},
           NEW parent \in venues \union {Keep},
           NEW cs \in (SUBSET ConfigIds) \union {Keep},
           VenuePut(v, entity, parent, cs), UNCHANGED deviceConfigs
    PROVE  Consistent'
<1> USE HierarchyAssumption DEF Consistent, entityVars, venueVars, deviceVars, tagVars,
        ownerVars, configVars, LiveRowsIssued
<1>1. /\ vEntity' = PutRef(vEntity, v, entity)
      /\ vParent' = PutRef(vParent, v, parent)
      /\ eVenues' = PutCol(vEntity, eVenues, entities, v, entity)
      /\ vChildren' = PutCol(vParent, vChildren, venues, v, parent)
      /\ UNCHANGED <<entityVars, venues, vSubscriber, deviceVars, tagVars,
                     ownerVars, configs, cEntity, cVenue, issued, deviceConfigs>>
  BY DEF VenuePut, PutRef, PutCol
<1>2. PICK new \in SUBSET ConfigIds :
        /\ new = vDeviceConfiguration[v] \/ new \subseteq configs
        /\ vDeviceConfiguration' = [vDeviceConfiguration EXCEPT ![v] = new]
        /\ cInUse' = MoveUsage(cInUse, configs, vDeviceConfiguration[v], new, v)
  BY DEF VenuePut, TypeOK
<1>3. /\ eVenues' \in [EntityIds -> SUBSET VenueIds]
      /\ vEntity' \in [VenueIds -> EntityIds \union {NoId}]
      /\ Placed(vEntity', venues, eVenues', entities, {})
  <2>1. /\ eVenues \in [EntityIds -> SUBSET VenueIds]
        /\ entities \in SUBSET EntityIds
        /\ vEntity \in [VenueIds -> EntityIds \union {NoId}]
        /\ venues \in SUBSET VenueIds
        /\ NoId \notin EntityIds /\ Keep \notin EntityIds /\ NoId # Keep
        /\ v \in venues /\ v \in VenueIds
        /\ entity \in entities \union {NoId, Keep}
    BY DEF TypeOK
  <2>2. Placed(vEntity, venues, eVenues, entities, {})
    BY DEF VenuesPlaced, Placed, PlacedOne
  <2>3. /\ PutCol(vEntity, eVenues, entities, v, entity) \in [EntityIds -> SUBSET VenueIds]
        /\ PutRef(vEntity, v, entity) \in [VenueIds -> EntityIds \union {NoId}]
    BY ONLY <2>1, PutType
  <2>4. Placed(PutRef(vEntity, v, entity), venues,
               PutCol(vEntity, eVenues, entities, v, entity), entities, {})
    BY ONLY <2>1, <2>2, PutKeepsPlaced
  <2>5. QED
    BY ONLY <1>1, <2>3, <2>4
<1>4. /\ vChildren' \in [VenueIds -> SUBSET VenueIds]
      /\ vParent' \in [VenueIds -> VenueIds \union {NoId}]
      /\ Placed(vParent', venues, vChildren', venues, subscriberVenues)
  <2>1. /\ vChildren \in [VenueIds -> SUBSET VenueIds]
        /\ venues \in SUBSET VenueIds
        /\ vParent \in [VenueIds -> VenueIds \union {NoId}]
        /\ venues \in SUBSET VenueIds
        /\ NoId \notin VenueIds /\ Keep \notin VenueIds /\ NoId # Keep
        /\ v \in venues /\ v \in VenueIds
        /\ parent \in venues \union {NoId, Keep}
    BY DEF TypeOK
  <2>2. Placed(vParent, venues, vChildren, venues, subscriberVenues)
    BY DEF VenuesPlaced, Placed, PlacedOne
  <2>3. /\ PutCol(vParent, vChildren, venues, v, parent) \in [VenueIds -> SUBSET VenueIds]
        /\ PutRef(vParent, v, parent) \in [VenueIds -> VenueIds \union {NoId}]
    BY ONLY <2>1, PutType
  <2>4. Placed(PutRef(vParent, v, parent), venues,
               PutCol(vParent, vChildren, venues, v, parent), venues, subscriberVenues)
    BY ONLY <2>1, <2>2, PutKeepsPlaced
  <2>5. QED
    BY ONLY <1>1, <2>3, <2>4
<1>5. TypeOK'
  <2>1. cInUse' \in [ConfigIds -> SUBSET (VenueIds \union TagIds)]
    BY <1>2 DEF TypeOK, MoveUsage
  <2>2. vDeviceConfiguration' \in [VenueIds -> SUBSET ConfigIds]
    BY <1>2 DEF TypeOK
  <2>3. QED
    BY <1>1, <1>3, <1>4, <2>1, <2>2 DEF TypeOK
<1>6. LiveRowsIssued' /\ NamesIssued'
  BY <1>1, <1>2 DEF TypeOK, NamesIssued, subscriberVenues
<1>7. TagsPlaced'
  BY <1>1 DEF TypeOK, TagsPlaced
<1>8. VenuesPlaced'
  <2>1. subscriberVenues' = subscriberVenues
    BY <1>1 DEF subscriberVenues
  <2>2. QED
    BY <1>1, <1>3, <1>4, <2>1 DEF VenuesPlaced, Placed, PlacedOne
<1>9. EntitiesPlaced'
  BY <1>1 DEF TypeOK, EntitiesPlaced
<1>10. ConfigurationsHeld'
  <2>1. \A x \in ConfigIds : \A h \in cInUse[x] : h # v => h \in cInUse'[x]
    BY <1>2 DEF TypeOK, MoveUsage
  <2>2. v \notin tags
    BY DEF TypeOK
  <2>3. \A x \in new : x \in configs => v \in cInUse'[x]
    BY <1>2 DEF TypeOK, ConfigurationsHeld, Held, MoveUsage
  <2>4. \A x \in new \ configs : Held(v, x)
    BY <1>2 DEF ConfigurationsHeld
  <2>5. QED
    BY <1>1, <1>2, <2>1, <2>2, <2>3, <2>4 DEF TypeOK, ConfigurationsHeld, Held
<1>11. QED
  BY <1>5, <1>6, <1>7, <1>8, <1>9, <1>10

LEMMA VenueDeleteConsistent ==
    ASSUME Consistent, NEW v \in venues, VenueDelete(v), UNCHANGED deviceConfigs
    PROVE  Consistent'
<1> USE HierarchyAssumption DEF Consistent, VenueDelete, entityVars, venueVars,
        deviceVars, tagVars, ownerVars, configVars, LiveRowsIssued, Fresh
<1>1. TypeOK'
  BY DEF TypeOK, RemoveMembership, MoveUsage
<1>2. LiveRowsIssued' /\ NamesIssued'
  BY DEF TypeOK, NamesIssued, subscriberVenues, RefSet
<1>3. TagsPlaced'
  BY DEF TypeOK, TagsPlaced
<1>4. VenuesPlaced'
  BY DEF TypeOK, VenuesPlaced, subscriberVenues, RemoveMembership
<1>5. EntitiesPlaced'
  BY DEF TypeOK, EntitiesPlaced
<1>6. ConfigurationsHeld'
  BY DEF TypeOK, ConfigurationsHeld, Held, MoveUsage
<1>7. QED
  BY <1>1, <1>2, <1>3, <1>4, <1>5, <1>6

LEMMA SubscriberDeleteConsistent ==
    ASSUME Consistent, NEW s \in Subscribers, NEW gone \in SUBSET venues,
           SubscriberDelete(s, gone), UNCHANGED deviceConfigs
    PROVE  Consistent'
<1> USE HierarchyAssumption DEF Consistent, entityVars, deviceVars, tagVars, configVars,
        LiveRowsIssued
<1>1. /\ gone \subseteq subscriberVenues
      /\ \A v \in gone : vDevices[v] = {}
      /\ eVenues' = [e \in EntityIds |->
                        IF e \in entities THEN eVenues[e] \ {v \in gone : vEntity[v] = e}
                        ELSE eVenues[e]]
      /\ venues' = venues \ gone
      /\ vEntity' = [v \in VenueIds |-> IF v \in gone THEN NoId ELSE vEntity[v]]
      /\ vParent' = [v \in VenueIds |-> IF v \in gone THEN NoId ELSE vParent[v]]
      /\ vChildren' = [v \in VenueIds |-> IF v \in gone THEN {} ELSE vChildren[v]]
      /\ vDeviceConfiguration' = [v \in VenueIds |->
                        IF v \in gone THEN {} ELSE vDeviceConfiguration[v]]
      /\ vConfigurations' = [v \in VenueIds |->
                        IF v \in gone THEN {} ELSE vConfigurations[v]]
      /\ UNCHANGED <<entityVars, vSubscriber, deviceVars, tagVars, eConfigurations,
                     configVars, issued>>
  BY DEF SubscriberDelete, subscriberVenues, TypeOK
<1>2. subscriberVenues' = subscriberVenues
  BY <1>1 DEF subscriberVenues
<1>3. TypeOK'
  BY <1>1 DEF TypeOK
<1>4. LiveRowsIssued' /\ NamesIssued'
  BY <1>1, <1>2 DEF TypeOK, NamesIssued
<1>5. TagsPlaced'
  BY <1>1 DEF TypeOK, TagsPlaced
<1>6. VenuesPlaced'
  BY <1>1, <1>2 DEF TypeOK, VenuesPlaced
<1>7. EntitiesPlaced'
  BY <1>1 DEF TypeOK, EntitiesPlaced
<1>8. ConfigurationsHeld'
  BY <1>1 DEF TypeOK, ConfigurationsHeld, Held
<1>9. QED
  BY <1>3, <1>4, <1>5, <1>6, <1>7, <1>8

LEMMA VenuePostConsistent ==
    ASSUME Consistent,
           NEW v \in VenueIds, NEW parent \in venues \union {NoId},
           NEW entity \in entities \union {NoId}, NEW ds \in SUBSET TagIds,
           NEW cs \in SUBSET ConfigIds, NEW s \in Subscribers \union {NoId}, NEW ok \in BOOLEAN,
           VenuePost(v, parent, entity, ds, cs, s, ok), UNCHANGED deviceConfigs
    PROVE  Consistent'
<1> DEFINE owner == IF parent = NoId THEN entity ELSE vEntity[parent]
<1> USE HierarchyAssumption DEF Consistent, entityVars, venueVars, deviceVars,
        tagVars, ownerVars, configVars, Fresh, LiveRowsIssued
<1>1. /\ v \notin issued
      /\ owner \in entities \union {NoId}
      /\ issued' = issued \union {v}
      /\ cs \subseteq configs
      /\ cInUse' = MoveUsage(cInUse, configs, {}, cs, v)
      /\ eVenues' = AddMembership(eVenues, entities, owner, v)
      /\ vChildren' = AddMembership(vChildren, venues, parent, v)
      /\ UNCHANGED <<entityVars, eDevices, tagVars, ownerVars, configs, cEntity, cVenue>>
  BY DEF VenuePost
<1>2. \/ /\ venues' = venues \union {v}
         /\ vEntity' = [vEntity EXCEPT ![v] = owner]
         /\ vParent' = [vParent EXCEPT ![v] = parent]
         /\ vDevices' = [vDevices EXCEPT ![v] = ds]
         /\ vDeviceConfiguration' = [vDeviceConfiguration EXCEPT ![v] = cs]
         /\ vSubscriber' = [vSubscriber EXCEPT ![v] = s]
      \/ UNCHANGED <<venues, vEntity, vParent, vDevices, vDeviceConfiguration,
                     vSubscriber>>
  BY DEF VenuePost
<1> HIDE DEF owner
<1>3. TypeOK'
  <2>1. cInUse' \in [ConfigIds -> SUBSET (VenueIds \union TagIds)]
    BY <1>1 DEF TypeOK, MoveUsage
  <2>2. eVenues' \in [EntityIds -> SUBSET VenueIds]
    BY <1>1 DEF TypeOK, AddMembership
  <2>3. vChildren' \in [VenueIds -> SUBSET VenueIds]
    BY <1>1 DEF TypeOK, AddMembership
  <2>4. issued' \in SUBSET Ids
    BY <1>1 DEF TypeOK, Ids
  <2>5. /\ venues' \in SUBSET VenueIds
        /\ vEntity' \in [VenueIds -> EntityIds \union {NoId}]
        /\ vParent' \in [VenueIds -> VenueIds \union {NoId}]
        /\ vDevices' \in [VenueIds -> SUBSET TagIds]
        /\ vDeviceConfiguration' \in [VenueIds -> SUBSET ConfigIds]
        /\ vSubscriber' \in [VenueIds -> Subscribers \union {NoId}]
    <3>1. /\ venues \in SUBSET VenueIds
          /\ vEntity \in [VenueIds -> EntityIds \union {NoId}]
          /\ vParent \in [VenueIds -> VenueIds \union {NoId}]
          /\ vDevices \in [VenueIds -> SUBSET TagIds]
          /\ vDeviceConfiguration \in [VenueIds -> SUBSET ConfigIds]
          /\ vSubscriber \in [VenueIds -> Subscribers \union {NoId}]
          /\ owner \in EntityIds \union {NoId}
          /\ parent \in VenueIds \union {NoId}
      BY <1>1 DEF TypeOK
    <3>2. QED
      BY ONLY <1>2, <3>1, v \in VenueIds, ds \in SUBSET TagIds, cs \in SUBSET ConfigIds,
         s \in Subscribers \union {NoId}
  <2>6. QED
    BY <1>1, <2>1, <2>2, <2>3, <2>4, <2>5 DEF TypeOK, Ids
<1>n. \A w \in VenueIds : w # v => vSubscriber'[w] = vSubscriber[w]
  BY <1>2 DEF TypeOK
<1>4. LiveRowsIssued' /\ NamesIssued'
  <2>1. subscriberVenues' \subseteq subscriberVenues \union {v}
    BY <1>n DEF subscriberVenues
  <2>2. QED
    BY <1>1, <1>2, <2>1 DEF TypeOK, NamesIssued
<1>5. TagsPlaced'
  <2>1. \A w \in venues : w # v /\ vDevices'[w] = vDevices[w] /\ w \in venues'
    BY <1>1, <1>2 DEF TypeOK
  <2>2. QED
    BY <1>1, <2>1 DEF TagsPlaced
<1>6. VenuesPlaced'
  <2>1. \A w \in venues : v # w
    BY <1>1
  <2>2. \A e \in EntityIds : eVenues[e] \subseteq eVenues'[e]
    BY <1>1 DEF TypeOK, AddMembership
  <2>3. \A w \in VenueIds : vChildren[w] \subseteq vChildren'[w]
    BY <1>1 DEF TypeOK, AddMembership
  <2>4. owner \in entities => v \in eVenues'[owner]
    BY <1>1 DEF TypeOK, AddMembership
  <2>5. parent \in venues => v \in vChildren'[parent]
    BY <1>1 DEF TypeOK, AddMembership
  <2>6. subscriberVenues \subseteq subscriberVenues'
    BY <1>1, <1>n DEF NamesIssued, subscriberVenues
  <2>7. v \notin subscriberVenues
    BY <1>1 DEF NamesIssued
  <2>8. \A w \in venues : vParent[w] # v
    BY <1>1, <2>7 DEF VenuesPlaced, TypeOK
  <2>9. QED
    BY <1>1, <1>2, <2>1, <2>2, <2>3, <2>4, <2>5, <2>6, <2>8 DEF TypeOK, VenuesPlaced
<1>7. EntitiesPlaced'
  BY <1>1 DEF TypeOK, EntitiesPlaced
<1>8. ConfigurationsHeld'
  <2>1. \A c \in ConfigIds : cInUse[c] \subseteq cInUse'[c]
    BY <1>1 DEF TypeOK, MoveUsage
  <2>2. \A c \in cs : v \in cInUse'[c]
    BY <1>1 DEF TypeOK, MoveUsage
  <2>3. \A t \in tags : tConfiguration[t] # NoId => Held(t, tConfiguration[t])
    BY DEF ConfigurationsHeld
  <2>4. \A w \in venues : \A c \in vDeviceConfiguration[w] : c \in ConfigIds /\ Held(w, c)
    BY DEF ConfigurationsHeld, TypeOK
  <2>5. /\ configs' = configs /\ deviceConfigs' = deviceConfigs /\ tags' = tags
        /\ tConfiguration' = tConfiguration
        /\ \A t \in tags : tConfiguration[t] \in ConfigIds \union {NoId}
    BY <1>1 DEF TypeOK
  <2>6. \A w \in venues' : \/ w \in venues /\ vDeviceConfiguration'[w] = vDeviceConfiguration[w]
                           \/ w = v /\ vDeviceConfiguration'[w] = cs
    BY <1>1, <1>2 DEF TypeOK
  <2>7. \A t \in tags' : tConfiguration'[t] # NoId => Held(t, tConfiguration[t])'
    BY <2>1, <2>3, <2>5 DEF Held
  <2>8. \A w \in venues' : \A c \in vDeviceConfiguration'[w] :
           IF c \in configs' THEN w \in cInUse'[c]
           ELSE c \in SubscriberOnly \union deviceConfigs'
    BY <1>1, <2>1, <2>2, <2>4, <2>5, <2>6 DEF Held
  <2>9. QED
    BY <2>7, <2>8 DEF ConfigurationsHeld, Held
<1>9. QED
  BY <1>3, <1>4, <1>5, <1>6, <1>7, <1>8

(***************************************************************************)
(* What a request that stores the configuration c into a tag has done to   *)
(* the configurations by then: it may have created c, which was named      *)
(* nowhere, and deleted some that a subscriber device has named.           *)
(***************************************************************************)
ConfigsWritten(c) ==
    /\ configs' \in SUBSET ConfigIds
    /\ configs' \subseteq configs \union RefSet(c)
    /\ \A x \in configs' \ configs : x \notin issued
    /\ configs \ configs' \subseteq deviceConfigs'
    /\ deviceConfigs' \in SUBSET ConfigIds
    /\ deviceConfigs \subseteq deviceConfigs'
    /\ deviceConfigs' \subseteq deviceConfigs \union RefSet(c)
    /\ c \in ConfigIds => c \in configs' \union deviceConfigs
    /\ cEntity' \in [ConfigIds -> EntityIds \union {NoId}]
    /\ cVenue' \in [ConfigIds -> VenueIds \union {NoId}]

LEMMA CreateObjectsFact ==
    ASSUME TypeOK,
           NEW c \in ConfigIds \union {NoId, Keep},
           c \in configs \union deviceConfigs \union {NoId, Keep} \/ Inline(c),
           NEW oe \in EntityIds \union {NoId}, NEW ov \in VenueIds \union {NoId},
           CreateObjects(c, oe, ov),
           \/ deviceConfigs' = deviceConfigs
           \/ c # Keep /\ deviceConfigs' = deviceConfigs \union RefSet(c)
    PROVE  ConfigsWritten(c)
<1> USE HierarchyAssumption DEF ConfigsWritten, RefSet
<1>1. CASE Inline(c)
  <2>1. /\ c \in ConfigIds /\ c \notin issued
        /\ configs' = configs \union {c}
        /\ cEntity' = [cEntity EXCEPT ![c] = oe]
        /\ cVenue' = [cVenue EXCEPT ![c] = ov]
    BY <1>1 DEF CreateObjects, Inline, Fresh
  <2>2. /\ cEntity' \in [ConfigIds -> EntityIds \union {NoId}]
        /\ cVenue' \in [ConfigIds -> VenueIds \union {NoId}]
    BY <2>1 DEF TypeOK
  <2>3. QED
    BY <2>1, <2>2 DEF TypeOK
<1>2. CASE ~Inline(c)
  BY <1>2 DEF CreateObjects, TypeOK
<1>3. QED
  BY <1>1, <1>2

\* Held, after the step.
HeldAfter(holder, c) ==
    IF c \in configs' THEN holder \in cInUse'[c]
    ELSE c \in SubscriberOnly \union deviceConfigs'

\* A holder that is not touched, and whose configuration's list only grows, holds on.
LEMMA StillHeld ==
    ASSUME Consistent, NEW c \in ConfigIds \union {NoId, Keep}, ConfigsWritten(c),
           NEW h, NEW x \in ConfigIds, Held(h, x), x \in issued,
           h \in cInUse[x] => h \in cInUse'[x]
    PROVE  HeldAfter(h, x)
BY DEF Consistent, LiveRowsIssued, ConfigsWritten, Held, HeldAfter

\* Storing a new tag keeps the invariant, wherever its references come from.
LEMMA NewTagConsistent ==
    ASSUME Consistent,
           NEW t \in TagIds, t \notin issued,
           NEW entity \in entities \union {NoId}, NEW venue \in venues \union {NoId},
           NEW c \in ConfigIds \union {NoId}, ConfigsWritten(c),
           NEW s \in Subscribers \union {NoId},
           NewTag(t, entity, venue, c, s)
    PROVE  Consistent'
<1> USE HierarchyAssumption DEF Consistent, NewTag, entityVars, venueVars,
        ownerVars, LiveRowsIssued
<1>w. ConfigsWritten(c)
  OBVIOUS
<1>1. TypeOK'
  <2>1. eDevices' \in [EntityIds -> SUBSET TagIds]
    BY DEF TypeOK, AddMembership
  <2>2. vDevices' \in [VenueIds -> SUBSET TagIds]
    BY DEF TypeOK, AddMembership
  <2>3. cInUse' \in [ConfigIds -> SUBSET (VenueIds \union TagIds)]
    BY DEF TypeOK, MoveUsage
  <2>4. issued' \in SUBSET Ids
    BY DEF TypeOK, Ids, RefSet
  <2>5. /\ tags' \in SUBSET TagIds
        /\ tEntity' \in [TagIds -> EntityIds \union {NoId}]
        /\ tVenue' \in [TagIds -> VenueIds \union {NoId}]
        /\ tConfiguration' \in [TagIds -> ConfigIds \union {NoId}]
        /\ tSubscriber' \in [TagIds -> Subscribers \union {NoId}]
    BY DEF TypeOK
  <2>6. QED
    BY <2>1, <2>2, <2>3, <2>4, <2>5 DEF TypeOK, Ids, ConfigsWritten
<1>2. LiveRowsIssued' /\ NamesIssued'
  BY DEF ConfigsWritten, TypeOK, NamesIssued, subscriberVenues
<1>3. TagsPlaced'
  BY DEF TypeOK, TagsPlaced, AddMembership
<1>4. VenuesPlaced'
  BY DEF TypeOK, VenuesPlaced, subscriberVenues
<1>5. EntitiesPlaced'
  BY DEF TypeOK, EntitiesPlaced
<1>6. ConfigurationsHeld'
  <2>1. \A x \in ConfigIds : cInUse[x] \subseteq cInUse'[x]
    BY DEF TypeOK, MoveUsage
  <2>2. c \in ConfigIds => HeldAfter(t, c)
    BY DEF TypeOK, MoveUsage, RefSet, HeldAfter, ConfigsWritten
  <2>3. ASSUME NEW u \in tags, tConfiguration[u] # NoId PROVE HeldAfter(u, tConfiguration[u])
    <3>1. tConfiguration[u] \in issued \intersect ConfigIds
      BY <2>3 DEF TypeOK, NamesIssued, RefSet
    <3>2. Held(u, tConfiguration[u]) /\ tConfiguration'[u] = tConfiguration[u]
      BY <2>3 DEF TypeOK, ConfigurationsHeld
    <3>3. QED
      BY ONLY Consistent, c \in ConfigIds \union {NoId}, <1>w, <2>1, <3>1, <3>2, StillHeld
  <2>4. ASSUME NEW v \in venues, NEW x \in vDeviceConfiguration[v] PROVE HeldAfter(v, x)
    <3>1. x \in issued \intersect ConfigIds /\ Held(v, x)
      BY <2>4 DEF TypeOK, NamesIssued, ConfigurationsHeld
    <3>2. QED
      BY ONLY Consistent, c \in ConfigIds \union {NoId}, <1>w, <2>1, <3>1, StillHeld
  <2>5. \A u \in tags' : u # t =>
           u \in tags /\ tConfiguration'[u] = tConfiguration[u]
    BY DEF TypeOK
  <2>6. tConfiguration'[t] = c
    BY DEF TypeOK
  <2>7. ASSUME NEW u \in tags', tConfiguration'[u] # NoId
        PROVE  HeldAfter(u, tConfiguration'[u])
    BY <2>2, <2>3, <2>5, <2>6, <2>7 DEF Held, HeldAfter
  <2>8. QED
    BY <2>4, <2>7 DEF ConfigurationsHeld, Held, HeldAfter
<1>7. QED
  BY <1>1, <1>2, <1>3, <1>4, <1>5, <1>6

LEMMA InventoryPostConsistent ==
    ASSUME Consistent,
           NEW t \in TagIds, NEW entity \in entities \union {NoId},
           NEW venue \in venues \union {NoId}, NEW c \in ConfigIds \union {NoId},
           NEW s \in Subscribers \union {NoId},
           NEW oe \in EntityIds \union {NoId}, NEW ov \in VenueIds \union {NoId},
           InventoryPost(t, entity, venue, c, oe, ov, s), UNCHANGED deviceConfigs
    PROVE  Consistent'
<1>1. CreateObjects(c, oe, ov) /\ (c \in configs \union {NoId, Keep} \/ Inline(c))
  BY DEF InventoryPost
<1>2. t \notin issued /\ NewTag(t, entity, venue, c, s)
  BY DEF InventoryPost, Fresh
<1>3. ConfigsWritten(c)
  BY <1>1, CreateObjectsFact DEF Consistent
<1>4. QED
  BY <1>2, <1>3, NewTagConsistent

LEMMA DeviceDiscoveredConsistent ==
    ASSUME Consistent, NEW t \in TagIds, NEW entity \in entities \union {NoId},
           NEW venue \in venues \union {NoId}, DeviceDiscovered(t, entity, venue),
           UNCHANGED deviceConfigs
    PROVE  Consistent'
<1>1. t \notin issued /\ NewTag(t, entity, venue, NoId, NoId)
  BY DEF DeviceDiscovered, Fresh
<1>2. ConfigsWritten(NoId)
  BY HierarchyAssumption DEF DeviceDiscovered, Consistent, TypeOK, ConfigsWritten, RefSet
<1>3. QED
  BY <1>1, <1>2, NewTagConsistent

\* Rewriting a tag keeps it too.
LEMMA WriteTagConsistent ==
    ASSUME Consistent,
           NEW t \in tags, NEW entity \in entities \union {NoId, Keep},
           NEW venue \in venues \union {NoId, Keep},
           NEW c \in ConfigIds \union {NoId, Keep}, ConfigsWritten(c),
           NEW s \in Subscribers \union {NoId, Keep},
           WriteTag(t, entity, venue, c, s)
    PROVE  Consistent'
<1> USE HierarchyAssumption DEF Consistent, entityVars, venueVars, ownerVars,
        LiveRowsIssued
<1>2. ConfigsWritten(c)
  OBVIOUS
<1>3. /\ tEntity' = PutRef(tEntity, t, entity)
      /\ tVenue' = PutRef(tVenue, t, venue)
      /\ eDevices' = PutCol(tEntity, eDevices, entities, t, entity)
      /\ vDevices' = PutCol(tVenue, vDevices, venues, t, venue)
      /\ tConfiguration' = [tConfiguration EXCEPT ![t] = Assigned(@, c)]
      /\ tSubscriber' = [tSubscriber EXCEPT ![t] = Assigned(@, s)]
      /\ issued' = issued \union configs'
      /\ cInUse' = MoveUsage(cInUse, configs', RefSet(From(tConfiguration[t], c)),
                             RefSet(To(c)), t)
      /\ UNCHANGED <<tags, entityVars, venueVars, ownerVars>>
  BY DEF WriteTag, PutRef, PutCol
<1>4a. /\ eDevices' \in [EntityIds -> SUBSET TagIds]
      /\ tEntity' \in [TagIds -> EntityIds \union {NoId}]
      /\ Placed(tEntity', tags, eDevices', entities, {})
  <2>1. /\ eDevices \in [EntityIds -> SUBSET TagIds]
        /\ entities \in SUBSET EntityIds
        /\ tEntity \in [TagIds -> EntityIds \union {NoId}]
        /\ tags \in SUBSET TagIds
        /\ NoId \notin EntityIds /\ Keep \notin EntityIds /\ NoId # Keep
        /\ t \in tags /\ t \in TagIds
        /\ entity \in entities \union {NoId, Keep}
    BY DEF TypeOK
  <2>2. Placed(tEntity, tags, eDevices, entities, {})
    BY DEF TagsPlaced, Placed, PlacedOne
  <2>3. /\ PutCol(tEntity, eDevices, entities, t, entity) \in [EntityIds -> SUBSET TagIds]
        /\ PutRef(tEntity, t, entity) \in [TagIds -> EntityIds \union {NoId}]
    BY ONLY <2>1, PutType
  <2>4. Placed(PutRef(tEntity, t, entity), tags,
               PutCol(tEntity, eDevices, entities, t, entity), entities, {})
    BY ONLY <2>1, <2>2, PutKeepsPlaced
  <2>5. QED
    BY ONLY <1>3, <2>3, <2>4
<1>4b. /\ vDevices' \in [VenueIds -> SUBSET TagIds]
      /\ tVenue' \in [TagIds -> VenueIds \union {NoId}]
      /\ Placed(tVenue', tags, vDevices', venues, {})
  <2>1. /\ vDevices \in [VenueIds -> SUBSET TagIds]
        /\ venues \in SUBSET VenueIds
        /\ tVenue \in [TagIds -> VenueIds \union {NoId}]
        /\ tags \in SUBSET TagIds
        /\ NoId \notin VenueIds /\ Keep \notin VenueIds /\ NoId # Keep
        /\ t \in tags /\ t \in TagIds
        /\ venue \in venues \union {NoId, Keep}
    BY DEF TypeOK
  <2>2. Placed(tVenue, tags, vDevices, venues, {})
    BY DEF TagsPlaced, Placed, PlacedOne
  <2>3. /\ PutCol(tVenue, vDevices, venues, t, venue) \in [VenueIds -> SUBSET TagIds]
        /\ PutRef(tVenue, t, venue) \in [TagIds -> VenueIds \union {NoId}]
    BY ONLY <2>1, PutType
  <2>4. Placed(PutRef(tVenue, t, venue), tags,
               PutCol(tVenue, vDevices, venues, t, venue), venues, {})
    BY ONLY <2>1, <2>2, PutKeepsPlaced
  <2>5. QED
    BY ONLY <1>3, <2>3, <2>4
<1>4. TypeOK'
  <2>3. cInUse' \in [ConfigIds -> SUBSET (VenueIds \union TagIds)]
    BY <1>2, <1>3 DEF TypeOK, MoveUsage, ConfigsWritten
  <2>4. issued' \in SUBSET Ids
    BY <1>2, <1>3 DEF TypeOK, Ids, ConfigsWritten
  <2>7. tConfiguration' \in [TagIds -> ConfigIds \union {NoId}]
    BY <1>3 DEF TypeOK, Assigned
  <2>8. tSubscriber' \in [TagIds -> Subscribers \union {NoId}]
    BY <1>3 DEF TypeOK, Assigned
  <2>9. QED
    BY <1>2, <1>3, <1>4a, <1>4b, <2>3, <2>4, <2>7, <2>8 DEF TypeOK, Ids, ConfigsWritten
<1>5. LiveRowsIssued' /\ NamesIssued'
  BY <1>2, <1>3 DEF TypeOK, NamesIssued, subscriberVenues, ConfigsWritten, RefSet, Assigned
<1>6. TagsPlaced'
  BY <1>3, <1>4a, <1>4b DEF TagsPlaced, Placed, PlacedOne
<1>7. VenuesPlaced'
  BY <1>3 DEF TypeOK, VenuesPlaced, subscriberVenues
<1>8. EntitiesPlaced'
  BY <1>3 DEF TypeOK, EntitiesPlaced
<1>9. ConfigurationsHeld'
  <2>1. \A x \in ConfigIds : \A h \in cInUse[x] : h # t => h \in cInUse'[x]
    BY <1>3 DEF TypeOK, MoveUsage
  <2>2. t \notin venues
    BY DEF TypeOK
  <2>3. c \in ConfigIds => HeldAfter(t, c)
    <3>1. CASE c # tConfiguration[t] /\ c \in configs'
      <4>1. To(c) = c /\ From(tConfiguration[t], c) \in {NoId, tConfiguration[t]}
        BY <3>1 DEF From, To, ConfigsWritten, TypeOK
      <4>2. RefSet(c) = {c} /\ RefSet(From(tConfiguration[t], c)) # {c}
        BY <3>1, <4>1, <1>2 DEF RefSet, ConfigsWritten
      <4>3. t \in cInUse'[c]
        BY <1>2, <1>3, <3>1, <4>1, <4>2 DEF TypeOK, MoveUsage, ConfigsWritten
      <4> QED
        BY <3>1, <4>3 DEF Held, HeldAfter
    <3>2. CASE c \in ConfigIds \ configs'
      BY <1>2, <3>2 DEF ConfigsWritten, Held, HeldAfter
    <3>3. CASE c = tConfiguration[t] /\ c \in ConfigIds
      <4>1. Held(t, c) /\ c \in issued
        BY <3>3 DEF ConfigurationsHeld, NamesIssued, RefSet
      <4>2. From(tConfiguration[t], c) = To(c)
        BY <3>3 DEF From, To
      <4>3. cInUse'[c] = cInUse[c]
        BY <1>3, <3>3, <4>2 DEF MoveUsage, TypeOK
      <4>4. QED
        BY ONLY Consistent, c \in ConfigIds \union {NoId, Keep}, <1>2, <3>3, <4>1, <4>3,
           StillHeld
    <3>4. QED
      BY <3>1, <3>2, <3>3
  <2>4. ASSUME c = Keep, tConfiguration[t] # NoId PROVE HeldAfter(t, tConfiguration[t])
    <3>1. Held(t, tConfiguration[t]) /\ tConfiguration[t] \in issued \intersect ConfigIds
      BY <2>4 DEF ConfigurationsHeld, NamesIssued, RefSet, TypeOK
    <3>2. From(tConfiguration[t], c) = To(c)
      BY <2>4 DEF From, To
    <3>3. \A x \in ConfigIds : cInUse'[x] = cInUse[x]
      BY <1>3, <3>2 DEF MoveUsage, TypeOK
    <3>4. tConfiguration'[t] = tConfiguration[t]
      BY <1>3, <2>4 DEF Assigned, TypeOK
    <3>5. QED
      BY ONLY Consistent, c \in ConfigIds \union {NoId, Keep}, <1>2, <3>1, <3>3, <3>4,
         StillHeld
  <2>5. ASSUME NEW u \in tags \ {t}, tConfiguration[u] # NoId
        PROVE  HeldAfter(u, tConfiguration[u])
    <3>1. Held(u, tConfiguration[u]) /\ tConfiguration[u] \in issued \intersect ConfigIds
      BY <2>5 DEF ConfigurationsHeld, NamesIssued, RefSet, TypeOK
    <3>2. tConfiguration'[u] = tConfiguration[u]
      BY <1>3, <2>5 DEF TypeOK
    <3>3. QED
      BY ONLY Consistent, c \in ConfigIds \union {NoId, Keep}, u \in tags \ {t}, <1>2, <2>1,
         <3>1, <3>2, StillHeld
  <2>6. ASSUME NEW v \in venues, NEW x \in vDeviceConfiguration[v] PROVE HeldAfter(v, x)
    <3>1. x \in issued \intersect ConfigIds /\ Held(v, x)
      BY <2>6 DEF TypeOK, NamesIssued, ConfigurationsHeld
    <3>2. v # t
      BY <2>2
    <3>3. QED
      BY ONLY Consistent, c \in ConfigIds \union {NoId, Keep}, <1>2, <2>1, <3>1, <3>2,
         StillHeld
  <2>7. /\ tConfiguration'[t] = (IF c = Keep THEN tConfiguration[t] ELSE c)
        /\ \A u \in tags \ {t} : tConfiguration'[u] = tConfiguration[u]
        /\ tags' = tags /\ venues' = venues
        /\ vDeviceConfiguration' = vDeviceConfiguration
    BY <1>3 DEF Assigned, TypeOK
  <2>8. \A u \in tags : tConfiguration'[u] # NoId =>
           HeldAfter(u, tConfiguration'[u])
    BY <2>3, <2>4, <2>5, <2>7 DEF Held, HeldAfter
  <2>9. QED
    BY <2>6, <2>7, <2>8 DEF ConfigurationsHeld, Held, HeldAfter
<1>10. QED
  BY <1>4, <1>5, <1>6, <1>7, <1>8, <1>9

LEMMA InventoryPutConsistent ==
    ASSUME Consistent,
           NEW t \in tags, NEW entity \in entities \union {NoId, Keep},
           NEW venue \in venues \union {NoId, Keep},
           NEW c \in ConfigIds \union {NoId, Keep},
           NEW s \in Subscribers \union {NoId, Keep},
           NEW oe \in EntityIds \union {NoId}, NEW ov \in VenueIds \union {NoId},
           InventoryPut(t, entity, venue, c, oe, ov, s), UNCHANGED deviceConfigs
    PROVE  Consistent'
<1>1. CreateObjects(c, oe, ov) /\ (c \in configs \union {NoId, Keep} \/ Inline(c))
  BY DEF InventoryPut, MoveAllowed
<1>2. ConfigsWritten(c)
  BY <1>1, CreateObjectsFact DEF Consistent
<1>3. WriteTag(t, entity, venue, c, s)
  BY DEF InventoryPut
<1>4. QED
  BY <1>2, <1>3, WriteTagConsistent

\* A subscriber device's tag is created or rewritten.
LEMMA CreateInventoryRecordConsistent ==
    ASSUME Consistent, NEW t \in TagIds, NEW c \in ConfigIds \union {NoId},
           NEW s \in Subscribers \union {NoId}, NEW venue \in venues \union {NoId},
           ConfigsWritten(c), CreateInventoryRecord(t, c, s, venue)
    PROVE  Consistent'
<1>1. CASE Fresh(t) /\ NewTag(t, NoId, venue, c, s)
  BY <1>1, NewTagConsistent DEF Fresh
<1>2. CASE WriteTag(t, Keep, IF venue = NoId THEN Keep ELSE venue, c, s)
  <2>1. t \in tags
    BY <1>2 DEF WriteTag
  <2>2. QED
    BY <1>2, <2>1, WriteTagConsistent
<1>3. QED
  BY <1>1, <1>2 DEF CreateInventoryRecord

LEMMA DeviceStoreConsistent ==
    ASSUME Consistent, NEW t \in TagIds, NEW c \in ConfigIds \union {NoId},
           NEW s \in Subscribers \union {NoId}, NEW venue \in venues \union {NoId},
           DeviceStore(t, c, s, venue)
    PROVE  Consistent'
<1>1. ConfigsWritten(c)
  BY HierarchyAssumption, CreateObjectsFact DEF DeviceStore, Consistent
<1>2. QED
  BY <1>1, CreateInventoryRecordConsistent DEF DeviceStore

LEMMA DeviceClearConsistent ==
    ASSUME Consistent, NEW t \in TagIds, NEW old \in deviceConfigs,
           NEW s \in Subscribers \union {NoId}, NEW venue \in venues \union {NoId},
           DeviceClear(t, old, s, venue)
    PROVE  Consistent'
<1>1. ConfigsWritten(NoId)
  BY HierarchyAssumption
     DEF DeviceClear, Consistent, TypeOK, ConfigsWritten, RefSet
<1>2. QED
  BY <1>1, CreateInventoryRecordConsistent DEF DeviceClear

\* Configurations go, and only member leaves their lists.
LEMMA CleanupFact ==
    ASSUME Consistent, NEW gone \in SUBSET ConfigIds, NEW member,
           CleanupConfigurations(gone, member)
    PROVE  /\ configs' \in SUBSET ConfigIds /\ configs' \subseteq configs
           /\ deviceConfigs' \in SUBSET ConfigIds
           /\ deviceConfigs' = deviceConfigs \union gone
           /\ cInUse' \in [ConfigIds -> SUBSET (VenueIds \union TagIds)]
           /\ cEntity' \in [ConfigIds -> EntityIds \union {NoId}]
           /\ cVenue' \in [ConfigIds -> VenueIds \union {NoId}]
           /\ \A x \in ConfigIds : \A h : h # member /\ Held(h, x) => HeldAfter(h, x)
<1> USE DEF Consistent, TypeOK, CleanupConfigurations, MoveUsage
<1>1. /\ configs' \in SUBSET ConfigIds /\ configs' \subseteq configs
      /\ deviceConfigs' \in SUBSET ConfigIds
      /\ deviceConfigs' = deviceConfigs \union gone
  OBVIOUS
<1>2. /\ cInUse' \in [ConfigIds -> SUBSET (VenueIds \union TagIds)]
      /\ cEntity' \in [ConfigIds -> EntityIds \union {NoId}]
      /\ cVenue' \in [ConfigIds -> VenueIds \union {NoId}]
  OBVIOUS
<1>3. ASSUME NEW x \in ConfigIds, NEW h, h # member, Held(h, x) PROVE HeldAfter(h, x)
  BY <1>3 DEF Held, HeldAfter
<1>4. QED
  BY <1>1, <1>2, <1>3

LEMMA DeviceDeleteConsistent ==
    ASSUME Consistent, NEW t \in tags, NEW c \in deviceConfigs \union {NoId},
           DeviceDelete(t, c)
    PROVE  Consistent'
<1> DEFINE gone == RefSet(c) \union RefSet(tConfiguration[t])
<1> USE HierarchyAssumption DEF Consistent, DeviceDelete, entityVars, venueVars,
        ownerVars, LiveRowsIssued
<1>1. gone \in SUBSET ConfigIds /\ gone \subseteq issued
  BY DEF TypeOK, RefSet, NamesIssued
<1>2. CleanupConfigurations(gone, t)
  OBVIOUS
<1> HIDE DEF gone
<1>3. /\ configs' \in SUBSET ConfigIds /\ configs' \subseteq configs
      /\ deviceConfigs' \in SUBSET ConfigIds
      /\ deviceConfigs' = deviceConfigs \union gone
      /\ cInUse' \in [ConfigIds -> SUBSET (VenueIds \union TagIds)]
      /\ cEntity' \in [ConfigIds -> EntityIds \union {NoId}]
      /\ cVenue' \in [ConfigIds -> VenueIds \union {NoId}]
      /\ \A x \in ConfigIds : \A h : h # t /\ Held(h, x) => HeldAfter(h, x)
  BY <1>1, <1>2, CleanupFact
<1>4. /\ eDevices' \in [EntityIds -> SUBSET TagIds]
      /\ vDevices' \in [VenueIds -> SUBSET TagIds]
  BY ManageMembershipType DEF TypeOK
<1>5. TypeOK'
  BY <1>3, <1>4 DEF TypeOK
<1>6. LiveRowsIssued' /\ NamesIssued'
  BY <1>1, <1>3 DEF TypeOK, NamesIssued, subscriberVenues
<1>7. TagsPlaced'
  <2>0. /\ eDevices \in [EntityIds -> SUBSET TagIds] /\ vDevices \in [VenueIds -> SUBSET TagIds]
        /\ t \in TagIds
        /\ eDevices' = ManageMembership(eDevices, entities, tEntity[t], NoId, t)
        /\ vDevices' = ManageMembership(vDevices, venues, tVenue[t], NoId, t)
    BY DEF TypeOK
  <2>1. \A x \in EntityIds : \A u \in eDevices[x] : u # t => u \in eDevices'[x]
    BY ONLY <2>0, ManageMembershipOthers
  <2>1a. \A x \in VenueIds : \A u \in vDevices[x] : u # t => u \in vDevices'[x]
    BY ONLY <2>0, ManageMembershipOthers
  <2>2. \A u \in tags' : /\ u \in tags /\ u # t
                          /\ tVenue'[u] = tVenue[u] /\ tEntity'[u] = tEntity[u]
    BY DEF TypeOK
  <2>3. /\ \A u \in tags : tVenue[u] \in VenueIds \union {NoId}
        /\ \A u \in tags : tEntity[u] \in EntityIds \union {NoId}
        /\ venues' = venues /\ entities' = entities
    BY DEF TypeOK
  <2>4. TagsPlaced
    OBVIOUS
  <2>5. \A u \in tags' : tVenue'[u] # NoId =>
           tVenue'[u] \in venues /\ u \in vDevices'[tVenue'[u]]
    BY ONLY <2>1a, <2>2, <2>3, <2>4 DEF TagsPlaced
  <2>6. \A u \in tags' : tEntity'[u] # NoId =>
           tEntity'[u] \in entities /\ u \in eDevices'[tEntity'[u]]
    BY ONLY <2>1, <2>2, <2>3, <2>4 DEF TagsPlaced
  <2>7. QED
    BY ONLY <2>3, <2>5, <2>6 DEF TagsPlaced
<1>8. VenuesPlaced'
  BY DEF TypeOK, VenuesPlaced, subscriberVenues
<1>9. EntitiesPlaced'
  BY DEF TypeOK, EntitiesPlaced
<1>10. ConfigurationsHeld'
  <2>1. \A u \in tags' : u \in tags /\ u # t /\ tConfiguration'[u] = tConfiguration[u]
    BY DEF TypeOK
  <2>2. t \notin venues
    BY DEF TypeOK
  <2>3. ASSUME NEW u \in tags', tConfiguration'[u] # NoId
        PROVE  HeldAfter(u, tConfiguration'[u])
    <3>1. u # t /\ tConfiguration[u] \in ConfigIds /\ Held(u, tConfiguration[u])
      BY <2>1, <2>3 DEF TypeOK, ConfigurationsHeld
    <3>2. QED
      BY <1>3, <2>1, <3>1 DEF Held, HeldAfter
  <2>4. ASSUME NEW v \in venues, NEW x \in vDeviceConfiguration[v] PROVE HeldAfter(v, x)
    BY <1>3, <2>2, <2>4 DEF TypeOK, ConfigurationsHeld
  <2>5. QED
    BY <2>3, <2>4 DEF ConfigurationsHeld, Held, HeldAfter
<1>11. QED
  BY <1>5, <1>6, <1>7, <1>8, <1>9, <1>10

LEMMA DeviceDeleteAloneConsistent ==
    ASSUME Consistent, NEW c \in deviceConfigs, DeviceDeleteAlone(c)
    PROVE  Consistent'
<1> USE HierarchyAssumption DEF Consistent, DeviceDeleteAlone, entityVars, venueVars,
        deviceVars, tagVars, ownerVars, LiveRowsIssued
<1>1. {c} \in SUBSET ConfigIds /\ {c} \subseteq issued /\ CleanupConfigurations({c}, NoId)
  BY DEF TypeOK, NamesIssued
<1>2. /\ configs' \in SUBSET ConfigIds /\ configs' \subseteq configs
      /\ deviceConfigs' \in SUBSET ConfigIds
      /\ deviceConfigs' = deviceConfigs \union {c}
      /\ cInUse' \in [ConfigIds -> SUBSET (VenueIds \union TagIds)]
      /\ cEntity' \in [ConfigIds -> EntityIds \union {NoId}]
      /\ cVenue' \in [ConfigIds -> VenueIds \union {NoId}]
      /\ \A x \in ConfigIds : \A h : h # NoId /\ Held(h, x) => HeldAfter(h, x)
  BY <1>1, CleanupFact
<1>3. TypeOK'
  BY <1>2 DEF TypeOK
<1>4. LiveRowsIssued' /\ NamesIssued'
  BY <1>1, <1>2 DEF TypeOK, NamesIssued, subscriberVenues
<1>5. TagsPlaced' /\ VenuesPlaced' /\ EntitiesPlaced'
  BY DEF TagsPlaced, VenuesPlaced, EntitiesPlaced, subscriberVenues
<1>6. ConfigurationsHeld'
  <2>1. NoId \notin tags \union venues
    BY DEF TypeOK
  <2>2. /\ \A u \in tags : tConfiguration[u] # NoId => HeldAfter(u, tConfiguration[u])
        /\ \A v \in venues : \A x \in vDeviceConfiguration[v] : HeldAfter(v, x)
    BY <1>2, <2>1 DEF TypeOK, ConfigurationsHeld, Held, HeldAfter
  <2>3. QED
    BY <2>2 DEF ConfigurationsHeld, Held, HeldAfter
<1>7. QED
  BY <1>3, <1>4, <1>5, <1>6

LEMMA InventoryRemoveSubscriberConsistent ==
    ASSUME Consistent, NEW t \in tags, InventoryRemoveSubscriber(t), UNCHANGED deviceConfigs
    PROVE  Consistent'
<1> USE HierarchyAssumption DEF Consistent, InventoryRemoveSubscriber, entityVars, venueVars,
        deviceVars, tagVars, ownerVars, configVars, LiveRowsIssued, Fresh
<1>1. TypeOK'
  BY DEF TypeOK
<1>2. LiveRowsIssued' /\ NamesIssued'
  BY DEF TypeOK, NamesIssued, subscriberVenues, RefSet
<1>3. TagsPlaced'
  BY DEF TypeOK, TagsPlaced
<1>4. VenuesPlaced'
  BY DEF TypeOK, VenuesPlaced, subscriberVenues
<1>5. EntitiesPlaced'
  BY DEF TypeOK, EntitiesPlaced
<1>6. ConfigurationsHeld'
  BY DEF TypeOK, ConfigurationsHeld, Held, RefSet
<1>7. QED
  BY <1>1, <1>2, <1>3, <1>4, <1>5, <1>6

LEMMA InventoryDeleteConsistent ==
    ASSUME Consistent, NEW t \in tags, InventoryDelete(t), UNCHANGED deviceConfigs
    PROVE  Consistent'
<1> USE HierarchyAssumption DEF Consistent, InventoryDelete, entityVars, venueVars,
        deviceVars, tagVars, ownerVars, configVars, LiveRowsIssued, Fresh
<1>1. TypeOK'
  BY DEF TypeOK, RemoveMembership, MoveUsage
<1>2. LiveRowsIssued' /\ NamesIssued'
  BY DEF TypeOK, NamesIssued, subscriberVenues, RefSet
<1>3. TagsPlaced'
  BY DEF TypeOK, TagsPlaced, RemoveMembership
<1>4. VenuesPlaced'
  BY DEF TypeOK, VenuesPlaced, subscriberVenues
<1>5. EntitiesPlaced'
  BY DEF TypeOK, EntitiesPlaced
<1>6. ConfigurationsHeld'
  <2>1. \A x \in ConfigIds \ SubscriberOnly : x \in configs => x \in configs'
    BY DEF TypeOK
  <2>2. \A x \in ConfigIds : \A h \in cInUse[x] : h # t => h \in cInUse'[x]
    BY DEF TypeOK, MoveUsage
  <2>3. \A u \in tags' : u \in tags /\ u # t /\ tConfiguration'[u] = tConfiguration[u]
    BY DEF TypeOK
  <2>4. t \notin venues
    BY DEF TypeOK
  <2>5. \A x \in ConfigIds : \A h : h # t /\ Held(h, x) => HeldAfter(h, x)
    BY <2>1, <2>2 DEF Held, HeldAfter
  <2>6. \A u \in tags' : tConfiguration'[u] # NoId => HeldAfter(u, tConfiguration'[u])
    BY <2>3, <2>5 DEF TypeOK, ConfigurationsHeld
  <2>7. \A v \in venues : \A c \in vDeviceConfiguration[v] : HeldAfter(v, c)
    BY <2>4, <2>5 DEF TypeOK, ConfigurationsHeld
  <2>8. QED
    BY <2>6, <2>7 DEF ConfigurationsHeld, Held, HeldAfter
<1>7. QED
  BY <1>1, <1>2, <1>3, <1>4, <1>5, <1>6

LEMMA ConfigurationPostConsistent ==
    ASSUME Consistent, NEW c \in ConfigIds, NEW entity \in entities \union {NoId},
           NEW venue \in venues \union {NoId}, ConfigurationPost(c, entity, venue), UNCHANGED deviceConfigs
    PROVE  Consistent'
<1> USE HierarchyAssumption DEF Consistent, ConfigurationPost, entityVars, venueVars,
        deviceVars, tagVars, ownerVars, configVars, LiveRowsIssued, Fresh
<1>1. TypeOK'
  BY DEF TypeOK, AddMembership, Ids
<1>2. LiveRowsIssued' /\ NamesIssued'
  BY DEF TypeOK, NamesIssued, subscriberVenues, RefSet
<1>3. TagsPlaced'
  BY DEF TypeOK, TagsPlaced
<1>4. VenuesPlaced'
  BY DEF TypeOK, VenuesPlaced, subscriberVenues
<1>5. EntitiesPlaced'
  BY DEF TypeOK, EntitiesPlaced
<1>6. ConfigurationsHeld'
  <2>1. \A h : \A x \in issued : Held(h, x) => HeldAfter(h, x)
    BY DEF Held, HeldAfter
  <2>2. \A t \in tags : tConfiguration[t] # NoId => HeldAfter(t, tConfiguration[t])
    BY <2>1 DEF ConfigurationsHeld, NamesIssued, RefSet
  <2>3. \A v \in venues : \A x \in vDeviceConfiguration[v] : HeldAfter(v, x)
    BY <2>1 DEF ConfigurationsHeld, NamesIssued
  <2>4. QED
    BY <2>2, <2>3 DEF ConfigurationsHeld, Held, HeldAfter
<1>7. QED
  BY <1>1, <1>2, <1>3, <1>4, <1>5, <1>6

LEMMA ConfigurationPutConsistent ==
    ASSUME Consistent, NEW c \in configs, NEW entity \in entities \union {NoId, Keep},
           NEW venue \in venues \union {NoId, Keep}, ConfigurationPut(c, entity, venue), UNCHANGED deviceConfigs
    PROVE  Consistent'
<1> USE HierarchyAssumption DEF Consistent, ConfigurationPut, entityVars, venueVars,
        deviceVars, tagVars, ownerVars, configVars, LiveRowsIssued, Fresh
<1>1. TypeOK'
  <2>1. eConfigurations' \in [EntityIds -> SUBSET ConfigIds]
    <3>1. eConfigurations \in [EntityIds -> SUBSET ConfigIds] /\ c \in ConfigIds
      BY DEF TypeOK
    <3>2. eConfigurations' = ManageMembership(eConfigurations, entities, From(cEntity[c], entity), To(entity), c)
      OBVIOUS
    <3> QED
      BY ONLY <3>1, <3>2, ManageMembershipType
  <2>2. vConfigurations' \in [VenueIds -> SUBSET ConfigIds]
    <3>1. vConfigurations \in [VenueIds -> SUBSET ConfigIds] /\ c \in ConfigIds
      BY DEF TypeOK
    <3>2. vConfigurations' = ManageMembership(vConfigurations, venues, From(cVenue[c], venue), To(venue), c)
      OBVIOUS
    <3> QED
      BY ONLY <3>1, <3>2, ManageMembershipType
  <2>3. cEntity' \in [ConfigIds -> EntityIds \union {NoId}]
    BY DEF TypeOK, Assigned
  <2>4. cVenue' \in [ConfigIds -> VenueIds \union {NoId}]
    BY DEF TypeOK, Assigned
  <2>5. QED
    BY <2>1, <2>2, <2>3, <2>4 DEF TypeOK
<1>2. LiveRowsIssued' /\ NamesIssued'
  BY DEF TypeOK, NamesIssued, subscriberVenues, RefSet
<1>3. TagsPlaced'
  BY DEF TypeOK, TagsPlaced
<1>4. VenuesPlaced'
  BY DEF TypeOK, VenuesPlaced, subscriberVenues
<1>5. EntitiesPlaced'
  BY DEF TypeOK, EntitiesPlaced
<1>6. ConfigurationsHeld'
  BY DEF TypeOK, ConfigurationsHeld, Held
<1>7. QED
  BY <1>1, <1>2, <1>3, <1>4, <1>5, <1>6

LEMMA ConfigurationDeleteConsistent ==
    ASSUME Consistent, NEW c \in configs, ConfigurationDelete(c), UNCHANGED deviceConfigs
    PROVE  Consistent'
<1> USE HierarchyAssumption DEF Consistent, ConfigurationDelete, entityVars, venueVars,
        deviceVars, tagVars, ownerVars, configVars, LiveRowsIssued, Fresh
<1>1. TypeOK'
  BY DEF TypeOK, RemoveMembership
<1>2. LiveRowsIssued' /\ NamesIssued'
  BY DEF TypeOK, NamesIssued, subscriberVenues, RefSet
<1>3. TagsPlaced'
  BY DEF TypeOK, TagsPlaced
<1>4. VenuesPlaced'
  BY DEF TypeOK, VenuesPlaced, subscriberVenues
<1>5. EntitiesPlaced'
  BY DEF TypeOK, EntitiesPlaced
<1>6. ConfigurationsHeld'
  BY DEF TypeOK, ConfigurationsHeld, Held
<1>7. QED
  BY <1>1, <1>2, <1>3, <1>4, <1>5, <1>6

LEMMA RestartConsistent ==
    ASSUME Consistent, Restart, UNCHANGED deviceConfigs
    PROVE  Consistent'
<1> USE HierarchyAssumption DEF Consistent, Restart, entityVars, venueVars,
        deviceVars, tagVars, ownerVars, configVars, LiveRowsIssued, Fresh
<1>1. TypeOK'
  BY DEF TypeOK, FixVenueDevices, FixEntity, FixInventory
<1>2. LiveRowsIssued' /\ NamesIssued'
  BY DEF TypeOK, NamesIssued, subscriberVenues, RefSet
<1>3. TagsPlaced'
  BY DEF TypeOK, TagsPlaced, FixVenueDevices, FixEntity, FixInventory
<1>4. VenuesPlaced'
  BY DEF TypeOK, VenuesPlaced, subscriberVenues, FixEntity
<1>5. EntitiesPlaced'
  BY DEF TypeOK, EntitiesPlaced
<1>6. ConfigurationsHeld'
  BY DEF TypeOK, ConfigurationsHeld, Held
<1>7. QED
  BY <1>1, <1>2, <1>3, <1>4, <1>5, <1>6

LEMMA StepConsistent == Consistent /\ [Next]_vars => Consistent'
<1> SUFFICES ASSUME Consistent, [Next]_vars PROVE Consistent'
  OBVIOUS
<1>a. \A S : \A s \in AtMostOne(S) : s \in SUBSET S
  BY DEF AtMostOne
<1>b. tags \in SUBSET TagIds /\ configs \in SUBSET ConfigIds
  BY DEF Consistent, TypeOK
<1>1. CASE EntityStep /\ UNCHANGED deviceConfigs
  <2>1. ASSUME NEW e \in EntityIds, NEW parent \in entities, NEW ds \in AtMostOne(tags),
               NEW cs \in AtMostOne(configs), NEW ok \in BOOLEAN,
               EntityPost(e, parent, ds, cs, ok)
        PROVE  Consistent'
    <3>1. ds \in SUBSET TagIds /\ cs \in SUBSET ConfigIds
      BY <1>a, <1>b
    <3>2. QED
      BY <1>1, <2>1, <3>1, EntityPostConsistent
  <2>2. ASSUME NEW e \in entities, EntityDelete(e) PROVE Consistent'
    BY <1>1, <2>2, EntityDeleteConsistent
  <2>3. QED
    BY <1>1, <2>1, <2>2 DEF EntityStep
<1>2. CASE VenueStep /\ UNCHANGED deviceConfigs
  <2>1. ASSUME NEW v \in VenueIds, NEW parent \in venues \union {NoId},
               NEW entity \in entities \union {NoId}, NEW ds \in AtMostOne(tags),
               NEW cs \in AtMostOne(configs), NEW s \in Subscribers \union {NoId}, NEW ok \in BOOLEAN,
               VenuePost(v, parent, entity, ds, cs, s, ok)
        PROVE  Consistent'
    <3>1. ds \in SUBSET TagIds /\ cs \in SUBSET ConfigIds
      BY <1>a, <1>b
    <3>2. QED
      BY <1>2, <2>1, <3>1, VenuePostConsistent
  <2>2. ASSUME NEW v \in venues, NEW entity \in entities \union {Keep},
               NEW parent \in venues \union {Keep},
               NEW cs \in AtMostOne(configs) \union {Keep},
               VenuePut(v, entity, parent, cs)
        PROVE  Consistent'
    <3>1. cs \in (SUBSET ConfigIds) \union {Keep}
      BY <1>a, <1>b
    <3>2. QED
      BY <1>2, <2>2, <3>1, VenuePutConsistent
  <2>3. ASSUME NEW v \in venues, VenueDelete(v) PROVE Consistent'
    BY <1>2, <2>3, VenueDeleteConsistent
  <2>4. CASE \E v \in VenueIds, parent \in venues \union {NoId},
              entity \in entities \union {NoId}, ds \in AtMostOne(tags),
              cs \in AtMostOne(configs), s \in Subscribers \union {NoId}, ok \in BOOLEAN :
                VenuePost(v, parent, entity, ds, cs, s, ok)
    <3>1. PICK v \in VenueIds, parent \in venues \union {NoId},
               entity \in entities \union {NoId}, ds \in AtMostOne(tags),
               cs \in AtMostOne(configs), s \in Subscribers \union {NoId}, ok \in BOOLEAN :
                 VenuePost(v, parent, entity, ds, cs, s, ok)
      BY <2>4, Zenon
    <3>2. QED
      BY <2>1, <3>1, Zenon
  <2>5. CASE \E v \in venues, entity \in entities \union {Keep},
              parent \in venues \union {Keep},
              cs \in AtMostOne(configs) \union {Keep} :
                VenuePut(v, entity, parent, cs)
    BY <2>2, <2>5
  <2>6. CASE \E s \in Subscribers, gone \in SUBSET venues : SubscriberDelete(s, gone)
    BY <1>2, <2>6, SubscriberDeleteConsistent
  <2>7. QED
    BY <1>2, <2>3, <2>4, <2>5, <2>6, Zenon DEF VenueStep
<1>3. CASE InventoryStep /\ UNCHANGED deviceConfigs
  <2>a. \A c : /\ Owners(c, EntityIds) \subseteq EntityIds \union {NoId}
               /\ Owners(c, VenueIds) \subseteq VenueIds \union {NoId}
    BY DEF Owners
  <2>1. ASSUME NEW t \in TagIds, NEW entity \in entities \union {NoId},
               NEW venue \in venues \union {NoId}, NEW c \in ConfigIds \union {NoId},
               NEW s \in Subscribers \union {NoId},
               NEW oe \in Owners(c, EntityIds), NEW ov \in Owners(c, VenueIds),
               InventoryPost(t, entity, venue, c, oe, ov, s)
        PROVE  Consistent'
    <3>1. oe \in EntityIds \union {NoId} /\ ov \in VenueIds \union {NoId}
      BY <2>a
    <3>2. QED
      BY <1>3, <2>1, <3>1, InventoryPostConsistent
  <2>2. ASSUME NEW t \in TagIds, NEW entity \in entities \union {NoId},
               NEW venue \in venues \union {NoId}, DeviceDiscovered(t, entity, venue)
        PROVE  Consistent'
    BY <1>3, <2>2, DeviceDiscoveredConsistent
  <2>3. ASSUME NEW t \in tags, NEW entity \in entities \union {NoId, Keep},
               NEW venue \in venues \union {NoId, Keep},
               NEW c \in ConfigIds \union {NoId, Keep},
               NEW s \in Subscribers \union {NoId, Keep},
               NEW oe \in Owners(c, EntityIds), NEW ov \in Owners(c, VenueIds),
               InventoryPut(t, entity, venue, c, oe, ov, s)
        PROVE  Consistent'
    <3>1. oe \in EntityIds \union {NoId} /\ ov \in VenueIds \union {NoId}
      BY <2>a
    <3>2. QED
      BY <1>3, <2>3, <3>1, InventoryPutConsistent
  <2>4. ASSUME NEW t \in tags, InventoryRemoveSubscriber(t) PROVE Consistent'
    BY <1>3, <2>4, InventoryRemoveSubscriberConsistent
  <2>5. ASSUME NEW t \in tags, InventoryDelete(t) PROVE Consistent'
    BY <1>3, <2>5, InventoryDeleteConsistent
  <2>6. QED
    BY <1>3, <2>1, <2>2, <2>3, <2>4, <2>5 DEF InventoryStep
<1>4. CASE ConfigurationStep /\ UNCHANGED deviceConfigs
  <2>1. ASSUME NEW c \in ConfigIds, NEW entity \in entities \union {NoId},
               NEW venue \in venues \union {NoId}, ConfigurationPost(c, entity, venue)
        PROVE  Consistent'
    BY <1>4, <2>1, ConfigurationPostConsistent
  <2>2. ASSUME NEW c \in configs, NEW entity \in entities \union {NoId, Keep},
               NEW venue \in venues \union {NoId, Keep},
               ConfigurationPut(c, entity, venue)
        PROVE  Consistent'
    BY <1>4, <2>2, ConfigurationPutConsistent
  <2>3. ASSUME NEW c \in configs, ConfigurationDelete(c) PROVE Consistent'
    BY <1>4, <2>3, ConfigurationDeleteConsistent
  <2>4. QED
    BY <1>4, <2>1, <2>2, <2>3 DEF ConfigurationStep
<1>5. CASE Restart /\ UNCHANGED deviceConfigs
  BY <1>5, RestartConsistent
<1>6. CASE DeviceStep
  <2>1. CASE \E t \in TagIds, c \in ConfigIds \union {NoId},
               s \in Subscribers \union {NoId}, venue \in venues \union {NoId} :
               DeviceStore(t, c, s, venue)
    BY <2>1, DeviceStoreConsistent
  <2>2. CASE \E t \in TagIds, old \in deviceConfigs, s \in Subscribers \union {NoId},
               venue \in venues \union {NoId} :
               DeviceClear(t, old, s, venue)
    BY <2>2, DeviceClearConsistent
  <2>3. CASE \E t \in tags, c \in deviceConfigs \union {NoId} : DeviceDelete(t, c)
    BY <2>3, DeviceDeleteConsistent
  <2>4. CASE \E c \in deviceConfigs : DeviceDeleteAlone(c)
    BY <2>4, DeviceDeleteAloneConsistent
  <2>5. QED
    BY <1>6, <2>1, <2>2, <2>3, <2>4, Zenon DEF DeviceStep
<1>7. CASE UNCHANGED vars
  BY <1>7 DEF vars, entityVars, venueVars, deviceVars, tagVars, ownerVars, configVars,
     Consistent, TypeOK, LiveRowsIssued, TagsPlaced, VenuesPlaced, EntitiesPlaced,
     ConfigurationsHeld, Held, NamesIssued, subscriberVenues
<1>8. QED
  BY <1>1, <1>2, <1>3, <1>4, <1>5, <1>6, <1>7, Zenon DEF Next

(***************************************************************************)
(* Every request handler, the discovery of a device and the consistency    *)
(* check of a start keep the inductive invariant: the two copies of each   *)
(* relation agree where a deletion guard relies on them.                   *)
(***************************************************************************)
THEOREM ConsistentAlways == Spec => []Consistent
BY InitConsistent, StepConsistent, PTL DEF Spec

(***************************************************************************)
(* Every column holds identifiers of the table it refers to: no PUT of an  *)
(* absent field and no moved membership ever stores anything else.         *)
(***************************************************************************)
THEOREM TypeCorrect == Spec => []TypeOK
<1>1. Consistent => TypeOK
  BY DEF Consistent
<1>2. QED
  BY <1>1, ConsistentAlways, PTL

(***************************************************************************)
(* A tag's venue and entity exist and list the tag, for any number of      *)
(* tags, venues and entities: the emptiness tests of the venue and entity  *)
(* DELETE handlers are sufficient.                                         *)
(***************************************************************************)
THEOREM TagsAlwaysPlaced == Spec => []TagsPlaced
<1>1. Consistent => TagsPlaced
  BY DEF Consistent
<1>2. QED
  BY <1>1, ConsistentAlways, PTL

(***************************************************************************)
(* A venue's entity exists and lists it; so does its parent venue, unless  *)
(* that was a subscriber's and went with the subscriber; and the entities  *)
(* form a tree rooted in the root entity whose operator entities stay.     *)
(***************************************************************************)
THEOREM HierarchyAlwaysPlaced == Spec => [](VenuesPlaced /\ EntitiesPlaced)
<1>1. Consistent => VenuesPlaced /\ EntitiesPlaced
  BY DEF Consistent
<1>2. QED
  BY <1>1, ConsistentAlways, PTL

(***************************************************************************)
(* A configuration that a tag or a venue refers to names it in inUse, so   *)
(* that the DELETE handler's inUse test is sufficient; one that is gone    *)
(* under its users was subscriberOnly or had been named by a subscriber    *)
(* device, or by a tag deleted with one.                                   *)
(***************************************************************************)
THEOREM ConfigurationsAlwaysHeld == Spec => []ConfigurationsHeld
<1>1. Consistent => ConfigurationsHeld
  BY DEF Consistent
<1>2. QED
  BY <1>1, ConsistentAlways, PTL

\* Only the deletions take rows away, and their guards see every reference.
LEMMA StepOrphansNothing == Consistent /\ [Next]_vars => [OrphansNothing]_vars
<1> SUFFICES ASSUME Consistent, Next PROVE OrphansNothing
  OBVIOUS
<1> USE HierarchyAssumption DEF entityVars, venueVars, tagVars, configVars
<1>1. ASSUME NEW e \in entities, EntityDelete(e) PROVE OrphansNothing
  <2>1. /\ entities \ entities' = {e}
        /\ UNCHANGED <<venues, configs>>
        /\ e # Root
        /\ eDevices[e] = {} /\ eVenues[e] = {} /\ eChildren[e] = {}
    BY <1>1 DEF EntityDelete
  <2>2. \A t \in tags : tEntity[t] # e
    BY <2>1 DEF Consistent, TypeOK, TagsPlaced
  <2>3. \A v \in venues : vEntity[v] # e
    BY <2>1 DEF Consistent, TypeOK, VenuesPlaced
  <2>4. ASSUME NEW f \in entities PROVE eParent[f] # e
    <3>1. CASE f = Root
      BY <3>1 DEF Consistent, TypeOK, EntitiesPlaced
    <3>2. CASE f # Root
      BY <3>2, <2>1 DEF Consistent, EntitiesPlaced
    <3>3. QED
      BY <3>1, <3>2
  <2>5. QED
    BY <2>1, <2>2, <2>3, <2>4 DEF OrphansNothing
<1>2. ASSUME NEW v \in venues, VenueDelete(v) PROVE OrphansNothing
  <2>1. /\ venues \ venues' = {v}
        /\ UNCHANGED <<entities, configs, tVenue>>
        /\ vDevices[v] = {} /\ vChildren[v] = {}
    BY <1>2 DEF VenueDelete
  <2>2. \A t \in tags : tVenue[t] # v
    BY <2>1 DEF Consistent, TypeOK, TagsPlaced
  <2>3. \A w \in venues : vParent[w] # v
    BY <2>1 DEF Consistent, TypeOK, VenuesPlaced
  <2>4. QED
    BY <2>1, <2>2, <2>3 DEF OrphansNothing
<1>3. ASSUME NEW c \in configs, ConfigurationDelete(c) PROVE OrphansNothing
  <2>1. /\ configs \ configs' = {c}
        /\ UNCHANGED <<entities, venues>>
        /\ cInUse[c] = {}
    BY <1>3 DEF ConfigurationDelete
  <2>2. c \notin SubscriberOnly => \A t \in tags : tConfiguration[t] # c
    BY <2>1 DEF Consistent, TypeOK, ConfigurationsHeld, Held
  <2>3. c \notin SubscriberOnly => \A v \in venues : c \notin vDeviceConfiguration[v]
    BY <2>1 DEF Consistent, TypeOK, ConfigurationsHeld, Held
  <2>4. QED
    BY <2>1, <2>2, <2>3 DEF OrphansNothing
<1>4. ASSUME entities \subseteq entities', venues \subseteq venues',
             configs \ SubscriberOnly \subseteq configs'
      PROVE  OrphansNothing
  BY <1>4 DEF OrphansNothing
<1>5. CASE EntityStep
  <2>1. ASSUME NEW e, NEW parent, NEW ds, NEW cs, NEW ok,
               EntityPost(e, parent, ds, cs, ok)
        PROVE  OrphansNothing
    BY <1>4, <2>1 DEF EntityPost
  <2>2. QED
    BY <1>1, <1>5, <2>1 DEF EntityStep
<1>6. CASE VenueStep
  <2>1. ASSUME NEW v, NEW parent, NEW entity, NEW ds, NEW cs, NEW s, NEW ok,
               VenuePost(v, parent, entity, ds, cs, s, ok)
        PROVE  OrphansNothing
    BY <1>4, <2>1 DEF VenuePost
  <2>2. ASSUME NEW v, NEW entity, NEW parent, NEW cs, VenuePut(v, entity, parent, cs)
        PROVE  OrphansNothing
    BY <1>4, <2>2 DEF VenuePut
  <2>3. CASE \E v \in VenueIds, parent \in venues \union {NoId},
              entity \in entities \union {NoId}, ds \in AtMostOne(tags),
              cs \in AtMostOne(configs), s \in Subscribers \union {NoId}, ok \in BOOLEAN :
                VenuePost(v, parent, entity, ds, cs, s, ok)
    BY <2>1, <2>3, Zenon
  <2>4. ASSUME NEW s \in Subscribers, NEW gone \in SUBSET venues, SubscriberDelete(s, gone)
        PROVE  OrphansNothing
    <3>1. /\ venues \ venues' = gone
          /\ gone \subseteq subscriberVenues
          /\ \A v \in gone : vDevices[v] = {}
          /\ UNCHANGED <<entities, configs, tVenue>>
      BY <2>4 DEF SubscriberDelete, subscriberVenues, Consistent, TypeOK
    <3>2. \A v \in gone : \A t \in tags : tVenue[t] # v
      BY <3>1 DEF Consistent, TypeOK, TagsPlaced
    <3>3. QED
      BY <3>1, <3>2 DEF OrphansNothing
  <2>5. QED
    BY <1>2, <1>6, <2>2, <2>3, <2>4, Zenon DEF VenueStep
<1>7. CASE InventoryStep
  <2>1. entities' = entities /\ venues' = venues
    BY <1>7 DEF InventoryStep, InventoryPost, DeviceDiscovered, NewTag,
       InventoryPut, WriteTag, InventoryRemoveSubscriber, InventoryDelete
  <2>2. configs \ SubscriberOnly \subseteq configs'
    BY <1>7 DEF InventoryStep, InventoryPost, DeviceDiscovered, InventoryPut,
       CreateObjects, InventoryRemoveSubscriber, InventoryDelete
  <2>3. QED
    BY <1>4, <2>1, <2>2
<1>8. CASE ConfigurationStep
  <2>1. ASSUME NEW c, NEW entity, NEW venue, ConfigurationPost(c, entity, venue)
        PROVE  OrphansNothing
    BY <1>4, <2>1 DEF ConfigurationPost
  <2>2. ASSUME NEW c, NEW entity, NEW venue, ConfigurationPut(c, entity, venue)
        PROVE  OrphansNothing
    BY <1>4, <2>2 DEF ConfigurationPut
  <2>3. QED
    BY <1>3, <1>8, <2>1, <2>2 DEF ConfigurationStep
<1>9. CASE Restart
  BY <1>4, <1>9 DEF Restart
<1>10. CASE DeviceStep
  <2>1. ASSUME NEW t, NEW c, NEW s, NEW v, CreateInventoryRecord(t, c, s, v)
        PROVE  entities' = entities /\ venues' = venues
    BY <2>1 DEF CreateInventoryRecord, NewTag, WriteTag
  <2>2. ASSUME NEW t, NEW c, NEW s, NEW v, DeviceStore(t, c, s, v) \/ DeviceClear(t, c, s, v)
        PROVE  entities' = entities /\ venues' = venues
    BY <2>1, <2>2 DEF DeviceStore, DeviceClear
  <2>3. ASSUME NEW t, NEW c, DeviceDelete(t, c) \/ DeviceDeleteAlone(c)
        PROVE  entities' = entities /\ venues' = venues
    BY <2>3 DEF DeviceDelete, DeviceDeleteAlone
  <2>4. entities' = entities /\ venues' = venues
    BY <1>10, <2>2, <2>3, Zenon DEF DeviceStep
  <2>5. QED
    BY <1>10, <2>4 DEF OrphansNothing
<1>11. QED
  BY <1>5, <1>6, <1>7, <1>8, <1>9, <1>10, Zenon DEF Next

(***************************************************************************)
(* No handler and no restart takes away an entity, a venue or a shared     *)
(* configuration that a row still refers to, in any number of requests,    *)
(* but for a subscriber's venue that has venues below it and for the       *)
(* configurations that requests for subscriber devices delete.             *)
(***************************************************************************)
THEOREM NothingIsOrphaned == Spec => NothingOrphaned
BY ConsistentAlways, StepOrphansNothing, PTL DEF Spec, NothingOrphaned

\* A tag without a row has no venue and no entity.
NoRowNoPlace == \A t \in TagIds \ tags : tVenue[t] = NoId /\ tEntity[t] = NoId

LEMMA StepNoRowNoPlace == Consistent /\ NoRowNoPlace /\ [Next]_vars => NoRowNoPlace'
<1> SUFFICES ASSUME Consistent, NoRowNoPlace, [Next]_vars PROVE NoRowNoPlace'
  OBVIOUS
<1>1. /\ tags \subseteq TagIds
      /\ tVenue \in [TagIds -> VenueIds \union {NoId}]
      /\ tEntity \in [TagIds -> EntityIds \union {NoId}]
  BY DEF Consistent, TypeOK
<1>2. CASE UNCHANGED <<tags, tVenue, tEntity>>
  BY <1>2 DEF NoRowNoPlace
<1>3. CASE EntityStep \/ VenueStep \/ ConfigurationStep \/ UNCHANGED vars
  <2>1. EntityStep => UNCHANGED <<tags, tVenue, tEntity>>
    BY DEF EntityStep, EntityPost, EntityDelete, tagVars
  <2>2. ASSUME NEW v, NEW parent, NEW entity, NEW ds, NEW cs, NEW s, NEW ok,
               VenuePost(v, parent, entity, ds, cs, s, ok)
        PROVE  UNCHANGED <<tags, tVenue, tEntity>>
    BY <2>2 DEF VenuePost, tagVars
  <2>3. ASSUME NEW v, NEW entity, NEW parent, NEW cs, VenuePut(v, entity, parent, cs)
        PROVE  UNCHANGED <<tags, tVenue, tEntity>>
    BY <2>3 DEF VenuePut, tagVars
  <2>4. ASSUME NEW v, VenueDelete(v) PROVE UNCHANGED <<tags, tVenue, tEntity>>
    BY <2>4 DEF VenueDelete, tagVars
  <2>5. ASSUME NEW s, NEW gone, SubscriberDelete(s, gone)
        PROVE  UNCHANGED <<tags, tVenue, tEntity>>
    BY <2>5 DEF SubscriberDelete, tagVars
  <2>6. VenueStep => UNCHANGED <<tags, tVenue, tEntity>>
    BY <2>2, <2>3, <2>4, <2>5, Zenon DEF VenueStep
  <2>7. ConfigurationStep => UNCHANGED <<tags, tVenue, tEntity>>
    BY DEF ConfigurationStep, ConfigurationPost, ConfigurationPut, ConfigurationDelete, tagVars
  <2>8. UNCHANGED vars => UNCHANGED <<tags, tVenue, tEntity>>
    BY DEF vars, tagVars
  <2>9. QED
    BY <1>2, <1>3, <2>1, <2>6, <2>7, <2>8
<1>4. ASSUME NEW t \in TagIds, NEW e, NEW v,
             tags' = tags \union {t}, tVenue' = [tVenue EXCEPT ![t] = v],
             tEntity' = [tEntity EXCEPT ![t] = e]
      PROVE  NoRowNoPlace'
  BY <1>1, <1>4 DEF NoRowNoPlace
<1>5. ASSUME NEW t \in TagIds, NEW e, NEW v, NEW c, NEW s, WriteTag(t, e, v, c, s)
      PROVE  NoRowNoPlace'
  <2>1. /\ t \in tags
        /\ tags' = tags /\ tVenue' = [tVenue EXCEPT ![t] = Assigned(@, v)]
        /\ tEntity' = [tEntity EXCEPT ![t] = Assigned(@, e)]
    BY <1>5 DEF WriteTag
  <2>2. QED
    BY <1>1, <2>1 DEF NoRowNoPlace
<1>6. ASSUME NEW t \in tags, tags' = tags \ {t}, tVenue' = [tVenue EXCEPT ![t] = NoId],
             tEntity' = [tEntity EXCEPT ![t] = NoId]
      PROVE  NoRowNoPlace'
  BY <1>1, <1>6 DEF NoRowNoPlace
<1>7. CASE InventoryStep
  <2>1. ASSUME NEW t \in TagIds, NEW e, NEW v, NEW c, NEW oe, NEW ov, NEW s,
               InventoryPost(t, e, v, c, oe, ov, s)
        PROVE  NoRowNoPlace'
    BY <1>4, <2>1 DEF InventoryPost, NewTag
  <2>2. ASSUME NEW t \in TagIds, NEW e, NEW v, DeviceDiscovered(t, e, v)
        PROVE  NoRowNoPlace'
    BY <1>4, <2>2 DEF DeviceDiscovered, NewTag
  <2>3. ASSUME NEW t \in tags, NEW e, NEW v, NEW c, NEW oe, NEW ov, NEW s,
               InventoryPut(t, e, v, c, oe, ov, s)
        PROVE  NoRowNoPlace'
    BY <1>1, <1>5, <2>3 DEF InventoryPut
  <2>4. ASSUME NEW t \in tags, InventoryRemoveSubscriber(t) PROVE NoRowNoPlace'
    BY <1>2, <2>4 DEF InventoryRemoveSubscriber
  <2>5. ASSUME NEW t \in tags, InventoryDelete(t) PROVE NoRowNoPlace'
    BY <1>6, <2>5 DEF InventoryDelete
  <2>6. CASE \E t \in TagIds, entity \in entities \union {NoId},
                venue \in venues \union {NoId}, c \in ConfigIds \union {NoId},
                s \in Subscribers \union {NoId} :
               \E oe \in Owners(c, EntityIds), ov \in Owners(c, VenueIds) :
                  InventoryPost(t, entity, venue, c, oe, ov, s)
    BY <2>1, <2>6, Zenon
  <2>7. CASE \E t \in TagIds, entity \in entities \union {NoId},
                venue \in venues \union {NoId} : DeviceDiscovered(t, entity, venue)
    BY <2>2, <2>7, Zenon
  <2>8. CASE \E t \in tags, entity \in entities \union {NoId, Keep},
                venue \in venues \union {NoId, Keep}, c \in ConfigIds \union {NoId, Keep},
                s \in Subscribers \union {NoId, Keep} :
               \E oe \in Owners(c, EntityIds), ov \in Owners(c, VenueIds) :
                  InventoryPut(t, entity, venue, c, oe, ov, s)
    BY <2>3, <2>8, Zenon
  <2>9. QED
    BY <1>7, <2>4, <2>5, <2>6, <2>7, <2>8, Zenon DEF InventoryStep
<1>8. CASE Restart
  <2>1. tags' = tags /\ FixInventory
    BY <1>8 DEF Restart
  <2>2. QED
    BY <1>1, <2>1 DEF FixInventory, NoRowNoPlace
<1>9. CASE DeviceStep
  <2>1. ASSUME NEW t \in TagIds, NEW c, NEW s, NEW v, CreateInventoryRecord(t, c, s, v)
        PROVE  NoRowNoPlace'
    BY <1>4, <1>5, <2>1, Zenon DEF CreateInventoryRecord, NewTag
  <2>2. ASSUME NEW t \in TagIds, NEW c, NEW s, NEW v, DeviceStore(t, c, s, v)
        PROVE  NoRowNoPlace'
    BY <2>1, <2>2 DEF DeviceStore
  <2>3. ASSUME NEW t \in TagIds, NEW old, NEW s, NEW v, DeviceClear(t, old, s, v)
        PROVE  NoRowNoPlace'
    BY <2>1, <2>3 DEF DeviceClear
  <2>4. ASSUME NEW t \in tags, NEW c, DeviceDelete(t, c) PROVE NoRowNoPlace'
    BY <1>6, <2>4 DEF DeviceDelete
  <2>5. ASSUME NEW c, DeviceDeleteAlone(c) PROVE NoRowNoPlace'
    BY <1>2, <2>5 DEF DeviceDeleteAlone, tagVars
  <2>6. QED
    BY <1>9, <2>2, <2>3, <2>4, <2>5, Zenon DEF DeviceStep
<1>10. QED
  BY <1>3, <1>7, <1>8, <1>9, Zenon DEF Next

\* Where the two copies agree, the check changes lists only, and no live reference.
LEMMA StepRepairs == Consistent /\ NoRowNoPlace /\ [Next]_vars => [RepairsListsOnly]_vars
<1> SUFFICES ASSUME Consistent, NoRowNoPlace, Restart
             PROVE  /\ tVenue' = tVenue /\ tEntity' = tEntity
                    /\ \A v \in venues : vDevices'[v] \subseteq tags
                    /\ \A e \in entities : eDevices'[e] \subseteq tags /\ eVenues'[e] \subseteq venues
                    /\ \A t \in tags : tVenue[t] # NoId => t \in vDevices'[tVenue[t]]
  BY DEF RepairsListsOnly
<1>1. FixVenueDevices /\ FixEntity /\ FixInventory
  BY DEF Restart
<1>2. TypeOK /\ TagsPlaced
  BY DEF Consistent
<1>3. tVenue' = tVenue
  <2>1. \A t \in TagIds : tVenue[t] = NoId \/ tVenue[t] \in venues
    BY <1>2 DEF NoRowNoPlace, TagsPlaced
  <2>2. tVenue' = [t \in TagIds |-> tVenue[t]]
    BY <1>1, <2>1 DEF FixInventory
  <2>3. QED
    BY <1>2, <2>2 DEF TypeOK
<1>4. tEntity' = tEntity
  <2>1. \A t \in TagIds : tEntity[t] = NoId \/ tEntity[t] \in entities
    BY <1>2 DEF NoRowNoPlace, TagsPlaced
  <2>2. tEntity' = [t \in TagIds |-> tEntity[t]]
    BY <1>1, <2>1 DEF FixInventory
  <2>3. QED
    BY <1>2, <2>2 DEF TypeOK
<1>5. \A v \in venues : vDevices'[v] = vDevices[v] \intersect tags
  BY <1>1, <1>2 DEF FixVenueDevices, TypeOK
<1>6. \A e \in entities : /\ eDevices'[e] = eDevices[e] \intersect tags
                          /\ eVenues'[e] = eVenues[e] \intersect venues
  BY <1>1, <1>2 DEF FixEntity, TypeOK
<1>7. QED
  BY <1>2, <1>3, <1>4, <1>5, <1>6 DEF TagsPlaced

(***************************************************************************)
(* The consistency check of a start moves no tag and leaves device and     *)
(* venue lists that name live rows only, after any requests and restarts.  *)
(***************************************************************************)
THEOREM RestartRepairsLists == Spec => RestartRepairs
<1>1. Init => NoRowNoPlace
  BY DEF Init, NoRowNoPlace
<1>2. QED
  BY <1>1, ConsistentAlways, StepNoRowNoPlace, StepRepairs, PTL DEF Spec, RestartRepairs

=============================================================================
