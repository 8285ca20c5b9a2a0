------------------------- MODULE References_proofs ---------------------------
(***************************************************************************)
(* Both sides of every reference agree and a held record is kept, for      *)
(* every set of entities, venues, tags, configurations, policies and       *)
(* records; and operators are whole or absent, for every set of operators, *)
(* classes and devices.                                                    *)
(***************************************************************************)
EXTENDS References, Operators, TLAPS

(***************************************************************************)
(* The three conjuncts of ListsExact, record by record.                    *)
(***************************************************************************)
EntityExact ==
    \A o \in entities, r \in RecordIds :
        /\ r \in records /\ entityOf[r] = o => r \in listed[o]
        /\ r \in listed[o] => r \in presented[o] \/ (r \in records /\ entityOf[r] = o)

VenueExact ==
    \A o \in venues, r \in RecordIds :
        /\ r \in records /\ venueOf[r] = o => r \in listed[o]
        /\ r \in listed[o] => r \in presented[o] \/ (r \in records /\ venueOf[r] = o)

PolicyExact ==
    \A p \in policies, r \in RecordIds :
        /\ r \in records /\ r \notin inline /\ policyOf[r] = p => r \in policyUse[p]
        /\ r \in policyUse[p] =>
            IF r \in records THEN policyOf[r] = p ELSE kind[r] \in {"contact", "location"}

\* What was handed out: a fresh identifier is in no table and in no list.
Handed ==
    /\ records \subseteq RecordIds
    /\ tags \subseteq issued /\ venues \subseteq issued /\ configs \subseteq issued
    /\ entities \subseteq issued
    /\ forced \subseteq issued
    /\ \A p \in policies : policyUse[p] \subseteq issued
    /\ \A r \in records : {entityOf[r], venueOf[r]} \subseteq issued \union {NoId}

\* A row that does not exist has empty columns.
Blank ==
    /\ \A h \in Holders : h \notin live => uses[h] = {}
    /\ \A v \in VenueIds : v \notin venues => listed[v] = {}
    /\ \A r \in RecordIds : r \notin records => venueOf[r] = NoId

\* DELETE of a map looks at no user: it need not.
NoMapHeld == \A h \in live : \A r \in uses[h] : kind[r] # "map"

Inv ==
    /\ TypeOK /\ Handed /\ Blank
    /\ NoMapHeld /\ HeldRecordsKept
    /\ EntityExact /\ VenueExact /\ PolicyExact

LEMMA ExactLists ==
    ASSUME TypeOK, Handed, EntityExact, VenueExact, PolicyExact
    PROVE  ListsExact
<1> USE DEF TypeOK, Handed, Owners
<1> DEFINE naming(o) == {r \in records : IF o \in entities THEN entityOf[r] = o
                                         ELSE venueOf[r] = o}
<1>1. \A o \in entities : naming(o) \subseteq listed[o] /\ listed[o] \subseteq naming(o) \union presented[o]
  BY DEF EntityExact
<1>2. \A o \in venues : naming(o) \subseteq listed[o] /\ listed[o] \subseteq naming(o) \union presented[o]
  BY ReferencesAssumption DEF VenueExact
<1>3. \A p \in policies :
        /\ {r \in records : policyOf[r] = p} \ inline \subseteq policyUse[p]
        /\ policyUse[p] \subseteq {r \in records : policyOf[r] = p}
             \union {r \in RecordIds \ records : kind[r] \in {"contact", "location"}}
  BY DEF PolicyExact
<1>4. QED
  BY <1>1, <1>2, <1>3 DEF ListsExact

LEMMA InitInv == Init => Inv
<1> SUFFICES ASSUME Init PROVE Inv
  OBVIOUS
<1> USE DEF Init
<1>1. TypeOK
  BY DEF TypeOK, Holders, Owners
<1>2. Handed /\ Blank
  BY DEF Handed, Blank, Holders, Owners
<1>3. NoMapHeld /\ HeldRecordsKept
  BY DEF NoMapHeld, HeldRecordsKept, live
<1>4. EntityExact /\ VenueExact
  BY DEF EntityExact, VenueExact, Owners
<1>5. PolicyExact
  BY DEF PolicyExact
<1>6. QED
  BY <1>1, <1>2, <1>3, <1>4, <1>5 DEF Inv

(***************************************************************************)
(* The four handlers.                                                      *)
(***************************************************************************)
LEMMA HandlerFacts ==
    ASSUME NEW r, kind[r] \in Kinds
    PROVE  /\ Handler(r).frees <=> kind[r] \in {"map", "variables"}
           /\ Handler(r).refuses <=> kind[r] # "map"
BY DEF Handler, Kinds, ContactHandler, LocationHandler, MapHandler, VariablesHandler

(***************************************************************************)
(* One column of lists: member moves from what it named to what it names.  *)
(* Only its own place in the lists of rows changes.                        *)
(***************************************************************************)
LEMMA ManageMembershipPointwise ==
    ASSUME NEW S, NEW T, NEW col \in [S -> SUBSET T], NEW rows \in SUBSET S,
           NEW from, NEW to, NEW member \in T
    PROVE  /\ ManageMembership(col, rows, from, to, member) \in [S -> SUBSET T]
           /\ \A x \in S, m \in T :
                m \in ManageMembership(col, rows, from, to, member)[x] <=>
                  IF m = member /\ x \in rows /\ x = to THEN TRUE
                  ELSE IF m = member /\ x \in rows /\ x = from THEN FALSE
                  ELSE m \in col[x]
BY DEF ManageMembership, AddMembership, RemoveMembership

LEMMA AddMembershipPointwise ==
    ASSUME NEW S, NEW T, NEW col \in [S -> SUBSET T], NEW rows \in SUBSET S,
           NEW to, NEW member \in T
    PROVE  /\ AddMembership(col, rows, to, member) \in [S -> SUBSET T]
           /\ \A x \in S, m \in T :
                m \in AddMembership(col, rows, to, member)[x] <=>
                  m \in col[x] \/ (m = member /\ x \in rows /\ x = to)
BY DEF AddMembership

LEMMA MoveUsagePointwise ==
    ASSUME NEW S, NEW T, NEW col \in [S -> SUBSET T], NEW rows,
           NEW from, NEW to, NEW member \in T
    PROVE  /\ MoveUsage(col, rows, from, to, member) \in [S -> SUBSET T]
           /\ \A x \in S, m \in T :
                m \in MoveUsage(col, rows, from, to, member)[x] <=>
                  IF m # member \/ x \notin rows \/ from = to THEN m \in col[x]
                  ELSE x \in to \/ (x \notin from /\ m \in col[x])
<1> DEFINE new == MoveUsage(col, rows, from, to, member)
<1>1. new = [x \in S |-> IF from = to \/ x \notin rows THEN col[x]
                         ELSE IF x \in to THEN col[x] \union {member}
                         ELSE IF x \in from THEN col[x] \ {member}
                         ELSE col[x]]
  BY DEF MoveUsage
<1>2. new \in [S -> SUBSET T]
  BY <1>1
<1>3. \A x \in S, m \in T :
                m \in new[x] <=>
                  IF m # member \/ x \notin rows \/ from = to THEN m \in col[x]
                  ELSE x \in to \/ (x \notin from /\ m \in col[x])
  BY <1>1
<1>4. QED
  BY <1>2, <1>3

(***************************************************************************)
(* The requests for a record.                                              *)
(***************************************************************************)
LEMMA RecordPostInv ==
    ASSUME Inv, NEW r \in RecordIds,
           NEW entity \in EntityIds \union {NoId}, NEW venue \in VenueIds \union {NoId},
           NEW policy \in PolicyIds \union {NoId}, NEW claimed \in SUBSET Holders,
           {entity, venue} \subseteq issued \union {NoId},
           RecordPost(r, entity, venue, policy, claimed)
    PROVE  Inv'
<1> USE ReferencesAssumption
<1>1. /\ r \notin issued /\ records' = records \union {r} /\ issued' = issued \union {r}
      /\ policy \in policies \union {NoId}
      /\ entityOf' = [entityOf EXCEPT ![r] = entity]
      /\ venueOf' = [venueOf EXCEPT ![r] = venue]
      /\ policyOf' = [policyOf EXCEPT ![r] = policy]
      /\ users' = [users EXCEPT ![r] = IF Handler(r).claims THEN claimed ELSE {}]
      /\ listed' = AddMembership(AddMembership(listed, entities, entity, r), venues, venue, r)
      /\ policyUse' = MoveUsage(policyUse, policies, {}, RefSet(policy), r)
      /\ UNCHANGED <<kind, inline, entities, venues, policies, tags, configs, uses, forced,
                     presented>>
  BY DEF RecordPost, Fresh, rowVars
<1>2. /\ listed' \in [Owners -> SUBSET RecordIds]
      /\ \A o \in Owners, m \in RecordIds :
           m \in listed'[o] <=> \/ m \in listed[o]
                                \/ m = r /\ o \in entities /\ o = entity
                                \/ m = r /\ o \in venues /\ o = venue
  <2> DEFINE mid == AddMembership(listed, entities, entity, r)
  <2>1. entities \in SUBSET Owners /\ venues \in SUBSET Owners
        /\ listed \in [Owners -> SUBSET RecordIds]
    BY DEF Inv, TypeOK, Owners
  <2>2. /\ mid \in [Owners -> SUBSET RecordIds]
        /\ \A o \in Owners, m \in RecordIds :
             m \in mid[o] <=> m \in listed[o] \/ (m = r /\ o \in entities /\ o = entity)
    BY ONLY <2>1, r \in RecordIds, AddMembershipPointwise
  <2> HIDE DEF mid
  <2>3. /\ AddMembership(mid, venues, venue, r) \in [Owners -> SUBSET RecordIds]
        /\ \A o \in Owners, m \in RecordIds :
             m \in AddMembership(mid, venues, venue, r)[o] <=>
               m \in mid[o] \/ (m = r /\ o \in venues /\ o = venue)
    BY ONLY <2>1, <2>2, r \in RecordIds, AddMembershipPointwise
  <2>4. QED
    BY ONLY <1>1, <2>2, <2>3 DEF mid
<1>3. /\ policyUse' \in [PolicyIds -> SUBSET RecordIds]
      /\ \A p \in PolicyIds, m \in RecordIds :
           m \in policyUse'[p] <=>
             m \in policyUse[p] \/ (m = r /\ p \in policies /\ p = policy)
  <2> DEFINE from == {}
             to == RefSet(policy)
  <2>1. policyUse \in [PolicyIds -> SUBSET RecordIds]
    BY DEF Inv, TypeOK
  <2>2. /\ policyUse' \in [PolicyIds -> SUBSET RecordIds]
        /\ \A p \in PolicyIds, m \in RecordIds :
             m \in policyUse'[p] <=>
               IF m # r \/ p \notin policies \/ from = to THEN m \in policyUse[p]
               ELSE p \in to \/ (p \notin from /\ m \in policyUse[p])
    <3>1. policyUse' = MoveUsage(policyUse, policies, from, to, r)
      BY <1>1
    <3> HIDE DEF from, to
    <3>2. QED
      BY ONLY <3>1, <2>1, r \in RecordIds, MoveUsagePointwise
  <2>3. QED
    BY <2>2 DEF RefSet, Inv, TypeOK
<1>4. TypeOK'
  BY <1>1, <1>2, <1>3 DEF Inv, TypeOK
<1>5. Handed'
  BY <1>1, <1>3 DEF Inv, TypeOK, Handed
<1>6. Blank'
  <2>1. \A v \in VenueIds : v \notin venues' => listed'[v] = {}
    BY <1>1, <1>2 DEF Inv, TypeOK, Blank, Owners
  <2>2. QED
    BY <1>1, <2>1 DEF Inv, TypeOK, Blank, live
<1>7. NoMapHeld' /\ HeldRecordsKept'
  BY <1>1 DEF Inv, TypeOK, Handed, NoMapHeld, HeldRecordsKept, live, Holders
<1>8. EntityExact'
  BY <1>1, <1>2 DEF Inv, TypeOK, EntityExact, Owners
<1>9. VenueExact'
  BY <1>1, <1>2 DEF Inv, TypeOK, VenueExact, Owners
<1>10. PolicyExact'
  BY <1>1, <1>3 DEF Inv, TypeOK, Handed, PolicyExact
<1>11. QED
  BY <1>4, <1>5, <1>6, <1>7, <1>8, <1>9, <1>10 DEF Inv

LEMMA RecordPutInv ==
    ASSUME Inv, NEW r \in RecordIds,
           NEW entity \in EntityIds \union {NoId, Keep}, NEW venue \in VenueIds \union {NoId, Keep},
           NEW policy \in PolicyIds \union {NoId, Keep},
           RecordPut(r, entity, venue, policy)
    PROVE  Inv'
<1> USE ReferencesAssumption
<1>1. /\ r \in records
      /\ policy \in policies \union {NoId, Keep} /\ entity \in entities \union {NoId, Keep}
      /\ venue \in venues \union {NoId, Keep}
      /\ entityOf' = [entityOf EXCEPT ![r] = Moved(@, entity)]
      /\ venueOf' = [venueOf EXCEPT ![r] = Moved(@, venue)]
      /\ policyOf' = [policyOf EXCEPT ![r] = Moved(@, policy)]
      /\ policyUse' = MoveUsage(policyUse, policies, RefSet(From(policyOf[r], policy)),
                                RefSet(To(policy)), r)
      /\ listed' = ManageMembership(
                      ManageMembership(listed, entities, From(entityOf[r], entity), To(entity), r),
                      venues, From(venueOf[r], venue), To(venue), r)
      /\ UNCHANGED <<kind, records, issued, inline, users, entities, venues, policies, tags,
                     configs, uses, forced, presented>>
  BY DEF RecordPut, MoveAllowed, rowVars
<1>2. /\ listed' \in [Owners -> SUBSET RecordIds]
      /\ \A o \in EntityIds, m \in RecordIds :
           m \in listed'[o] <=>
             IF m = r /\ o \in entities /\ o = To(entity) THEN TRUE
             ELSE IF m = r /\ o \in entities /\ o = From(entityOf[r], entity) THEN FALSE
             ELSE m \in listed[o]
      /\ \A o \in VenueIds, m \in RecordIds :
           m \in listed'[o] <=>
             IF m = r /\ o \in venues /\ o = To(venue) THEN TRUE
             ELSE IF m = r /\ o \in venues /\ o = From(venueOf[r], venue) THEN FALSE
             ELSE m \in listed[o]
  <2> DEFINE mid == ManageMembership(listed, entities, From(entityOf[r], entity), To(entity), r)
  <2>1. entities \in SUBSET Owners /\ venues \in SUBSET Owners
        /\ listed \in [Owners -> SUBSET RecordIds]
    BY DEF Inv, TypeOK, Owners
  <2>2. /\ mid \in [Owners -> SUBSET RecordIds]
        /\ \A o \in Owners, m \in RecordIds :
             m \in mid[o] <=>
               IF m = r /\ o \in entities /\ o = To(entity) THEN TRUE
               ELSE IF m = r /\ o \in entities /\ o = From(entityOf[r], entity) THEN FALSE
               ELSE m \in listed[o]
    BY ONLY <2>1, r \in RecordIds, ManageMembershipPointwise
  <2> HIDE DEF mid
  <2> DEFINE fin == ManageMembership(mid, venues, From(venueOf[r], venue), To(venue), r)
  <2>3. /\ fin \in [Owners -> SUBSET RecordIds]
        /\ \A o \in Owners, m \in RecordIds :
             m \in fin[o] <=>
               IF m = r /\ o \in venues /\ o = To(venue) THEN TRUE
               ELSE IF m = r /\ o \in venues /\ o = From(venueOf[r], venue) THEN FALSE
               ELSE m \in mid[o]
    BY ONLY <2>1, <2>2, r \in RecordIds, ManageMembershipPointwise
  <2>4. listed' = fin
    BY <1>1 DEF mid
  <2> HIDE DEF fin
  <2>5. \A o \in EntityIds : o \in Owners /\ o \notin venues
    BY DEF Owners, Inv, TypeOK
  <2>6. \A o \in VenueIds : o \in Owners /\ o \notin entities
    BY DEF Owners, Inv, TypeOK
  <2>7. QED
    BY ONLY <2>2, <2>3, <2>4, <2>5, <2>6
<1>3. /\ policyUse' \in [PolicyIds -> SUBSET RecordIds]
      /\ \A p \in PolicyIds, m \in RecordIds :
           m \in policyUse'[p] <=>
             IF m # r \/ p \notin policies \/ policy = Keep \/ policy = policyOf[r]
             THEN m \in policyUse[p]
             ELSE p = policy \/ (p # policyOf[r] /\ m \in policyUse[p])
  <2>1. policyUse \in [PolicyIds -> SUBSET RecordIds]
    BY DEF Inv, TypeOK
  <2> DEFINE from == RefSet(From(policyOf[r], policy))
             to == RefSet(To(policy))
  <2>2. /\ policyUse' \in [PolicyIds -> SUBSET RecordIds]
        /\ \A p \in PolicyIds, m \in RecordIds :
             m \in policyUse'[p] <=>
               IF m # r \/ p \notin policies \/ from = to THEN m \in policyUse[p]
               ELSE p \in to \/ (p \notin from /\ m \in policyUse[p])
    BY ONLY <1>1, <2>1, r \in RecordIds, MoveUsagePointwise
  <2>3. policyOf[r] \in PolicyIds \union {NoId}
    BY DEF Inv, TypeOK
  <2>4. CASE policy = Keep
    <3>1. from = to
      BY <2>4 DEF RefSet, From, To
    <3>2. QED
      BY <2>2, <2>4, <3>1
  <2>5. CASE policy # Keep
    <3>1. from = RefSet(policyOf[r]) /\ to = RefSet(policy)
      BY <2>5 DEF From, To
    <3>2. from = to <=> policy = policyOf[r]
      BY <3>1, <2>3, <2>5 DEF RefSet
    <3>3. \A p \in PolicyIds : (p \in to <=> p = policy) /\ (p \in from <=> p = policyOf[r])
      BY <3>1, <2>3, <2>5 DEF RefSet
    <3> HIDE DEF from, to
    <3>4. QED
      BY ONLY <2>2, <2>5, <3>2, <3>3
  <2>6. QED
    BY <2>4, <2>5
<1>4. TypeOK'
  BY <1>1, <1>2, <1>3 DEF Inv, TypeOK, Moved
<1>5. Handed'
  BY <1>1, <1>3 DEF Inv, TypeOK, Handed, Moved
<1>6. Blank'
  <2>1. \A v \in VenueIds : v \notin venues' => listed'[v] = {}
    BY <1>1, <1>2 DEF Inv, TypeOK, Blank, Owners
  <2>2. QED
    BY <1>1, <2>1 DEF Inv, TypeOK, Blank, live
<1>7. NoMapHeld' /\ HeldRecordsKept'
  BY <1>1 DEF Inv, NoMapHeld, HeldRecordsKept, live
<1>8. EntityExact'
  BY <1>1, <1>2 DEF Inv, TypeOK, EntityExact, Moved, From, To
<1>9. VenueExact'
  BY <1>1, <1>2 DEF Inv, TypeOK, VenueExact, Moved, From, To
<1>10. PolicyExact'
  BY <1>1, <1>3 DEF Inv, TypeOK, Handed, PolicyExact, Moved
<1>11. QED
  BY <1>4, <1>5, <1>6, <1>7, <1>8, <1>9, <1>10 DEF Inv

LEMMA RecordDeleteInv ==
    ASSUME Inv, NEW r \in RecordIds, NEW force \in BOOLEAN, RecordDelete(r, force)
    PROVE  Inv'
<1> USE ReferencesAssumption
<1>1. /\ r \in records /\ records' = records \ {r}
      /\ Handler(r).refuses => (users[r] = {} \/ force)
      /\ entityOf' = [entityOf EXCEPT ![r] = NoId]
      /\ venueOf' = [venueOf EXCEPT ![r] = NoId]
      /\ policyOf' = [policyOf EXCEPT ![r] = NoId]
      /\ users' = [users EXCEPT ![r] = {}]
      /\ listed' = RemoveMembership(RemoveMembership(listed, entities, entityOf[r], r),
                                    venues, venueOf[r], r)
      /\ policyUse' = IF Handler(r).frees
                      THEN MoveUsage(policyUse, policies, RefSet(policyOf[r]), {}, r)
                      ELSE policyUse
      /\ inline' = inline \ {r}
      /\ forced' = IF force THEN forced \union {r} ELSE forced
      /\ UNCHANGED <<kind, issued, entities, venues, policies, tags, configs, uses, presented>>
  BY DEF RecordDelete, rowVars
<1>2. /\ listed' \in [Owners -> SUBSET RecordIds]
      /\ \A o \in Owners, m \in RecordIds :
           m \in listed'[o] <=> /\ m \in listed[o]
                                /\ ~(m = r /\ o \in entities /\ o = entityOf[r])
                                /\ ~(m = r /\ o \in venues /\ o = venueOf[r])
  <2> DEFINE mid == RemoveMembership(listed, entities, entityOf[r], r)
  <2>1. entities \in SUBSET Owners /\ venues \in SUBSET Owners
        /\ listed \in [Owners -> SUBSET RecordIds]
    BY DEF Inv, TypeOK, Owners
  <2>2. /\ mid \in [Owners -> SUBSET RecordIds]
        /\ \A o \in Owners, m \in RecordIds :
             m \in mid[o] <=> m \in listed[o] /\ ~(m = r /\ o \in entities /\ o = entityOf[r])
    BY ONLY <2>1, r \in RecordIds DEF RemoveMembership
  <2> HIDE DEF mid
  <2> DEFINE fin == RemoveMembership(mid, venues, venueOf[r], r)
  <2>3. /\ fin \in [Owners -> SUBSET RecordIds]
        /\ \A o \in Owners, m \in RecordIds :
             m \in fin[o] <=> m \in mid[o] /\ ~(m = r /\ o \in venues /\ o = venueOf[r])
    BY ONLY <2>1, <2>2, r \in RecordIds DEF RemoveMembership
  <2>4. listed' = fin
    BY <1>1 DEF mid
  <2> HIDE DEF fin
  <2>5. QED
    BY ONLY <2>2, <2>3, <2>4
<1>3. kind[r] \in Kinds
  BY DEF Inv, TypeOK
<1>4. /\ policyUse' \in [PolicyIds -> SUBSET RecordIds]
      /\ \A p \in PolicyIds, m \in RecordIds :
           m \in policyUse'[p] <=>
             /\ m \in policyUse[p]
             /\ ~(/\ kind[r] \notin {"contact", "location"} /\ m = r
                  /\ p \in policies /\ p = policyOf[r])
  <2>1. policyUse \in [PolicyIds -> SUBSET RecordIds]
    BY DEF Inv, TypeOK
  <2> DEFINE moved == MoveUsage(policyUse, policies, RefSet(policyOf[r]), {}, r)
  <2>2. /\ moved \in [PolicyIds -> SUBSET RecordIds]
        /\ \A p \in PolicyIds, m \in RecordIds :
             m \in moved[p] <=>
               IF m # r \/ p \notin policies \/ RefSet(policyOf[r]) = {} THEN m \in policyUse[p]
               ELSE p \in {} \/ (p \notin RefSet(policyOf[r]) /\ m \in policyUse[p])
    BY ONLY <2>1, r \in RecordIds, MoveUsagePointwise
  <2> HIDE DEF moved
  <2>3. \A p \in PolicyIds, m \in RecordIds :
             m \in moved[p] <=> m \in policyUse[p] /\ ~(m = r /\ p \in policies /\ p = policyOf[r])
    BY <2>2 DEF RefSet
  <2>4. CASE kind[r] \in {"contact", "location"}
    BY <1>1, <1>3, <2>1, <2>4, HandlerFacts
  <2>5. CASE kind[r] \notin {"contact", "location"}
    <3>1. policyUse' = moved
      BY <1>1, <1>3, <2>5, HandlerFacts DEF Kinds, moved
    <3>2. QED
      BY <2>2, <2>3, <2>5, <3>1
  <2>6. QED
    BY <2>4, <2>5
<1>5. TypeOK'
  BY <1>1, <1>2, <1>4 DEF Inv, TypeOK
<1>6. Handed'
  BY <1>1, <1>4 DEF Inv, TypeOK, Handed
<1>7. Blank'
  <2>1. \A v \in VenueIds : v \notin venues' => listed'[v] = {}
    BY <1>1, <1>2 DEF Inv, TypeOK, Blank, Owners
  <2>2. QED
    BY <1>1, <2>1 DEF Inv, TypeOK, Blank, live
<1>8. NoMapHeld' /\ HeldRecordsKept'
  <2>1. NoMapHeld'
    BY <1>1 DEF Inv, NoMapHeld, live
  <2>2. ASSUME NEW h \in live, r \in uses[h]
        PROVE  r \in forced'
    BY <1>1, <1>3, <2>2, HandlerFacts DEF Inv, NoMapHeld, HeldRecordsKept
  <2>3. ASSUME NEW h \in live, NEW m \in uses[h], m # r
        PROVE  IF m \in records' THEN h \in users'[m] ELSE m \in forced'
    BY <1>1, <2>3 DEF Inv, TypeOK, HeldRecordsKept
  <2>4. QED
    BY <1>1, <2>1, <2>2, <2>3 DEF HeldRecordsKept, live
<1>9. EntityExact'
  BY <1>1, <1>2 DEF Inv, TypeOK, EntityExact, Owners
<1>10. VenueExact'
  BY <1>1, <1>2 DEF Inv, TypeOK, VenueExact, Owners
<1>11. PolicyExact'
  BY <1>1, <1>3, <1>4 DEF Inv, TypeOK, Handed, PolicyExact, Kinds
<1>12. QED
  BY <1>5, <1>6, <1>7, <1>8, <1>9, <1>10, <1>11 DEF Inv

(***************************************************************************)
(* The requests for a holder.  A record that holder h names lists h after  *)
(* MoveUsage, and no other holder's entry moves.                           *)
(***************************************************************************)
LEMMA UsersMoved ==
    ASSUME Inv, NEW h \in Holders, NEW from \in SUBSET RecordIds, NEW to \in SUBSET RecordIds,
           users' = MoveUsage(users, records, from, to, h)
    PROVE  /\ users' \in [RecordIds -> SUBSET Holders]
           /\ \A r \in RecordIds, g \in Holders : g # h => (g \in users'[r] <=> g \in users[r])
           /\ \A r \in RecordIds : r \in records /\ r \in to /\ (from = to => h \in users[r])
                => h \in users'[r]
           /\ \A r \in RecordIds : r \notin from /\ h \in users[r] => h \in users'[r]
<1>1. users \in [RecordIds -> SUBSET Holders]
  BY DEF Inv, TypeOK
<1>2. /\ users' \in [RecordIds -> SUBSET Holders]
      /\ \A x \in RecordIds, m \in Holders :
           m \in users'[x] <=>
             IF m # h \/ x \notin records \/ from = to THEN m \in users[x]
             ELSE x \in to \/ (x \notin from /\ m \in users[x])
  BY ONLY <1>1, h \in Holders, users' = MoveUsage(users, records, from, to, h), MoveUsagePointwise
<1>3. QED
  BY ONLY <1>2, h \in Holders

LEMMA HolderPostInv ==
    ASSUME Inv, NEW h \in Holders, NEW refs \in SUBSET RecordIds, NEW lists \in SUBSET RecordIds,
           HolderPost(h, refs, lists)
    PROVE  Inv'
<1> USE ReferencesAssumption
<1>1. /\ h \notin issued /\ Nameable(h, refs) /\ refs \subseteq records
      /\ listed' = [o \in Owners |-> IF o = h THEN lists ELSE listed[o]]
      /\ presented' = [o \in Owners |-> IF o = h THEN lists ELSE presented[o]]
      /\ issued' = issued \union {h}
      /\ tags' = tags \union ({h} \intersect TagIds)
      /\ venues' = venues \union ({h} \intersect VenueIds)
      /\ configs' = configs \union ({h} \intersect ConfigIds)
      /\ uses' = [uses EXCEPT ![h] = refs]
      /\ users' = MoveUsage(users, records, {}, refs, h)
      /\ UNCHANGED <<kind, records, entityOf, venueOf, policyOf, inline, entities, policies,
                     policyUse, forced>>
  BY DEF HolderPost, Fresh, Exists
<1>2. /\ users' \in [RecordIds -> SUBSET Holders]
      /\ \A r \in RecordIds, g \in Holders : g # h => (g \in users'[r] <=> g \in users[r])
      /\ \A r \in RecordIds : r \in records /\ r \in refs => h \in users'[r]
  <2>1. /\ users' \in [RecordIds -> SUBSET Holders]
        /\ \A r \in RecordIds, g \in Holders : g # h => (g \in users'[r] <=> g \in users[r])
        /\ \A r \in RecordIds : r \in records /\ r \in refs /\ ({} = refs => h \in users[r])
             => h \in users'[r]
    <3>1. {} \in SUBSET RecordIds /\ users' = MoveUsage(users, records, {}, refs, h)
      BY <1>1
    <3>2. QED
      BY ONLY <3>1, Inv, h \in Holders, refs \in SUBSET RecordIds, UsersMoved
  <2>2. QED
    BY ONLY <2>1
<1>3. h \notin EntityIds /\ live' = live \union {h}
  BY <1>1 DEF Holders, live
<1>4. TypeOK'
  <2>1. listed' \in [Owners -> SUBSET RecordIds] /\ presented' \in [Owners -> SUBSET RecordIds]
    BY <1>1 DEF Inv, TypeOK
  <2>2. issued' \subseteq RecordIds \union Holders \union EntityIds /\ records \subseteq issued'
        /\ inline' \subseteq issued'
    BY <1>1 DEF Inv, TypeOK
  <2>3. uses' \in [Holders -> SUBSET RecordIds]
    BY <1>1 DEF Inv, TypeOK
  <2>4. QED
    BY <1>1, <1>2, <2>1, <2>2, <2>3 DEF Inv, TypeOK
<1>5. Handed'
  BY <1>1 DEF Inv, Handed
<1>6. Blank'
  <2>1. \A g \in Holders : g \notin live' => uses'[g] = {}
    BY <1>1, <1>3 DEF Inv, TypeOK, Blank
  <2>2. \A v \in VenueIds : v \notin venues' => listed'[v] = {}
    BY <1>1 DEF Inv, TypeOK, Blank, Owners
  <2>3. QED
    BY <1>1, <2>1, <2>2 DEF Inv, Blank
<1>7. NoMapHeld'
  <2>1. \A r \in refs : kind[r] # "map"
    BY <1>1 DEF Nameable, OfKind
  <2>2. QED
    BY <1>1, <1>3, <2>1 DEF Inv, TypeOK, NoMapHeld
<1>8. HeldRecordsKept'
  <2>1. ASSUME NEW r \in uses'[h]
        PROVE  r \in records /\ h \in users'[r]
    BY <1>1, <1>2 DEF Inv, TypeOK
  <2>2. ASSUME NEW g \in live, g # h, NEW r \in uses'[g]
        PROVE  IF r \in records THEN g \in users'[r] ELSE r \in forced
    <3>1. g \in Holders /\ r \in uses[g] /\ r \in RecordIds
      BY <1>1, <2>2 DEF Inv, TypeOK, live, Holders
    <3>2. QED
      BY <1>2, <2>2, <3>1 DEF Inv, HeldRecordsKept
  <2>3. QED
    BY <1>1, <1>3, <2>1, <2>2 DEF HeldRecordsKept
<1>9. EntityExact'
  BY <1>1, <1>3 DEF Inv, TypeOK, EntityExact, Owners
<1>10. VenueExact'
  <2>1. h \in VenueIds => \A r \in records : venueOf[r] # h
    BY <1>1 DEF Inv, Handed
  <2>2. ASSUME NEW o \in venues, NEW r \in RecordIds, o # h
        PROVE  /\ r \in records /\ venueOf[r] = o => r \in listed'[o]
               /\ r \in listed'[o] => r \in presented'[o] \/ (r \in records /\ venueOf[r] = o)
    BY <1>1, <2>2 DEF Inv, TypeOK, VenueExact, Owners
  <2>3. h \in VenueIds => listed'[h] = lists /\ presented'[h] = lists
    BY <1>1 DEF Owners
  <2>4. /\ venues' = venues \union ({h} \intersect VenueIds) /\ UNCHANGED <<records, venueOf>>
        /\ venues \subseteq VenueIds
    BY <1>1 DEF Inv, TypeOK
  <2>5. QED
    BY ONLY <2>1, <2>2, <2>3, <2>4 DEF VenueExact
<1>11. PolicyExact'
  BY <1>1 DEF Inv, PolicyExact
<1>12. QED
  BY <1>4, <1>5, <1>6, <1>7, <1>8, <1>9, <1>10, <1>11 DEF Inv

LEMMA VenuePostRolledBackInv ==
    ASSUME Inv, NEW v \in VenueIds, NEW refs \in SUBSET RecordIds, VenuePostRolledBack(v, refs)
    PROVE  Inv'
<1>1. /\ v \notin issued /\ issued' = issued \union {v}
      /\ users' = MoveUsage(users, records, {}, refs, v)
      /\ UNCHANGED <<kind, records, entityOf, venueOf, policyOf, inline, entities, venues,
                     policies, tags, configs, listed, policyUse, uses, forced, presented>>
  BY DEF VenuePostRolledBack, Fresh, rowVars
<1>2. /\ users' \in [RecordIds -> SUBSET Holders]
      /\ \A r \in RecordIds, g \in Holders : g # v => (g \in users'[r] <=> g \in users[r])
  BY <1>1, UsersMoved DEF Holders
<1>3. TypeOK'
  BY <1>1, <1>2 DEF Inv, TypeOK, Holders
<1>4. Handed' /\ Blank' /\ NoMapHeld'
  BY <1>1 DEF Inv, Handed, Blank, NoMapHeld, live
<1>5. HeldRecordsKept'
  <2>1. \A h \in live : h # v /\ h \in Holders
    BY <1>1, ReferencesAssumption DEF Inv, TypeOK, Handed, live, Holders
  <2>2. \A h \in live : uses[h] \subseteq RecordIds
    BY <2>1 DEF Inv, TypeOK
  <2>3. QED
    BY <1>1, <1>2, <2>1, <2>2 DEF Inv, HeldRecordsKept, live
<1>6. EntityExact' /\ VenueExact' /\ PolicyExact'
  BY <1>1 DEF Inv, EntityExact, VenueExact, PolicyExact
<1>7. QED
  BY <1>3, <1>4, <1>5, <1>6 DEF Inv

LEMMA HolderPutInv ==
    ASSUME Inv, NEW h \in Holders, NEW refs \in SUBSET RecordIds, HolderPut(h, refs)
    PROVE  Inv'
<1>1. /\ h \in live /\ Nameable(h, refs)
      /\ \A k \in Kinds : \/ OfKind(refs, k) = OfKind(uses[h], k)
                          \/ OfKind(refs, k) \subseteq records
      /\ uses' = [uses EXCEPT ![h] = refs]
      /\ users' = MoveUsage(users, records, uses[h], refs, h)
      /\ UNCHANGED <<kind, records, issued, entityOf, venueOf, policyOf, inline, entities,
                     venues, policies, tags, configs, listed, policyUse, forced, presented>>
  BY DEF HolderPut, recordVars, rowVars
<1>2. uses[h] \in SUBSET RecordIds
  BY DEF Inv, TypeOK
<1>3. /\ users' \in [RecordIds -> SUBSET Holders]
      /\ \A r \in RecordIds, g \in Holders : g # h => (g \in users'[r] <=> g \in users[r])
      /\ \A r \in RecordIds : r \in records /\ r \in refs /\ (uses[h] = refs => h \in users[r])
           => h \in users'[r]
  BY <1>1, <1>2, UsersMoved
<1>4. TypeOK'
  BY <1>1, <1>3 DEF Inv, TypeOK
<1>5. Handed' /\ Blank'
  BY <1>1 DEF Inv, TypeOK, Handed, Blank, live
<1>6. NoMapHeld'
  <2>1. \A r \in refs : kind[r] # "map"
    BY <1>1 DEF Nameable, OfKind
  <2>2. QED
    BY <1>1, <2>1 DEF Inv, TypeOK, NoMapHeld, live
<1>7. HeldRecordsKept'
  <2>1. ASSUME NEW r \in refs
        PROVE  IF r \in records THEN h \in users'[r] ELSE r \in forced
    <3>1. CASE r \in records
      <4>1. uses[h] = refs => h \in users[r]
        BY <1>1, <3>1 DEF Inv, HeldRecordsKept
      <4>2. QED
        BY <1>3, <3>1, <4>1
    <3>2. CASE r \notin records
      <4>1. kind[r] \in Kinds
        BY DEF Inv, TypeOK
      <4>2. r \in OfKind(refs, kind[r])
        BY DEF OfKind
      <4>3. OfKind(refs, kind[r]) = OfKind(uses[h], kind[r])
        BY <1>1, <3>2, <4>1, <4>2
      <4>4. r \in uses[h]
        BY <4>2, <4>3 DEF OfKind
      <4>5. QED
        BY <1>1, <3>2, <4>4 DEF Inv, HeldRecordsKept
    <3>3. QED
      BY <3>1, <3>2
  <2>2. ASSUME NEW g \in live, g # h, NEW r \in uses[g]
        PROVE  IF r \in records THEN g \in users'[r] ELSE r \in forced
    <3>1. g \in Holders /\ r \in RecordIds
      BY DEF Inv, TypeOK, live, Holders
    <3>2. QED
      BY <1>3, <2>2, <3>1 DEF Inv, HeldRecordsKept
  <2>3. uses'[h] = refs /\ \A g \in Holders : g # h => uses'[g] = uses[g]
    BY <1>1 DEF Inv, TypeOK
  <2>4. live' = live /\ live \subseteq Holders
    BY <1>1 DEF Inv, TypeOK, live, Holders
  <2>5. QED
    BY <1>1, <2>1, <2>2, <2>3, <2>4 DEF HeldRecordsKept
<1>8. EntityExact' /\ VenueExact' /\ PolicyExact'
  BY <1>1 DEF Inv, EntityExact, VenueExact, PolicyExact
<1>9. QED
  BY <1>4, <1>5, <1>6, <1>7, <1>8 DEF Inv

LEMMA HolderDeleteInv ==
    ASSUME Inv, NEW h \in Holders, HolderDelete(h)
    PROVE  Inv'
<1> USE ReferencesAssumption
<1>1. /\ tags' = tags \ {h} /\ venues' = venues \ {h} /\ configs' = configs \ {h}
      /\ users' = MoveUsage(users, records, uses[h], {}, h)
      /\ uses' = [uses EXCEPT ![h] = {}]
      /\ listed' = [o \in Owners |-> IF o = h THEN {} ELSE listed[o]]
      /\ presented' = [o \in Owners |-> IF o = h THEN {} ELSE presented[o]]
      /\ UNCHANGED <<kind, records, issued, entityOf, venueOf, policyOf, inline, entities,
                     policies, policyUse, forced>>
  BY DEF HolderDelete, Gone, recordVars
<1>2. uses[h] \in SUBSET RecordIds
  BY DEF Inv, TypeOK
<1>3. /\ users' \in [RecordIds -> SUBSET Holders]
      /\ \A r \in RecordIds, g \in Holders : g # h => (g \in users'[r] <=> g \in users[r])
  BY <1>1, <1>2, UsersMoved
<1>4. h \notin EntityIds /\ live' = live \ {h} /\ live \subseteq Holders
  BY <1>1 DEF Inv, TypeOK, Holders, live
<1>5. TypeOK'
  BY <1>1, <1>3 DEF Inv, TypeOK
<1>6. Handed'
  BY <1>1 DEF Inv, Handed
<1>7. Blank'
  BY <1>1, <1>4 DEF Inv, TypeOK, Blank, Owners
<1>8. NoMapHeld'
  BY <1>1, <1>4 DEF Inv, TypeOK, NoMapHeld
<1>9. HeldRecordsKept'
  <2>1. ASSUME NEW g \in live, g # h, NEW r \in uses'[g]
        PROVE  IF r \in records THEN g \in users'[r] ELSE r \in forced
    <3>1. g \in Holders /\ r \in uses[g] /\ r \in RecordIds
      BY <1>1, <1>4, <2>1 DEF Inv, TypeOK
    <3>2. QED
      BY <1>3, <2>1, <3>1 DEF Inv, HeldRecordsKept
  <2>2. QED
    BY <1>1, <1>4, <2>1 DEF HeldRecordsKept
<1>10. EntityExact'
  BY <1>1, <1>4 DEF Inv, TypeOK, EntityExact, Owners
<1>11. VenueExact'
  BY <1>1 DEF Inv, TypeOK, VenueExact, Owners
<1>12. PolicyExact'
  BY <1>1 DEF Inv, PolicyExact
<1>13. QED
  BY <1>5, <1>6, <1>7, <1>8, <1>9, <1>10, <1>11, <1>12 DEF Inv

LEMMA HolderDroppedInv ==
    ASSUME Inv, NEW h \in Holders, HolderDropped(h)
    PROVE  Inv'
<1> USE ReferencesAssumption
<1>1. /\ tags' = tags \ {h} /\ venues' = venues \ {h} /\ configs' = configs \ {h}
      /\ uses' = [uses EXCEPT ![h] = {}]
      /\ listed' = [o \in Owners |-> IF o = h THEN {} ELSE listed[o]]
      /\ presented' = [o \in Owners |-> IF o = h THEN {} ELSE presented[o]]
      /\ UNCHANGED <<kind, records, issued, entityOf, venueOf, policyOf, inline, users, entities,
                     policies, policyUse, forced>>
  BY DEF HolderDropped, Gone, recordVars
<1>2. h \notin EntityIds /\ live' = live \ {h} /\ live \subseteq Holders
  BY <1>1 DEF Inv, TypeOK, Holders, live
<1>3. TypeOK' /\ Handed'
  <2>1. TypeOK'
    BY <1>1 DEF Inv, TypeOK
  <2>2. Handed'
    BY <1>1 DEF Inv, Handed
  <2>3. QED
    BY <2>1, <2>2
<1>4. Blank'
  BY <1>1, <1>2 DEF Inv, TypeOK, Blank, Owners
<1>5. NoMapHeld'
  BY <1>1, <1>2 DEF Inv, TypeOK, NoMapHeld
<1>6. HeldRecordsKept'
  BY <1>1, <1>2 DEF Inv, TypeOK, HeldRecordsKept
<1>7. EntityExact'
  BY <1>1, <1>2 DEF Inv, TypeOK, EntityExact, Owners
<1>8. VenueExact'
  BY <1>1 DEF Inv, TypeOK, VenueExact, Owners
<1>9. PolicyExact'
  BY <1>1 DEF Inv, PolicyExact
<1>10. QED
  BY <1>3, <1>4, <1>5, <1>6, <1>7, <1>8, <1>9 DEF Inv

(***************************************************************************)
(* createObjects.                                                          *)
(***************************************************************************)
LEMMA InlineInv ==
    ASSUME Inv, NEW v \in VenueIds, NEW r \in RecordIds, NEW entity \in entities \union {NoId},
           NEW policy \in PolicyIds \union {NoId}, NEW claimed \in SUBSET Holders,
           InlineLocation(v, r, entity, policy, claimed),
           v \in venues \/ v \notin issued,
           {r} \subseteq issued', issued \subseteq issued', issued' \subseteq issued \union {v, r},
           v \in issued',
           venues' = venues \union {v},
           UNCHANGED <<kind, venueOf, entities, policies, tags, configs, policyUse, forced,
                       presented>>
    PROVE  Inv'
<1> USE ReferencesAssumption
<1> DEFINE locations == OfKind(uses[v], "location")
           moved == MoveUsage(users, records, locations, {}, v)
<1>1. /\ kind[r] = "location" /\ r \notin issued
      /\ records' = records \union {r} /\ inline' = inline \union {r}
      /\ entityOf' = [entityOf EXCEPT ![r] = entity]
      /\ policyOf' = [policyOf EXCEPT ![r] = policy]
      /\ listed' = AddMembership(listed, entities, entity, r)
      /\ uses' = [uses EXCEPT ![v] = OfKind(@, "contact") \union {r}]
      /\ users' = [moved EXCEPT ![r] = claimed \union {v}]
  BY DEF InlineLocation, Fresh
<1>2. /\ listed' \in [Owners -> SUBSET RecordIds]
      /\ \A o \in Owners, m \in RecordIds :
           m \in listed'[o] <=> m \in listed[o] \/ (m = r /\ o \in entities /\ o = entity)
  <2>1. entities \in SUBSET Owners /\ listed \in [Owners -> SUBSET RecordIds]
    BY DEF Inv, TypeOK, Owners
  <2>2. listed' = AddMembership(listed, entities, entity, r)
    BY <1>1
  <2>3. QED
    BY ONLY <2>1, <2>2, r \in RecordIds DEF AddMembership
<1>3. v \in Holders /\ live' = live \union {v} /\ live \subseteq Holders
  BY DEF Inv, TypeOK, Holders, live
<1>4. /\ users \in [RecordIds -> SUBSET Holders] /\ uses \in [Holders -> SUBSET RecordIds]
      /\ records \subseteq RecordIds /\ records \subseteq issued
      /\ \A h \in Holders : uses[h] \subseteq RecordIds
  BY DEF Inv, TypeOK, Handed
<1>5. /\ moved \in [RecordIds -> SUBSET Holders]
      /\ \A x \in RecordIds, m \in Holders :
           m \in moved[x] <=> m \in users[x] /\ ~(m = v /\ x \in records /\ x \in locations)
  <2> DEFINE to == {}
  <2>1. moved = MoveUsage(users, records, locations, to, v)
    OBVIOUS
  <2> HIDE DEF moved, locations, to
  <2>2. /\ moved \in [RecordIds -> SUBSET Holders]
        /\ \A x \in RecordIds, m \in Holders :
             m \in moved[x] <=>
               IF m # v \/ x \notin records \/ locations = to THEN m \in users[x]
               ELSE x \in to \/ (x \notin locations /\ m \in users[x])
    <3>1. v \in Holders /\ users \in [RecordIds -> SUBSET Holders]
      BY <1>3, <1>4
    <3>2. QED
      BY ONLY <2>1, <3>1, MoveUsagePointwise
  <2>3. QED
    BY ONLY <2>2 DEF to
<1>6. uses'[v] = OfKind(uses[v], "contact") \union {r} /\ \A h \in Holders : h # v => uses'[h] = uses[h]
  BY <1>1, <1>3, <1>4
<1> HIDE DEF moved
<1>7. TypeOK'
  <2>1. users' \in [RecordIds -> SUBSET Holders]
    BY <1>1, <1>3, <1>5
  <2>2. uses' \in [Holders -> SUBSET RecordIds]
    BY <1>1, <1>3, <1>4 DEF OfKind
  <2>3. issued' \subseteq RecordIds \union Holders \union EntityIds /\ records' \subseteq issued'
        /\ inline' \subseteq issued'
    BY <1>1, <1>3 DEF Inv, TypeOK
  <2>4. QED
    BY <1>1, <1>2, <2>1, <2>2, <2>3 DEF Inv, TypeOK
<1>8. Handed'
  <2>1. entities \subseteq issued
    BY DEF Inv, Handed
  <2>2. \A m \in records' : entityOf'[m] = IF m = r THEN entity ELSE entityOf[m]
    BY <1>1, <1>4 DEF Inv, TypeOK
  <2>3. \A m \in records' : {entityOf'[m], venueOf'[m]} \subseteq issued' \union {NoId}
    BY <1>1, <1>4, <2>1, <2>2 DEF Inv, Handed, Blank
  <2>4. QED
    BY <1>1, <1>4, <2>3 DEF Inv, Handed
<1>9. Blank'
  <2>1. \A h \in Holders : h \notin live' => uses'[h] = {}
    BY <1>3, <1>6 DEF Inv, Blank
  <2>2. \A o \in VenueIds : o \notin venues' => listed'[o] = {}
    <3>1. \A o \in VenueIds : o \in Owners /\ o \notin entities
      BY DEF Inv, TypeOK, Owners
    <3>2. QED
      BY <1>2, <3>1 DEF Inv, Blank
  <2>3. QED
    BY <1>1, <2>1, <2>2 DEF Inv, Blank
<1>10. v \in live \/ uses[v] = {}
  BY <1>3 DEF Inv, Blank
<1>11. NoMapHeld'
  <2>1. \A m \in uses'[v] : kind[m] # "map"
    BY <1>1, <1>6 DEF OfKind
  <2>2. QED
    BY <1>3, <1>6, <2>1 DEF Inv, NoMapHeld
<1>12. HeldRecordsKept'
  <2>1. ASSUME NEW g \in live, g # v, NEW m \in uses[g]
        PROVE  IF m \in records' THEN g \in users'[m] ELSE m \in forced
    <3>1. m \in RecordIds /\ g \in Holders
      BY <1>3, <1>4
    <3>2. IF m \in records THEN g \in users[m] ELSE m \in forced
      BY DEF Inv, HeldRecordsKept
    <3>3. m # r
      BY <1>1, <1>4, <3>2 DEF Inv, Handed
    <3>4. QED
      BY <1>1, <1>5, <2>1, <3>1, <3>2, <3>3
  <2>2. ASSUME NEW m \in OfKind(uses[v], "contact")
        PROVE  IF m \in records' THEN v \in users'[m] ELSE m \in forced
    <3>1. m \in RecordIds /\ m \in uses[v] /\ kind[m] = "contact" /\ m \notin locations
      BY <1>3, <1>4 DEF OfKind
    <3>2. IF m \in records THEN v \in users[m] ELSE m \in forced
      BY <1>10, <3>1 DEF Inv, HeldRecordsKept
    <3>3. m # r
      BY <1>1, <3>1
    <3> HIDE DEF locations
    <3>4. QED
      BY <1>1, <1>3, <1>5, <3>1, <3>2, <3>3
  <2>3. v \in users'[r] /\ r \in records'
    BY <1>1, <1>5
  <2>4. QED
    BY <1>3, <1>6, <2>1, <2>2, <2>3 DEF HeldRecordsKept
<1>13. EntityExact'
  BY <1>1, <1>2, <1>4 DEF Inv, TypeOK, EntityExact, Owners
<1>14. VenueExact'
  <2>1. \A m \in records' : m \in records \/ venueOf[m] = NoId
    BY <1>1, <1>4 DEF Inv, Blank
  <2>2. \A o \in VenueIds : o \in Owners /\ o \notin entities
    BY DEF Inv, TypeOK, Owners
  <2>3. v \notin venues => listed[v] = {} /\ \A m \in records : venueOf[m] # v
    BY DEF Inv, Blank, Handed
  <2>4. \A o \in venues : o \in VenueIds
    BY DEF Inv, TypeOK
  <2>5. QED
    BY <1>1, <1>2, <2>1, <2>2, <2>3, <2>4 DEF Inv, VenueExact
<1>15. PolicyExact'
  BY <1>1, <1>4 DEF Inv, TypeOK, Handed, PolicyExact
<1>16. QED
  BY <1>7, <1>8, <1>9, <1>11, <1>12, <1>13, <1>14, <1>15 DEF Inv

LEMMA VenueInlineInv ==
    ASSUME Inv, NEW v \in VenueIds, NEW r \in RecordIds, NEW entity \in entities \union {NoId},
           NEW policy \in PolicyIds \union {NoId}, NEW claimed \in SUBSET Holders,
           \/ VenuePostInline(v, r, entity, policy, claimed)
           \/ VenuePutInline(v, r, entity, policy, claimed)
    PROVE  Inv'
<1>1. CASE VenuePostInline(v, r, entity, policy, claimed)
  <2>1. /\ InlineLocation(v, r, entity, policy, claimed) /\ v \notin issued
        /\ issued' = issued \union {v, r} /\ venues' = venues \union {v}
        /\ UNCHANGED <<kind, venueOf, entities, policies, tags, configs, policyUse, forced,
                       presented>>
    BY <1>1 DEF VenuePostInline, Fresh
  <2>2. QED
    BY <2>1, InlineInv
<1>2. CASE VenuePutInline(v, r, entity, policy, claimed)
  <2>1. /\ InlineLocation(v, r, entity, policy, claimed) /\ v \in venues
        /\ issued' = issued \union {r}
        /\ UNCHANGED <<kind, venueOf, entities, venues, policies, tags, configs, policyUse,
                       forced, presented>>
    BY <1>2 DEF VenuePutInline, rowVars
  <2>2. v \in issued' /\ venues' = venues \union {v}
    BY <2>1 DEF Inv, Handed
  <2>3. QED
    BY <2>1, <2>2, InlineInv
<1>3. QED
  BY <1>1, <1>2

(***************************************************************************)
(* The owners, and the check at startup.                                   *)
(***************************************************************************)
LEMMA OwnerInv ==
    ASSUME Inv, OwnerStep
    PROVE  Inv'
<1> USE ReferencesAssumption DEF recordVars
<1>0. ASSUME NEW e \in EntityIds, NEW lists \in SUBSET RecordIds, EntityPost(e, lists)
      PROVE  Inv'
  <2> USE <1>0 DEF EntityPost, Fresh
  <2>1. /\ listed' \in [Owners -> SUBSET RecordIds] /\ presented' \in [Owners -> SUBSET RecordIds]
        /\ listed'[e] = lists /\ presented'[e] = lists
        /\ \A o \in Owners : o # e => listed'[o] = listed[o] /\ presented'[o] = presented[o]
    BY DEF Inv, TypeOK, Owners
  <2>2. TypeOK'
    BY <2>1 DEF Inv, TypeOK
  <2>3. Handed'
    BY DEF Inv, TypeOK, Handed
  <2>4. Blank'
    BY <2>1 DEF Inv, TypeOK, Blank, live, Owners
  <2>5. NoMapHeld' /\ HeldRecordsKept' /\ PolicyExact'
    BY DEF Inv, NoMapHeld, HeldRecordsKept, PolicyExact, live
  <2>6. EntityExact'
    <3>1. e \notin entities /\ entities' = entities \union {e} /\ entities \subseteq Owners
      BY DEF Inv, TypeOK, Handed, Owners
    <3>2. \A r \in records : entityOf[r] # e
      BY DEF Inv, Handed
    <3>3. QED
      BY <2>1, <3>1, <3>2 DEF Inv, EntityExact
  <2>7. VenueExact'
    <3>1. \A o \in venues : o \in Owners /\ o # e
      BY DEF Inv, TypeOK, Owners
    <3>2. QED
      BY <2>1, <3>1 DEF Inv, VenueExact
  <2>8. QED
    BY <2>2, <2>3, <2>4, <2>5, <2>6, <2>7 DEF Inv
<1>1. ASSUME NEW e \in EntityIds, EntityDelete(e)
      PROVE  Inv'
  <2> USE <1>1 DEF EntityDelete
  <2>1. TypeOK' /\ Handed'
    BY DEF Inv, TypeOK, Handed, Owners
  <2>2. Blank'
    BY DEF Inv, TypeOK, Blank, live, Owners
  <2>3. NoMapHeld' /\ HeldRecordsKept' /\ PolicyExact'
    BY DEF Inv, NoMapHeld, HeldRecordsKept, PolicyExact, live
  <2>4. EntityExact' /\ VenueExact'
    BY DEF Inv, TypeOK, EntityExact, VenueExact, Owners
  <2>5. QED
    BY <2>1, <2>2, <2>3, <2>4 DEF Inv
<1>2. ASSUME NEW p \in PolicyIds, PolicyDelete(p)
      PROVE  Inv'
  <2> USE <1>2 DEF PolicyDelete
  <2>1. TypeOK' /\ Handed'
    BY DEF Inv, TypeOK, Handed
  <2>2. Blank' /\ NoMapHeld' /\ HeldRecordsKept' /\ EntityExact' /\ VenueExact'
    BY DEF Inv, Blank, NoMapHeld, HeldRecordsKept, EntityExact, VenueExact, live
  <2>3. PolicyExact'
    BY DEF Inv, TypeOK, PolicyExact
  <2>4. QED
    BY <2>1, <2>2, <2>3 DEF Inv
<1>3. Listable \in SUBSET RecordIds
  BY DEF Listable, Known
<1>4. QED
  BY <1>0, <1>1, <1>2, <1>3 DEF OwnerStep

LEMMA RestartInv ==
    ASSUME Inv, Restart
    PROVE  Inv'
<1> USE ReferencesAssumption DEF Restart, recordVars, rowVars
<1>1. \A h \in Holders : uses'[h] \subseteq uses[h]
  OBVIOUS
<1>2. /\ listed' \in [Owners -> SUBSET RecordIds]
      /\ \A o \in Owners : listed'[o] \subseteq listed[o] /\ listed[o] \intersect records \subseteq listed'[o]
      /\ \A o \in venues : listed'[o] = listed[o]
  BY DEF Inv, TypeOK, OfKind, Owners
<1>3. TypeOK' /\ Handed'
  BY <1>1, <1>2 DEF Inv, TypeOK, Handed
<1>4. Blank'
  BY <1>1, <1>2 DEF Inv, Blank, live, Owners
<1>5. NoMapHeld' /\ HeldRecordsKept'
  <2>1. live' = live /\ live \subseteq Holders
    BY DEF Inv, TypeOK, live, Holders
  <2>2. QED
    BY <1>1, <2>1 DEF Inv, NoMapHeld, HeldRecordsKept
<1>6. EntityExact'
  <2>1. \A o \in entities : o \in Owners
    BY DEF Inv, TypeOK, Owners
  <2>2. QED
    BY <1>2, <2>1 DEF Inv, EntityExact
<1>7. VenueExact' /\ PolicyExact'
  BY <1>2 DEF Inv, VenueExact, PolicyExact
<1>8. QED
  BY <1>3, <1>4, <1>5, <1>6, <1>7 DEF Inv

LEMMA NextInv == Inv /\ [Next]_vars => Inv'
<1> SUFFICES ASSUME Inv, [Next]_vars
             PROVE  Inv'
  OBVIOUS
<1>1. ASSUME RecordStep
      PROVE  Inv'
  <2>1. PICK r \in RecordIds :
          \/ \E entity \in EntityIds \union {NoId}, venue \in VenueIds \union {NoId},
                policy \in PolicyIds \union {NoId}, claimed \in {{}, Known(ConfigIds)} :
                  /\ {entity, venue} \subseteq issued \union {NoId}
                  /\ claimed = {} \/ Handler(r).claims
                  /\ RecordPost(r, entity, venue, policy, claimed)
          \/ \E entity \in EntityIds \union {NoId} : RecordPut(r, entity, Keep, Keep)
          \/ \E venue \in VenueIds \union {NoId} : RecordPut(r, Keep, venue, Keep)
          \/ \E policy \in PolicyIds \union {NoId} : RecordPut(r, Keep, Keep, policy)
          \/ \E force \in BOOLEAN : RecordDelete(r, force)
    BY <1>1 DEF RecordStep
  <2>2. ASSUME NEW entity \in EntityIds \union {NoId}, NEW venue \in VenueIds \union {NoId},
               NEW policy \in PolicyIds \union {NoId}, NEW claimed \in {{}, Known(ConfigIds)},
               {entity, venue} \subseteq issued \union {NoId},
               RecordPost(r, entity, venue, policy, claimed)
        PROVE  Inv'
    <3>1. claimed \in SUBSET Holders
      BY <2>2 DEF Known, Holders
    <3>2. QED
      BY <2>2, <3>1, RecordPostInv
  <2>3. ASSUME NEW entity \in EntityIds \union {NoId}, RecordPut(r, entity, Keep, Keep)
        PROVE  Inv'
    BY <2>3, RecordPutInv
  <2>4. ASSUME NEW venue \in VenueIds \union {NoId}, RecordPut(r, Keep, venue, Keep)
        PROVE  Inv'
    BY <2>4, RecordPutInv
  <2>5. ASSUME NEW policy \in PolicyIds \union {NoId}, RecordPut(r, Keep, Keep, policy)
        PROVE  Inv'
    BY <2>5, RecordPutInv
  <2>6. ASSUME NEW force \in BOOLEAN, RecordDelete(r, force)
        PROVE  Inv'
    BY <2>6, RecordDeleteInv
  <2>7. QED
    BY <2>1, <2>2, <2>3, <2>4, <2>5, <2>6
<1>2. ASSUME HolderStep
      PROVE  Inv'
  <2>1. ASSUME NEW h \in Holders, NEW refs \in SUBSET RecordIds,
               NEW lists \in {{}, Listable},
               HolderPost(h, refs, lists)
        PROVE  Inv'
    <3>1. lists \in SUBSET RecordIds
      BY DEF Listable, Known
    <3>2. QED
      BY <2>1, <3>1, HolderPostInv
  <2>2. ASSUME NEW h \in Holders, NEW refs \in SUBSET RecordIds, HolderPut(h, refs)
        PROVE  Inv'
    BY <2>2, HolderPutInv
  <2>3. ASSUME NEW h \in Holders, HolderDelete(h)
        PROVE  Inv'
    BY <2>3, HolderDeleteInv
  <2>4. ASSUME NEW v \in VenueIds, NEW refs \in SUBSET RecordIds, VenuePostRolledBack(v, refs)
        PROVE  Inv'
    BY <2>4, VenuePostRolledBackInv
  <2>5. ASSUME NEW h \in Holders, HolderDropped(h)
        PROVE  Inv'
    BY <2>5, HolderDroppedInv
  <2>6. ASSUME NEW v \in VenueIds, NEW r \in RecordIds, NEW entity \in entities \union {NoId},
               NEW policy \in PolicyIds \union {NoId}, NEW claimed \in {{}, Known(TagIds)},
               \/ VenuePostInline(v, r, entity, policy, claimed)
               \/ VenuePutInline(v, r, entity, policy, claimed)
        PROVE  Inv'
    <3>1. claimed \in SUBSET Holders
      BY DEF Known, Holders
    <3>2. QED
      BY <2>6, <3>1, VenueInlineInv
  <2>7. QED
    BY <1>2, <2>1, <2>2, <2>3, <2>4, <2>5, <2>6 DEF HolderStep
<1>3. CASE UNCHANGED vars
  <2> USE <1>3 DEF vars, recordVars, rowVars
  <2>1. TypeOK' /\ Handed' /\ Blank'
    BY DEF Inv, TypeOK, Handed, Blank, live
  <2>2. NoMapHeld' /\ HeldRecordsKept' /\ EntityExact' /\ VenueExact' /\ PolicyExact'
    BY DEF Inv, NoMapHeld, HeldRecordsKept, EntityExact, VenueExact, PolicyExact, live
  <2>3. QED
    BY <2>1, <2>2 DEF Inv
<1>4. QED
  BY <1>1, <1>2, <1>3, OwnerInv, RestartInv DEF Next

(***************************************************************************)
(* Every variable keeps its type, and only rows that were handed out       *)
(* exist, through all the requests of the four handlers and the holders.   *)
(***************************************************************************)
THEOREM TypeCorrect == Spec => []TypeOK
<1>1. Inv => TypeOK
  BY DEF Inv
<1>2. QED
  BY InitInv, NextInv, <1>1, PTL DEF Spec

(***************************************************************************)
(* A record an existing tag, venue or configuration names exists and lists *)
(* its holder, unless it was deleted with force: the inUse test of the     *)
(* DELETE handlers is right to trust the list.                             *)
(***************************************************************************)
THEOREM HeldRecordsKeptTheorem == Spec => []HeldRecordsKept
<1>1. Inv => HeldRecordsKept
  BY DEF Inv
<1>2. QED
  BY InitInv, NextInv, <1>1, PTL DEF Spec

(***************************************************************************)
(* What an entity, a venue or a policy lists is what names it, but for the *)
(* records a venue's own POST listed, the locations created inline and     *)
(* the deleted contacts and locations whose DELETE frees the wrong row.    *)
(***************************************************************************)
THEOREM ListsExactTheorem == Spec => []ListsExact
<1>1. Inv => ListsExact
  BY ExactLists DEF Inv
<1>2. QED
  BY InitInv, NextInv, <1>1, PTL DEF Spec

-----------------------------------------------------------------------------
(* Operators.  The rows of an operator and how far the request is.         *)
(***************************************************************************)
Phases ==
    {"idle", "entity", "child", "operator", "class", "undo child", "undo entity",
     "drop entity", "drop child", "drop operator", "drop classes"}

OperatorsTypeOK ==
    /\ operators \in SUBSET OperatorIds
    /\ registration \in [OperatorIds -> RegistrationIds \union {""}]
    /\ opEntities \in SUBSET OperatorIds /\ rootChildren \in SUBSET OperatorIds
    /\ classes \in SUBSET ClassIds /\ defaults \in SUBSET classes
    /\ classOf \in [ClassIds -> OperatorIds]
    /\ request \in [at : Phases, op : OperatorIds]
    /\ disturbed \in SUBSET OperatorIds

\* Every row, and the operator of every class, was handed out: a new operator
\* meets nothing of its own.
RowsUsed ==
    /\ operators \subseteq used /\ opEntities \subseteq used /\ rootChildren \subseteq used
    /\ classes \subseteq used
    /\ \A c \in classes : classOf[c] \in used
    /\ DefaultOperator \in used /\ request.op \in used

\* How far the request under way has come: which of the four rows its operator has.
Halfway ==
    /\ ~At("idle") => request.op # DefaultOperator
    /\ ~At("idle") /\ request.op \notin disturbed =>
        /\ request.op \in operators <=>
             request.at \in {"class", "drop entity", "drop child", "drop operator"}
        /\ request.op \in opEntities <=>
             request.at \in {"child", "operator", "class", "undo child", "undo entity", "drop entity"}
        /\ request.op \in rootChildren <=>
             request.at \in {"operator", "class", "undo child", "drop entity", "drop child"}
        /\ request.at \in {"entity", "child", "operator", "class", "undo child", "undo entity"} =>
             \A c \in classes : classOf[c] # request.op
    /\ request.at \in {"entity", "child", "operator"} =>
        \A x \in operators : registration[x] # registration[request.op]

OperatorsInv == OperatorsTypeOK /\ RowsUsed /\ Halfway /\ OperatorsWhole

LEMMA OperatorsInitInv == OperatorsInit => OperatorsInv
<1> SUFFICES ASSUME OperatorsInit PROVE OperatorsInv
  OBVIOUS
<1> DEFINE c == CHOOSE x \in ClassIds : TRUE
<1>1. c \in ClassIds
  BY OperatorsAssumption
<1> HIDE DEF c
<1>2. /\ operators = {DefaultOperator} /\ registration = [o \in OperatorIds |-> ""]
      /\ opEntities = {} /\ rootChildren = {} /\ classes = {c} /\ defaults = {c}
      /\ classOf = [x \in ClassIds |-> DefaultOperator]
      /\ used = {DefaultOperator, c}
      /\ request = [at |-> "idle", op |-> DefaultOperator]
      /\ disturbed = {}
  BY DEF OperatorsInit, Idle, c
<1>3. OperatorsTypeOK
  BY <1>1, <1>2, OperatorsAssumption DEF OperatorsTypeOK, Phases
<1>4. RowsUsed /\ Halfway
  BY <1>1, <1>2 DEF RowsUsed, Halfway, At
<1>5. OperatorsWhole
  BY <1>1, <1>2 DEF OperatorsWhole, At
<1>6. QED
  BY <1>3, <1>4, <1>5 DEF OperatorsInv

(***************************************************************************)
(* POST.                                                                   *)
(***************************************************************************)
LEMMA OperatorPostInv ==
    ASSUME OperatorsInv, NEW o \in OperatorIds, NEW r \in RegistrationIds, OperatorPost(o, r)
    PROVE  OperatorsInv'
<1> USE DEF OperatorPost, OperatorsInv, At
<1>0. request' = [at |-> "entity", op |-> o] /\ request'.at = "entity" /\ request'.op = o
  OBVIOUS
<1>1. OperatorsTypeOK'
  BY DEF OperatorsTypeOK, Phases
<1>2. RowsUsed'
  BY <1>0 DEF RowsUsed
<1>3. Halfway'
  BY <1>0 DEF Halfway, RowsUsed, OperatorsTypeOK
<1>4. OperatorsWhole'
  BY <1>0 DEF OperatorsWhole, OperatorsTypeOK, RowsUsed
<1>5. QED
  BY <1>1, <1>2, <1>3, <1>4

(***************************************************************************)
(* A step of the request under way that writes only rows of its own        *)
(* operator and goes on: what is said of the others stays true.            *)
(***************************************************************************)
LEMMA GoesOn ==
    ASSUME OperatorsInv, NEW to \in Phases \ {"idle"},
           ~At("idle"), request' = [request EXCEPT !.at = to],
           operators' \in {operators, operators \ {request.op}},
           opEntities' \in {opEntities, opEntities \union {request.op}, opEntities \ {request.op}},
           rootChildren' \in {rootChildren, rootChildren \union {request.op},
                              rootChildren \ {request.op}},
           UNCHANGED <<registration, classes, classOf, defaults, used, disturbed>>,
           Halfway'
    PROVE  OperatorsInv'
<1>1. /\ request'.at = to /\ request'.op = request.op
      /\ request' \in [at : Phases, op : OperatorIds]
  BY DEF OperatorsInv, OperatorsTypeOK
<1>2. OperatorsTypeOK'
  BY <1>1 DEF OperatorsInv, OperatorsTypeOK
<1>3. RowsUsed'
  BY <1>1 DEF OperatorsInv, OperatorsTypeOK, RowsUsed
<1>4. OperatorsWhole'
  BY <1>1 DEF OperatorsInv, OperatorsTypeOK, OperatorsWhole, At
<1>5. QED
  BY <1>2, <1>3, <1>4 DEF OperatorsInv

(***************************************************************************)
(* The end of a request that leaves its operator whole, absent or recorded *)
(* as disturbed.                                                           *)
(***************************************************************************)
Left(o) ==
    \/ o \in disturbed'
    \/ /\ o \in operators' <=> o \in opEntities'
       /\ o \in operators' <=> o \in rootChildren'
       /\ \A c \in classes' : classOf'[c] = o => o \in operators'
       /\ \A c, d \in defaults' : classOf'[c] = o /\ classOf'[d] = o => c = d

LEMMA Ends ==
    ASSUME OperatorsInv, ~At("idle"), Done, Left(request.op),
           operators' \in {operators, operators \ {request.op}},
           opEntities' \in {opEntities, opEntities \ {request.op}},
           rootChildren' = rootChildren,
           classes' \subseteq classes, defaults' = defaults \intersect classes',
           disturbed' \in {disturbed, disturbed \union {request.op}},
           UNCHANGED <<registration, classOf, used>>
    PROVE  OperatorsInv'
<1>1. /\ request'.at = "idle" /\ request'.op = DefaultOperator
      /\ request' \in [at : Phases, op : OperatorIds]
  BY OperatorsAssumption DEF Done, Idle, Phases
<1>2. OperatorsTypeOK'
  BY <1>1 DEF OperatorsInv, OperatorsTypeOK
<1>3. RowsUsed'
  BY <1>1 DEF OperatorsInv, OperatorsTypeOK, RowsUsed
<1>4. Halfway'
  BY <1>1 DEF Halfway, At
<1>5. OperatorsWhole'
  <2> DEFINE broken == disturbed \union {request.op}
  <2>1. /\ \A o \in OperatorIds \ (broken \union {DefaultOperator}) :
             (o \in operators <=> o \in opEntities) /\ (o \in operators <=> o \in rootChildren)
        /\ \A c \in classes : classOf[c] \in operators \union broken
        /\ \A c, d \in defaults : classOf[c] = classOf[d] => c = d \/ classOf[c] \in broken
        /\ \A o, x \in operators : registration[o] = registration[x] => o = x
    BY DEF OperatorsInv, OperatorsWhole, At
  <2>2. disturbed' \subseteq broken /\ disturbed \subseteq disturbed'
    OBVIOUS
  <2>3. \A o \in OperatorIds \ (disturbed' \union {DefaultOperator}) :
             (o \in operators' <=> o \in opEntities') /\ (o \in operators' <=> o \in rootChildren')
    BY <2>1, <2>2 DEF Left
  <2>4. \A c \in classes' : classOf'[c] \in operators' \union disturbed'
    BY <2>1, <2>2 DEF Left
  <2>5. \A c, d \in defaults' : classOf'[c] = classOf'[d] => c = d \/ classOf'[c] \in disturbed'
    BY <2>1, <2>2 DEF Left
  <2>6. \A o, x \in operators' : registration'[o] = registration'[x] => o = x
    BY <2>1
  <2>7. QED
    BY <1>1, <2>3, <2>4, <2>5, <2>6 DEF OperatorsWhole, At
<1>6. QED
  BY <1>2, <1>3, <1>4, <1>5 DEF OperatorsInv

LEMMA PostEntityInv ==
    ASSUME OperatorsInv, NEW stored \in BOOLEAN, PostEntity(stored)
    PROVE  OperatorsInv'
<1>1. CASE stored
  <2>1. /\ request.at = "entity" /\ request' = [request EXCEPT !.at = "child"]
        /\ opEntities' = opEntities \union {request.op}
        /\ UNCHANGED <<operators, registration, rootChildren, classes, classOf, defaults,
                       used, disturbed>>
    BY <1>1 DEF PostEntity, At, Goto
  <2>2. Halfway'
    BY <2>1 DEF OperatorsInv, OperatorsTypeOK, Halfway, At
  <2>3. QED
    BY <2>1, <2>2, GoesOn DEF At, Phases
<1>2. CASE ~stored
  <2>1. /\ request.at = "entity" /\ Done
        /\ UNCHANGED <<operators, registration, opEntities, rootChildren, classes, classOf,
                       defaults, used, disturbed>>
    BY <1>2 DEF PostEntity, At
  <2>2. Left(request.op)
    BY <2>1 DEF OperatorsInv, OperatorsTypeOK, Halfway, At, Left
  <2>3. defaults' = defaults \intersect classes'
    BY <2>1 DEF OperatorsInv, OperatorsTypeOK
  <2>4. QED
    BY <2>1, <2>2, <2>3, Ends DEF At
<1>3. QED
  BY <1>1, <1>2

LEMMA PostChildInv ==
    ASSUME OperatorsInv, PostChild
    PROVE  OperatorsInv'
<1>1. /\ request.at = "child" /\ request' = [request EXCEPT !.at = "operator"]
      /\ rootChildren' = rootChildren \union {request.op}
      /\ UNCHANGED <<operators, registration, opEntities, classes, classOf, defaults, used,
                     disturbed>>
  BY DEF PostChild, At, Goto
<1>2. Halfway'
  BY <1>1 DEF OperatorsInv, OperatorsTypeOK, Halfway, At
<1>3. QED
  BY <1>1, <1>2, GoesOn DEF At, Phases

LEMMA PostOperatorInv ==
    ASSUME OperatorsInv, NEW stored \in BOOLEAN, PostOperator(stored)
    PROVE  OperatorsInv'
<1>1. CASE stored
  <2>1. /\ request.at = "operator" /\ request' = [request EXCEPT !.at = "class"]
        /\ operators' = operators \union {request.op}
        /\ UNCHANGED <<registration, opEntities, rootChildren, classes, classOf, defaults,
                       used, disturbed>>
    BY <1>1 DEF PostOperator, At, Goto
  <2>2. /\ request'.at = "class" /\ request'.op = request.op
        /\ request' \in [at : Phases, op : OperatorIds]
    BY <2>1 DEF OperatorsInv, OperatorsTypeOK, Phases
  <2>3. OperatorsTypeOK'
    BY <2>1, <2>2 DEF OperatorsInv, OperatorsTypeOK
  <2>4. RowsUsed'
    BY <2>1, <2>2 DEF OperatorsInv, OperatorsTypeOK, RowsUsed
  <2>5. Halfway'
    BY <2>1, <2>2 DEF OperatorsInv, OperatorsTypeOK, Halfway, At
  <2>6. \A o, x \in operators' : registration'[o] = registration'[x] => o = x
    BY <2>1 DEF OperatorsInv, OperatorsWhole, Halfway
  <2>7. OperatorsWhole'
    BY <2>1, <2>2, <2>6 DEF OperatorsInv, OperatorsWhole, At
  <2>8. QED
    BY <2>3, <2>4, <2>5, <2>7 DEF OperatorsInv
<1>2. CASE ~stored
  <2>1. /\ request.at = "operator" /\ request' = [request EXCEPT !.at = "undo child"]
        /\ UNCHANGED <<operators, registration, opEntities, rootChildren, classes, classOf,
                       defaults, used, disturbed>>
    BY <1>2 DEF PostOperator, At, Goto
  <2>2. Halfway'
    BY <2>1 DEF OperatorsInv, OperatorsTypeOK, Halfway, At
  <2>3. QED
    BY <2>1, <2>2, GoesOn DEF At, Phases
<1>3. QED
  BY <1>1, <1>2

LEMMA PostClassInv ==
    ASSUME OperatorsInv, NEW c \in ClassIds, PostClass(c)
    PROVE  OperatorsInv'
<1>0. request' = [at |-> "idle", op |-> DefaultOperator]
  BY DEF PostClass, Done, Idle
<1>1. /\ request.at = "class" /\ request'.at = "idle" /\ request'.op = DefaultOperator
      /\ request' \in [at : Phases, op : OperatorIds]
      /\ c \notin used /\ used' = used \union {c}
      /\ classes' = classes \union {c} /\ defaults' = defaults \union {c}
      /\ classOf' = [classOf EXCEPT ![c] = request.op]
      /\ UNCHANGED <<operators, registration, opEntities, rootChildren, disturbed>>
  <2>1. request' \in [at : Phases, op : OperatorIds]
    BY <1>0, OperatorsAssumption DEF Phases
  <2>2. QED
    BY <1>0, <2>1 DEF PostClass, At
<1>2. OperatorsTypeOK'
  BY <1>1 DEF OperatorsInv, OperatorsTypeOK
<1>3. RowsUsed'
  <2>1. \A d \in classes' : classOf'[d] \in used
    BY <1>1 DEF OperatorsInv, OperatorsTypeOK, RowsUsed
  <2>2. QED
    BY <1>1, <2>1 DEF OperatorsInv, RowsUsed
<1>4. Halfway'
  BY <1>1 DEF Halfway, At
<1>5. OperatorsWhole'
  <2>1. /\ classOf'[c] = request.op
        /\ \A d \in classes : d # c /\ classOf'[d] = classOf[d]
    BY <1>1 DEF OperatorsInv, OperatorsTypeOK, RowsUsed
  <2>2. request.op \notin disturbed =>
          /\ request.op \in operators /\ request.op \in opEntities
          /\ request.op \in rootChildren
          /\ \A d \in classes : classOf[d] # request.op
    BY <1>1 DEF OperatorsInv, Halfway, At
  <2>3. \A o \in OperatorIds \ (disturbed' \union {DefaultOperator}) :
           (o \in operators' <=> o \in opEntities') /\ (o \in operators' <=> o \in rootChildren')
    BY <1>1, <2>2 DEF OperatorsInv, OperatorsWhole, At
  <2>4. \A d \in classes' : classOf'[d] \in operators' \union disturbed'
    BY <1>1, <2>1, <2>2 DEF OperatorsInv, OperatorsWhole, At
  <2>5. defaults \subseteq classes
    BY DEF OperatorsInv, OperatorsTypeOK
  <2>6. \A b, d \in defaults : classOf[b] = classOf[d] =>
           b = d \/ classOf[b] \in disturbed \union {request.op}
    BY <1>1 DEF OperatorsInv, OperatorsWhole, At
  <2>7. \A b, d \in defaults' : classOf'[b] = classOf'[d] => b = d \/ classOf'[b] \in disturbed'
    BY <1>1, <2>1, <2>2, <2>5, <2>6
  <2>8. QED
    BY <1>1, <2>3, <2>4, <2>7 DEF OperatorsInv, OperatorsWhole, At
<1>6. QED
  BY <1>2, <1>3, <1>4, <1>5 DEF OperatorsInv

LEMMA PostUndoInv ==
    ASSUME OperatorsInv, PostUndoChild \/ PostUndoEntity
    PROVE  OperatorsInv'
<1>1. CASE PostUndoChild
  <2>1. /\ request.at = "undo child" /\ request' = [request EXCEPT !.at = "undo entity"]
        /\ rootChildren' = rootChildren \ {request.op}
        /\ UNCHANGED <<operators, registration, opEntities, classes, classOf, defaults,
                       used, disturbed>>
    BY <1>1 DEF PostUndoChild, At, Goto
  <2>2. Halfway'
    BY <2>1 DEF OperatorsInv, OperatorsTypeOK, Halfway, At
  <2>3. QED
    BY <2>1, <2>2, GoesOn DEF At, Phases
<1>2. CASE PostUndoEntity
  <2>1. /\ request.at = "undo entity" /\ Done
        /\ opEntities' = opEntities \ {request.op}
        /\ UNCHANGED <<operators, registration, rootChildren, classes, classOf, defaults,
                       used, disturbed>>
    BY <1>2 DEF PostUndoEntity, At
  <2>2. Left(request.op)
    BY <2>1 DEF OperatorsInv, OperatorsTypeOK, Halfway, At, Left
  <2>3. defaults' = defaults \intersect classes'
    BY <2>1 DEF OperatorsInv, OperatorsTypeOK
  <2>4. QED
    BY <2>1, <2>2, <2>3, Ends DEF At
<1>3. QED
  BY <1>1, <1>2

(***************************************************************************)
(* DELETE.                                                                 *)
(***************************************************************************)
LEMMA OperatorDeleteInv ==
    ASSUME OperatorsInv, NEW o \in OperatorIds, OperatorDelete(o)
    PROVE  OperatorsInv'
<1>1. /\ request.at = "idle" /\ o \in operators /\ o # DefaultOperator
      /\ request' = [at |-> IF o \in opEntities THEN "drop entity" ELSE "drop operator", op |-> o]
      /\ UNCHANGED <<operators, registration, opEntities, rootChildren, classes, classOf,
                     defaults, used, disturbed>>
  BY DEF OperatorDelete, At
<1>2. PICK to \in {"drop entity", "drop operator"} :
         /\ request' = [at |-> to, op |-> o]
         /\ to = "drop entity" <=> o \in opEntities
  BY <1>1
<1>3. request'.at = to /\ request'.op = o /\ request' \in [at : Phases, op : OperatorIds]
  BY <1>2 DEF Phases
<1>4. OperatorsTypeOK'
  BY <1>1, <1>3 DEF OperatorsInv, OperatorsTypeOK
<1>5. RowsUsed'
  BY <1>1, <1>3 DEF OperatorsInv, RowsUsed
<1>6. Halfway'
  <2>1. o \notin disturbed => o \in opEntities /\ o \in rootChildren
    BY <1>1 DEF OperatorsInv, OperatorsWhole, At
  <2>2. QED
    BY <1>1, <1>2, <1>3, <2>1 DEF Halfway, At
<1>7. OperatorsWhole'
  BY <1>1, <1>2, <1>3 DEF OperatorsInv, OperatorsWhole, At
<1>8. QED
  BY <1>4, <1>5, <1>6, <1>7 DEF OperatorsInv

LEMMA DropInv ==
    ASSUME OperatorsInv, DropEntity \/ DropChild
    PROVE  OperatorsInv'
<1>1. CASE DropEntity
  <2>1. /\ request.at = "drop entity" /\ request' = [request EXCEPT !.at = "drop child"]
        /\ opEntities' = opEntities \ {request.op}
        /\ UNCHANGED <<operators, registration, rootChildren, classes, classOf, defaults,
                       used, disturbed>>
    BY <1>1 DEF DropEntity, At, Goto
  <2>2. Halfway'
    BY <2>1 DEF OperatorsInv, OperatorsTypeOK, Halfway, At
  <2>3. QED
    BY <2>1, <2>2, GoesOn DEF At, Phases
<1>2. CASE DropChild
  <2>1. /\ request.at = "drop child" /\ request' = [request EXCEPT !.at = "drop operator"]
        /\ rootChildren' = rootChildren \ {request.op}
        /\ UNCHANGED <<operators, registration, opEntities, classes, classOf, defaults,
                       used, disturbed>>
    BY <1>2 DEF DropChild, At, Goto
  <2>2. Halfway'
    BY <2>1 DEF OperatorsInv, OperatorsTypeOK, Halfway, At
  <2>3. QED
    BY <2>1, <2>2, GoesOn DEF At, Phases
<1>3. QED
  BY <1>1, <1>2

LEMMA DropOperatorInv ==
    ASSUME OperatorsInv, NEW deleted \in BOOLEAN, DropOperator(deleted)
    PROVE  OperatorsInv'
<1>1. CASE deleted
  <2>1. /\ request.at = "drop operator" /\ request' = [request EXCEPT !.at = "drop classes"]
        /\ operators' = operators \ {request.op}
        /\ UNCHANGED <<registration, opEntities, rootChildren, classes, classOf, defaults,
                       used, disturbed>>
    BY <1>1 DEF DropOperator, At, Goto
  <2>2. Halfway'
    BY <2>1 DEF OperatorsInv, OperatorsTypeOK, Halfway, At
  <2>3. QED
    BY <2>1, <2>2, GoesOn DEF At, Phases
<1>2. CASE ~deleted
  <2>1. /\ request.at = "drop operator" /\ Done
        /\ disturbed' = disturbed \union {request.op}
        /\ UNCHANGED <<operators, registration, opEntities, rootChildren, classes, classOf,
                       defaults, used>>
    BY <1>2 DEF DropOperator, At
  <2>2. Left(request.op)
    BY <2>1 DEF Left
  <2>3. defaults' = defaults \intersect classes'
    BY <2>1 DEF OperatorsInv, OperatorsTypeOK
  <2>4. QED
    BY <2>1, <2>2, <2>3, Ends DEF At
<1>3. QED
  BY <1>1, <1>2

LEMMA DropClassesInv ==
    ASSUME OperatorsInv, DropClasses
    PROVE  OperatorsInv'
<1> DEFINE gone == {c \in classes : classOf[c] = request.op}
<1>1. /\ request.at = "drop classes" /\ Done
      /\ classes' = classes \ gone /\ defaults' = defaults \ gone
      /\ UNCHANGED <<operators, registration, opEntities, rootChildren, classOf, used, disturbed>>
  BY DEF DropClasses, At
<1>2. defaults' = defaults \intersect classes'
  BY <1>1 DEF OperatorsInv, OperatorsTypeOK
<1>3. Left(request.op)
  BY <1>1, <1>2 DEF OperatorsInv, OperatorsTypeOK, Halfway, At, Left
<1>4. QED
  BY <1>1, <1>2, <1>3, Ends DEF At

LEMMA OperatorsCrashInv ==
    ASSUME OperatorsInv, OperatorsCrash
    PROVE  OperatorsInv'
<1>1. /\ ~At("idle") /\ Done /\ disturbed' = disturbed \union {request.op}
      /\ UNCHANGED <<operators, registration, opEntities, rootChildren, classes, classOf,
                     defaults, used>>
  BY DEF OperatorsCrash
<1>2. Left(request.op)
  BY <1>1 DEF Left
<1>3. defaults' = defaults \intersect classes'
  BY <1>1 DEF OperatorsInv, OperatorsTypeOK
<1>4. QED
  BY <1>1, <1>2, <1>3, Ends

(***************************************************************************)
(* Service classes.                                                        *)
(***************************************************************************)
LEMMA ServiceClassPostInv ==
    ASSUME OperatorsInv, NEW c \in ClassIds, NEW o \in OperatorIds, ServiceClassPost(c, o)
    PROVE  OperatorsInv'
<1>1. /\ c \notin used /\ o \in operators /\ used' = used \union {c}
      /\ classes' = classes \union {c}
      /\ defaults' = IF HasDefault(o) THEN defaults ELSE defaults \union {c}
      /\ classOf' = [classOf EXCEPT ![c] = o]
      /\ disturbed' = IF ~At("idle") /\ request.op = o THEN disturbed \union {o} ELSE disturbed
      /\ UNCHANGED <<operators, registration, opEntities, rootChildren, request>>
  BY DEF ServiceClassPost
<1>2. /\ classOf'[c] = o /\ c \notin classes
      /\ \A d \in classes : d # c /\ classOf'[d] = classOf[d]
  BY <1>1 DEF OperatorsInv, OperatorsTypeOK, RowsUsed
<1>3. OperatorsTypeOK'
  BY <1>1 DEF OperatorsInv, OperatorsTypeOK
<1>4. RowsUsed'
  BY <1>1, <1>2 DEF OperatorsInv, RowsUsed
<1>5. Halfway'
  <2>1. CASE ~At("idle") /\ request.op = o
    BY <1>1, <2>1 DEF OperatorsInv, Halfway, At
  <2>2. CASE At("idle") \/ request.op # o
    BY <1>1, <1>2, <2>2 DEF OperatorsInv, Halfway, At
  <2>3. QED
    BY <2>1, <2>2
<1>6. OperatorsWhole'
  <2> DEFINE broken == disturbed \union (IF At("idle") THEN {} ELSE {request.op})
             broken2 == disturbed' \union (IF At("idle") THEN {} ELSE {request.op})
  <2>1. broken2 = broken
    BY <1>1
  <2>2. \A d \in classes' : classOf'[d] \in operators' \union broken2
    BY <1>1, <1>2, <2>1 DEF OperatorsInv, OperatorsWhole
  <2>3. \A b, d \in defaults' : classOf'[b] = classOf'[d] => b = d \/ classOf'[b] \in broken2
    <3>1. defaults \subseteq classes
      BY DEF OperatorsInv, OperatorsTypeOK
    <3>2. \A b, d \in defaults : classOf[b] = classOf[d] => b = d \/ classOf[b] \in broken
      BY DEF OperatorsInv, OperatorsWhole
    <3>3. CASE HasDefault(o)
      BY <1>1, <1>2, <2>1, <3>1, <3>2, <3>3
    <3>4. CASE ~HasDefault(o)
      <4>1. \A b \in defaults : classOf[b] # o
        BY <3>4 DEF HasDefault
      <4>2. QED
        BY <1>1, <1>2, <2>1, <3>1, <3>2, <3>4, <4>1
    <3>5. QED
      BY <3>3, <3>4
  <2>4. request' = request /\ UNCHANGED <<operators, opEntities, rootChildren, registration>>
    BY <1>1
  <2>5. QED
    BY <2>1, <2>2, <2>3, <2>4 DEF OperatorsInv, OperatorsWhole, At
<1>7. QED
  BY <1>3, <1>4, <1>5, <1>6 DEF OperatorsInv

LEMMA ServiceClassDeleteInv ==
    ASSUME OperatorsInv, NEW c \in ClassIds, ServiceClassDelete(c)
    PROVE  OperatorsInv'
<1> USE DEF ServiceClassDelete, OperatorsInv
<1>1. OperatorsTypeOK'
  BY DEF OperatorsTypeOK
<1>2. RowsUsed' /\ Halfway'
  BY DEF RowsUsed, Halfway, At
<1>3. OperatorsWhole'
  BY DEF OperatorsWhole, At
<1>4. QED
  BY <1>1, <1>2, <1>3

\* What the other components do touches no row of an operator.
LEMMA OtherStepsInv ==
    ASSUME OperatorsInv,
           UNCHANGED <<operators, registration, opEntities, rootChildren, classes, classOf,
                       defaults, used, request, disturbed>>
    PROVE  OperatorsInv'
BY DEF OperatorsInv, OperatorsTypeOK, RowsUsed, Halfway, OperatorsWhole, At

(***************************************************************************)
(* An operator no request of which is under way, crashed or failed half    *)
(* way has its entity, its place under the root, its classes with at most  *)
(* one default and a registration of its own, or has nothing at all.       *)
(***************************************************************************)
THEOREM OperatorsWholeTheorem == OperatorsSpec => []OperatorsWhole
<1>1. OperatorsInv /\ [OperatorsNext]_operatorVars => OperatorsInv'
  <2> SUFFICES ASSUME OperatorsInv, [OperatorsNext]_operatorVars
               PROVE  OperatorsInv'
    OBVIOUS
  <2>1. ASSUME NEW o \in OperatorIds,
               (\E r \in RegistrationIds : OperatorPost(o, r)) \/ OperatorDelete(o)
        PROVE  OperatorsInv'
    BY <2>1, OperatorPostInv, OperatorDeleteInv
  <2>2. ASSUME NEW o \in OperatorIds, EntityFills(o) \/ Signs(o)
        PROVE  OperatorsInv'
    BY <2>2, OtherStepsInv DEF EntityFills, Signs
  <2>3. ASSUME NEW stored \in BOOLEAN,
               PostEntity(stored) \/ PostOperator(stored) \/ DropOperator(stored)
        PROVE  OperatorsInv'
    BY <2>3, PostEntityInv, PostOperatorInv, DropOperatorInv
  <2>4. CASE PostChild \/ PostUndoChild \/ PostUndoEntity
    BY <2>4, PostChildInv, PostUndoInv
  <2>5. CASE DropEntity \/ DropChild \/ DropClasses
    BY <2>5, DropInv, DropClassesInv
  <2>6. CASE OperatorsCrash
    BY <2>6, OperatorsCrashInv
  <2>7. ASSUME NEW c \in ClassIds,
               \/ PostClass(c) \/ ServiceClassDelete(c)
               \/ \E o \in OperatorIds : ServiceClassPost(c, o)
        PROVE  OperatorsInv'
    BY <2>7, PostClassInv, ServiceClassDeleteInv, ServiceClassPostInv
  <2>8. ASSUME NEW d \in DeviceIds, NEW c \in ClassIds \union {NoClass}, DeviceNamesClass(d, c)
        PROVE  OperatorsInv'
    BY <2>8, OtherStepsInv DEF DeviceNamesClass
  <2>9. CASE UNCHANGED operatorVars
    BY <2>9, OtherStepsInv DEF operatorVars
  <2>10. QED
    BY <2>1, <2>2, <2>3, <2>4, <2>5, <2>6, <2>7, <2>8, <2>9 DEF OperatorsNext
<1>2. OperatorsInv => OperatorsWhole
  BY DEF OperatorsInv
<1>3. QED
  BY OperatorsInitInv, <1>1, <1>2, PTL DEF OperatorsSpec
=============================================================================
