------------------------ MODULE HandlerSteps_proofs -------------------------
(***************************************************************************)
(* However the statements of the handlers interleave, and wherever the     *)
(* process dies between them, a deleted row stays deleted and the service  *)
(* starts serving from consistent tables; for every number of threads,     *)
(* venues, tags and crashes.  And one thread that does not crash           *)
(* implements the requests of Hierarchy.                                   *)
(***************************************************************************)
EXTENDS HandlerSteps, SequenceTheorems, TLAPS

StepsTypeOK ==
    /\ venues \in SUBSET VenueIds
    /\ vDevices \in [VenueIds -> SUBSET TagIds]
    /\ tags \in SUBSET TagIds
    /\ tVenue \in [TagIds -> VenueRefs]
    /\ todo \in [Threads -> Seq(Statements)]
    /\ phase \in Phases
    /\ served \in BOOLEAN

RowsIssued == venues \union tags \union deleted \subseteq issued

\* The row of a pending INSERT is new to all tables, and a row that a pending DELETE
\* names has been there: no DELETE can overtake the INSERT of the same row.
StatementOK(s) ==
    /\ s.op = "createTag" => s.tag \in issued /\ s.tag \notin tags \union deleted
    /\ s.op = "deleteTag" => s.tag \in tags \union deleted
    /\ s.op = "deleteVenue" => s.venue \in venues \union deleted

\* An INSERT is the first statement of its handler.
TodoOK(p) ==
    \A i \in 1..Len(todo[p]) :
       /\ StatementOK(todo[p][i])
       /\ todo[p][i].op = "createTag" => i = 1

\* No two handlers insert the same row.
CreatedOnce ==
    \A p, q \in Threads :
       p # q /\ todo[p] # <<>> /\ todo[q] # <<>>
         /\ todo[p][1].op = "createTag" /\ todo[q][1].op = "createTag"
         => todo[p][1].tag # todo[q][1].tag

\* While the consistency check runs, and until the first request, no handler runs.
NoHandler == phase # "serving" \/ ~served => \A p \in Threads : todo[p] = <<>>

CheckedSoFar == phase = "inventory" => \A v \in VenueIds : vDevices[v] \subseteq tags

StepsInv ==
    /\ StepsTypeOK /\ RowsIssued
    /\ \A p \in Threads : TodoOK(p)
    /\ CreatedOnce /\ NoResurrection
    /\ NoHandler /\ CheckedSoFar /\ StartsConsistent

LEMMA StepsInitInv == Init => StepsInv
<1> SUFFICES ASSUME Init PROVE StepsInv
  OBVIOUS
<1> USE DEF Init
<1>1. <<>> \in Seq(Statements) /\ Len(<<>>) = 0
  OBVIOUS
<1>2. StepsTypeOK
  BY <1>1 DEF StepsTypeOK, VenueRefs, Phases
<1>3. \A p \in Threads : TodoOK(p)
  BY <1>1 DEF TodoOK
<1>4. RowsIssued /\ CreatedOnce /\ NoResurrection
  BY DEF RowsIssued, CreatedOnce, NoResurrection
<1>5. NoHandler /\ CheckedSoFar /\ StartsConsistent
  BY DEF NoHandler, CheckedSoFar, StartsConsistent
<1>6. QED
  BY <1>2, <1>3, <1>4, <1>5 DEF StepsInv

(***************************************************************************)
(* The lists of statements the handlers start with.                        *)
(***************************************************************************)
\* No statement of the list inserts or deletes a row.
Harmless(list) == \A i \in 1..Len(list) : list[i].op \notin {"createTag", "deleteTag", "deleteVenue"}

LEMMA MoveStatements ==
    ASSUME NEW from \in VenueRefs, NEW to \in VenueRefs, NEW t \in TagIds
    PROVE  Move(from, to, t) \in Seq(Statements) /\ Harmless(Move(from, to, t))
<1> DEFINE a == IF from = NoId THEN <<>> ELSE <<RemoveDevice(from, t)>>
<1> DEFINE b == IF to = NoId THEN <<>> ELSE <<AddDevice(to, t)>>
<1>1. a \in Seq(Statements) /\ Harmless(a)
  <2>1. from # NoId => RemoveDevice(from, t) \in Statements
    BY DEF RemoveDevice, Statements, VenueRefs
  <2>2. QED
    BY <2>1 DEF RemoveDevice, Harmless
<1>2. b \in Seq(Statements) /\ Harmless(b)
  <2>1. to # NoId => AddDevice(to, t) \in Statements
    BY DEF AddDevice, Statements, VenueRefs
  <2>2. QED
    BY <2>1 DEF AddDevice, Harmless
<1>3. Move(from, to, t) = a \o b
  BY DEF Move
<1> HIDE DEF a, b
<1>4. QED
  BY <1>1, <1>2, <1>3, ConcatProperties DEF Harmless

(***************************************************************************)
(* A request is accepted: at most a fresh venue's row is written at once.  *)
(***************************************************************************)
LEMMA AcceptInv ==
    ASSUME StepsInv, NEW p \in Threads, NEW L \in Seq(Statements), Accept(p, L),
           venues \subseteq venues', venues' \in SUBSET VenueIds,
           vDevices' \in [VenueIds -> SUBSET TagIds],
           UNCHANGED <<tags, tVenue, deleted>>,
           issued \subseteq issued', venues' \subseteq issued',
           (venues' \ venues) \intersect deleted = {},
           \A i \in 1..Len(L) :
              /\ L[i].op = "createTag" =>
                   i = 1 /\ L[i].tag \in issued' /\ L[i].tag \notin issued
              /\ L[i].op = "deleteTag" => L[i].tag \in tags
              /\ L[i].op = "deleteVenue" => L[i].venue \in venues
    PROVE  StepsInv'
<1>1. /\ phase = "serving" /\ todo[p] = <<>> /\ todo' = [todo EXCEPT ![p] = L]
      /\ served' = TRUE /\ UNCHANGED <<phase, crashes>>
  BY DEF Accept
<1>2. StepsTypeOK'
  BY <1>1 DEF StepsInv, StepsTypeOK
<1>3. RowsIssued'
  BY DEF StepsInv, RowsIssued
<1>4. todo'[p] = L /\ \A q \in Threads : q # p => todo'[q] = todo[q]
  BY <1>1 DEF StepsInv, StepsTypeOK
<1>5. ASSUME NEW q \in Threads PROVE TodoOK(q)'
  <2>1. CASE q = p
    <3>1. \A i \in 1..Len(L) : StatementOK(L[i])' /\ (L[i].op = "createTag" => i = 1)
      BY DEF StatementOK, StepsInv, RowsIssued
    <3>2. QED
      BY <1>4, <2>1, <3>1 DEF TodoOK, StatementOK
  <2>2. CASE q # p
    <3>1. TodoOK(q) /\ todo'[q] = todo[q]
      BY <1>4, <2>2 DEF StepsInv
    <3>2. QED
      BY <3>1 DEF TodoOK, StatementOK
  <2>3. QED
    BY <2>1, <2>2
<1>6. CreatedOnce'
  <2>1. ASSUME NEW q \in Threads, q # p, todo[q] # <<>>, todo[q][1].op = "createTag"
        PROVE  todo[q][1].tag \in issued
    <3>1. todo[q] \in Seq(Statements) /\ TodoOK(q)
      BY DEF StepsInv, StepsTypeOK
    <3>2. 1 \in 1..Len(todo[q])
      BY <2>1, <3>1
    <3>3. QED
      BY <2>1, <3>1, <3>2 DEF TodoOK, StatementOK
  <2>2. L # <<>> /\ L[1].op = "createTag" => L[1].tag \notin issued
    <3>1. L # <<>> => 1 \in 1..Len(L)
      OBVIOUS
    <3>2. QED
      BY <3>1
  <2>3. QED
    BY <1>4, <2>1, <2>2 DEF CreatedOnce, StepsInv
<1>7. NoResurrection'
  BY DEF StepsInv, NoResurrection
<1>8. NoHandler' /\ CheckedSoFar' /\ StartsConsistent'
  BY <1>1 DEF NoHandler, CheckedSoFar, StartsConsistent
<1>9. QED
  BY <1>2, <1>3, <1>5, <1>6, <1>7, <1>8 DEF StepsInv

LEMMA InventoryPostInv ==
    ASSUME StepsInv, NEW p \in Threads, NEW t \in TagIds, NEW v \in VenueRefs,
           InventoryPost(p, t, v)
    PROVE  StepsInv'
<1> DEFINE L == <<CreateTag(t, v)>> \o Move(NoId, v, t)
<1>1. /\ t \notin issued /\ issued' = issued \union {t} /\ Accept(p, L)
      /\ UNCHANGED <<venues, vDevices, tags, tVenue, deleted>>
  BY DEF InventoryPost, rows
<1>2. CreateTag(t, v) \in Statements
  BY DEF CreateTag, Statements
<1>3. Move(NoId, v, t) \in Seq(Statements) /\ Harmless(Move(NoId, v, t))
  BY MoveStatements DEF VenueRefs
<1>4. /\ L \in Seq(Statements) /\ L[1] = CreateTag(t, v)
      /\ \A i \in 1..Len(L) : i # 1 => L[i].op \notin {"createTag", "deleteTag", "deleteVenue"}
  BY <1>2, <1>3 DEF Harmless
<1>5. \A i \in 1..Len(L) :
         /\ L[i].op = "createTag" =>
              i = 1 /\ L[i].tag \in issued' /\ L[i].tag \notin issued
         /\ L[i].op = "deleteTag" => L[i].tag \in tags
         /\ L[i].op = "deleteVenue" => L[i].venue \in venues
  BY <1>1, <1>4 DEF CreateTag
<1> HIDE DEF L
<1>6. QED
  BY <1>1, <1>4, <1>5, AcceptInv DEF StepsInv, StepsTypeOK, RowsIssued

LEMMA InventoryPutInv ==
    ASSUME StepsInv, NEW p \in Threads, NEW t \in TagIds, NEW v \in VenueRefs,
           InventoryPut(p, t, v)
    PROVE  StepsInv'
<1> DEFINE L == <<UpdateTag(t, v)>> \o Move(tVenue[t], v, t)
<1>1. /\ Accept(p, L)
      /\ UNCHANGED <<venues, vDevices, tags, tVenue, deleted, issued>>
  BY DEF InventoryPut, rows
<1>2. UpdateTag(t, v) \in Statements
  BY DEF UpdateTag, Statements
<1>3. Move(tVenue[t], v, t) \in Seq(Statements) /\ Harmless(Move(tVenue[t], v, t))
  <2>1. tVenue[t] \in VenueRefs
    BY DEF StepsInv, StepsTypeOK
  <2>2. QED
    BY <2>1, MoveStatements
<1>4. /\ L \in Seq(Statements)
      /\ \A i \in 1..Len(L) : L[i].op \notin {"createTag", "deleteTag", "deleteVenue"}
  BY <1>2, <1>3 DEF Harmless, UpdateTag
<1> HIDE DEF L
<1>5. QED
  BY <1>1, <1>4, AcceptInv DEF StepsInv, StepsTypeOK, RowsIssued

LEMMA InventoryDeleteInv ==
    ASSUME StepsInv, NEW p \in Threads, NEW t \in TagIds, InventoryDelete(p, t)
    PROVE  StepsInv'
<1> DEFINE L == Move(tVenue[t], NoId, t) \o <<DeleteTag(t)>>
<1>1. /\ Accept(p, L) /\ t \in tags
      /\ UNCHANGED <<venues, vDevices, tags, tVenue, deleted, issued>>
  BY DEF InventoryDelete, rows
<1>2. DeleteTag(t) \in Statements
  BY DEF DeleteTag, Statements
<1>3. Move(tVenue[t], NoId, t) \in Seq(Statements) /\ Harmless(Move(tVenue[t], NoId, t))
  <2>1. tVenue[t] \in VenueRefs /\ NoId \in VenueRefs
    BY DEF StepsInv, StepsTypeOK, VenueRefs
  <2>2. QED
    BY <2>1, MoveStatements
<1>4. /\ L \in Seq(Statements)
      /\ \A i \in 1..Len(L) : \/ L[i] = DeleteTag(t)
                              \/ L[i].op \notin {"createTag", "deleteTag", "deleteVenue"}
  BY <1>2, <1>3 DEF Harmless
<1>5. \A i \in 1..Len(L) :
         /\ L[i].op \notin {"createTag", "deleteVenue"}
         /\ L[i].op = "deleteTag" => L[i].tag \in tags
  BY <1>1, <1>4 DEF DeleteTag
<1> HIDE DEF L
<1>6. QED
  BY <1>1, <1>4, <1>5, AcceptInv DEF StepsInv, StepsTypeOK, RowsIssued

LEMMA VenuePostInv ==
    ASSUME StepsInv, NEW p \in Threads, NEW v \in VenueIds,
           NEW ds \in SUBSET tags, VenuePost(p, v, ds)
    PROVE  StepsInv'
<1>1. /\ v \notin issued /\ Accept(p, <<>>) /\ issued' = issued \union {v}
      /\ venues' = venues \union {v} /\ vDevices' = [vDevices EXCEPT ![v] = ds]
      /\ UNCHANGED <<tags, tVenue, deleted>>
  BY DEF VenuePost
<1>2. <<>> \in Seq(Statements) /\ Len(<<>>) = 0
  OBVIOUS
<1>3. /\ vDevices' \in [VenueIds -> SUBSET TagIds] /\ venues' \in SUBSET VenueIds
      /\ (venues' \ venues) \intersect deleted = {} /\ venues' \subseteq issued'
  BY <1>1 DEF StepsInv, StepsTypeOK, RowsIssued
<1>4. \A i \in 1..Len(<<>>) : FALSE
  BY <1>2
<1>5. QED
  BY <1>1, <1>2, <1>3, <1>4, AcceptInv

LEMMA VenuePutInv ==
    ASSUME StepsInv, NEW p \in Threads, NEW v \in VenueIds, VenuePut(p, v) \/ VenueDelete(p, v)
    PROVE  StepsInv'
<1>1. UNCHANGED <<venues, vDevices, tags, tVenue, deleted, issued>> /\ v \in venues
  BY DEF VenuePut, VenueDelete, rows
<1>2. PICK s \in Statements :
         /\ Accept(p, <<s>>) /\ s.op \in {"updateVenue", "deleteVenue"} /\ s.venue = v
  <2>1. CASE VenuePut(p, v)
    <3>1. UpdateVenue(v, vDevices[v]) \in Statements
      BY DEF UpdateVenue, Statements, StepsInv, StepsTypeOK
    <3>2. QED
      BY <2>1, <3>1 DEF VenuePut, UpdateVenue
  <2>2. CASE VenueDelete(p, v)
    <3>1. DeleteVenue(v) \in Statements
      BY DEF DeleteVenue, Statements
    <3>2. QED
      BY <2>2, <3>1 DEF VenueDelete, DeleteVenue
  <2>3. QED
    BY <2>1, <2>2
<1>3. <<s>> \in Seq(Statements) /\ Len(<<s>>) = 1 /\ <<s>>[1] = s
  OBVIOUS
<1>4. \A i \in 1..Len(<<s>>) : <<s>>[i] = s
  BY <1>3
<1>5. \A i \in 1..Len(<<s>>) :
         /\ <<s>>[i].op = "createTag" =>
              i = 1 /\ <<s>>[i].tag \in issued' /\ <<s>>[i].tag \notin issued
         /\ <<s>>[i].op = "deleteTag" => <<s>>[i].tag \in tags
         /\ <<s>>[i].op = "deleteVenue" => <<s>>[i].venue \in venues
  BY <1>1, <1>2, <1>4
<1>6. QED
  BY <1>1, <1>2, <1>3, <1>5, AcceptInv DEF StepsInv, StepsTypeOK, RowsIssued

(***************************************************************************)
(* A handler executes its first statement: the INSERTs that are pending in *)
(* the other handlers stay possible.                                       *)
(***************************************************************************)
\* What is left of a handler's list contains no INSERT.
LEMMA RestOK ==
    ASSUME StepsInv, NEW p \in Threads, todo[p] # <<>>
    PROVE  /\ Head(todo[p]) \in Statements /\ StatementOK(Head(todo[p]))
           /\ Head(todo[p]) = todo[p][1]
           /\ Tail(todo[p]) \in Seq(Statements)
           /\ \A i \in 1..Len(Tail(todo[p])) :
                /\ Tail(todo[p])[i].op # "createTag"
                /\ StatementOK(Tail(todo[p])[i])
<1>1. todo[p] \in Seq(Statements) /\ TodoOK(p)
  BY DEF StepsInv, StepsTypeOK
<1>2. /\ Head(todo[p]) = todo[p][1] /\ 1 \in 1..Len(todo[p])
      /\ Tail(todo[p]) \in Seq(Statements)
      /\ Len(Tail(todo[p])) = Len(todo[p]) - 1
      /\ \A i \in 1..Len(Tail(todo[p])) :
           i + 1 \in 1..Len(todo[p]) /\ i + 1 # 1 /\ Tail(todo[p])[i] = todo[p][i + 1]
  BY <1>1
<1>3. \A i \in 1..Len(Tail(todo[p])) :
         Tail(todo[p])[i].op # "createTag" /\ StatementOK(Tail(todo[p])[i])
  BY <1>1, <1>2 DEF TodoOK
<1>4. Head(todo[p]) \in Statements /\ StatementOK(Head(todo[p]))
  BY <1>1, <1>2 DEF TodoOK
<1>5. QED
  BY <1>2, <1>3, <1>4

LEMMA StatementInv ==
    ASSUME StepsInv, NEW p \in Threads, NEW L \in Seq(Statements),
           phase = "serving", todo[p] # <<>>, todo' = [todo EXCEPT ![p] = L],
           UNCHANGED <<issued, phase, served, crashes>>,
           venues' \in SUBSET VenueIds, vDevices' \in [VenueIds -> SUBSET TagIds],
           tags' \in SUBSET TagIds, tVenue' \in [TagIds -> VenueRefs],
           venues' \union tags' \union deleted' \subseteq issued,
           tags \union deleted \subseteq tags' \union deleted',
           venues \union deleted \subseteq venues' \union deleted',
           NoResurrection',
           \A q \in Threads : q # p /\ todo[q] # <<>> /\ todo[q][1].op = "createTag" =>
              todo[q][1].tag \notin tags' \union deleted',
           \A i \in 1..Len(L) : L[i].op # "createTag" /\ StatementOK(L[i])
    PROVE  StepsInv'
<1>1. todo'[p] = L /\ \A q \in Threads : q # p => todo'[q] = todo[q]
  BY DEF StepsInv, StepsTypeOK
<1>2. StepsTypeOK' /\ RowsIssued'
  BY DEF StepsInv, StepsTypeOK, RowsIssued
<1>3. ASSUME NEW q \in Threads PROVE TodoOK(q)'
  <2>1. CASE q = p
    BY <1>1, <2>1 DEF TodoOK, StatementOK
  <2>2. CASE q # p
    <3>1. TodoOK(q) /\ todo'[q] = todo[q] /\ todo[q] \in Seq(Statements)
      BY <1>1, <2>2 DEF StepsInv, StepsTypeOK
    <3>2. ASSUME NEW i \in 1..Len(todo[q])
          PROVE  StatementOK(todo[q][i])' /\ (todo[q][i].op = "createTag" => i = 1)
      <4>1. StatementOK(todo[q][i]) /\ (todo[q][i].op = "createTag" => i = 1)
        BY <3>1 DEF TodoOK
      <4>2. todo[q] # <<>>
        BY <3>1
      <4>3. todo[q][i].op = "createTag" => todo[q][i].tag \notin tags' \union deleted'
        BY <2>2, <4>1, <4>2
      <4>4. QED
        BY <3>1, <4>1, <4>3 DEF StatementOK
    <3>3. QED
      BY <3>1, <3>2 DEF TodoOK, StatementOK
  <2>3. QED
    BY <2>1, <2>2
<1>4. CreatedOnce'
  <2>1. L # <<>> => L[1].op # "createTag"
    <3>1. L # <<>> => 1 \in 1..Len(L)
      OBVIOUS
    <3>2. QED
      BY <3>1
  <2>2. QED
    BY <1>1, <2>1 DEF CreatedOnce, StepsInv
<1>5. served
  BY DEF StepsInv, NoHandler
<1>6. NoHandler' /\ CheckedSoFar' /\ StartsConsistent'
  BY <1>5 DEF NoHandler, CheckedSoFar, StartsConsistent
<1>7. QED
  BY <1>2, <1>3, <1>4, <1>6 DEF StepsInv

\* The row of another handler's pending INSERT is not the row of this statement.
LEMMA OthersCreate ==
    ASSUME StepsInv, NEW p \in Threads, NEW q \in Threads, q # p,
           todo[p] # <<>>, todo[q] # <<>>, todo[q][1].op = "createTag"
    PROVE  /\ todo[q][1].tag \in TagIds /\ todo[q][1].tag \notin tags \union deleted
           /\ todo[p][1].op \in {"createTag", "deleteTag"} =>
                todo[q][1].tag # todo[p][1].tag
<1>1. todo[q][1] \in Statements /\ StatementOK(todo[q][1])
  BY RestOK
<1>2. StatementOK(todo[p][1])
  BY RestOK
<1>3. todo[q][1].tag \in TagIds /\ todo[q][1].tag \notin tags \union deleted
  BY <1>1 DEF Statements, StatementOK
<1>4. QED
  BY <1>2, <1>3 DEF StatementOK, StepsInv, CreatedOnce

LEMMA ExecuteInv ==
    ASSUME StepsInv, NEW p \in Threads, Execute(p)
    PROVE  StepsInv'
<1> DEFINE s == Head(todo[p])
<1> DEFINE rest == Tail(todo[p])
<1>1. /\ phase = "serving" /\ todo[p] # <<>>
      /\ UNCHANGED <<issued, phase, served, crashes>>
  BY DEF Execute
<1>2. /\ s \in Statements /\ StatementOK(s) /\ s = todo[p][1]
      /\ rest \in Seq(Statements)
      /\ \A i \in 1..Len(rest) : rest[i].op # "createTag" /\ StatementOK(rest[i])
  BY <1>1, RestOK
<1>3. \/ s.op = "createTag" /\ CreateTagRow(s) /\ todo' = [todo EXCEPT ![p] = rest]
      \/ s.op = "updateTag" /\ UpdateTagRow(s) /\ todo' = [todo EXCEPT ![p] = rest]
      \/ s.op = "deleteTag" /\ DeleteTagRow(s) /\ todo' = [todo EXCEPT ![p] = rest]
      \/ s.op = "deleteVenue" /\ DeleteVenueRow(s) /\ todo' = [todo EXCEPT ![p] = rest]
      \/ s.op = "updateVenue" /\ UpdateVenueRow(s) /\ todo' = [todo EXCEPT ![p] = rest]
      \/ /\ s.op \in {"addDevice", "removeDevice"}
         /\ todo' = [todo EXCEPT ![p] = ReadForUpdate(s, rest)]
         /\ UNCHANGED <<venues, vDevices, tags, tVenue, deleted>>
  BY DEF Execute, rows
<1>4. \A q \in Threads : q # p /\ todo[q] # <<>> /\ todo[q][1].op = "createTag" =>
         /\ todo[q][1].tag \in TagIds /\ todo[q][1].tag \notin tags \union deleted
         /\ s.op \in {"createTag", "deleteTag"} => todo[q][1].tag # s.tag
  BY <1>1, <1>2, OthersCreate
<1> HIDE DEF s, rest
<1> USE DEF StepsInv, StepsTypeOK, RowsIssued, NoResurrection
<1>5. CASE s.op = "createTag" /\ CreateTagRow(s) /\ todo' = [todo EXCEPT ![p] = rest]
  <2>1. /\ s.tag \in TagIds /\ s.venue \in VenueRefs /\ s.tag \in issued
        /\ s.tag \notin tags \union deleted
    BY <1>2, <1>5 DEF Statements, StatementOK
  <2>2. /\ tags' = tags \union {s.tag} /\ tVenue' = [tVenue EXCEPT ![s.tag] = s.venue]
        /\ UNCHANGED <<venues, vDevices, deleted>>
    BY <1>5 DEF CreateTagRow
  <2>3. tVenue' \in [TagIds -> VenueRefs]
    BY <2>1, <2>2
  <2>4. NoResurrection'
    BY <2>1, <2>2
  <2>5. \A q \in Threads : q # p /\ todo[q] # <<>> /\ todo[q][1].op = "createTag" =>
              todo[q][1].tag \notin tags' \union deleted'
    BY <1>4, <1>5, <2>2
  <2>6. /\ venues' \in SUBSET VenueIds /\ vDevices' \in [VenueIds -> SUBSET TagIds]
        /\ tags' \in SUBSET TagIds
        /\ venues' \union tags' \union deleted' \subseteq issued
        /\ tags \union deleted \subseteq tags' \union deleted'
        /\ venues \union deleted \subseteq venues' \union deleted'
    BY <2>1, <2>2, <2>3
  <2>7. tVenue' \in [TagIds -> VenueRefs] /\ todo' = [todo EXCEPT ![p] = rest]
    BY <1>5, <2>2, <2>3
  <2>8. QED
    BY ONLY StepsInv, p \in Threads, <1>1, <1>2, <2>4, <2>5, <2>6, <2>7, StatementInv
<1>6. CASE s.op = "updateTag" /\ UpdateTagRow(s) /\ todo' = [todo EXCEPT ![p] = rest]
  <2>1. s.tag \in TagIds /\ s.venue \in VenueRefs
    BY <1>2, <1>6 DEF Statements
  <2>2. /\ tVenue' = IF s.tag \in tags THEN [tVenue EXCEPT ![s.tag] = s.venue] ELSE tVenue
        /\ UNCHANGED <<venues, vDevices, tags, deleted>>
    BY <1>6 DEF UpdateTagRow
  <2>3. tVenue' \in [TagIds -> VenueRefs]
    BY <2>1, <2>2
  <2>4. QED
    BY <1>1, <1>2, <1>4, <1>6, <2>2, <2>3, StatementInv
<1>7. CASE s.op = "deleteTag" /\ DeleteTagRow(s) /\ todo' = [todo EXCEPT ![p] = rest]
  <2>1. s.tag \in TagIds /\ s.tag \in tags \union deleted
    BY <1>2, <1>7 DEF Statements, StatementOK
  <2>2. /\ tags' = tags \ {s.tag} /\ deleted' = deleted \union {s.tag}
        /\ tVenue' = [tVenue EXCEPT ![s.tag] = NoId]
        /\ UNCHANGED <<venues, vDevices>>
    BY <1>7 DEF DeleteTagRow
  <2>3. tVenue' \in [TagIds -> VenueRefs]
    BY <2>1, <2>2 DEF VenueRefs
  <2>4. NoResurrection'
    BY <2>1, <2>2, HandlerStepsAssumption
  <2>5. \A q \in Threads : q # p /\ todo[q] # <<>> /\ todo[q][1].op = "createTag" =>
              todo[q][1].tag \notin tags' \union deleted'
    BY <1>4, <1>7, <2>2
  <2>6. /\ venues' \in SUBSET VenueIds /\ vDevices' \in [VenueIds -> SUBSET TagIds]
        /\ tags' \in SUBSET TagIds
        /\ venues' \union tags' \union deleted' \subseteq issued
        /\ tags \union deleted \subseteq tags' \union deleted'
        /\ venues \union deleted \subseteq venues' \union deleted'
    BY <2>1, <2>2, <2>3
  <2>7. tVenue' \in [TagIds -> VenueRefs] /\ todo' = [todo EXCEPT ![p] = rest]
    BY <1>7, <2>2, <2>3
  <2>8. QED
    BY ONLY StepsInv, p \in Threads, <1>1, <1>2, <2>4, <2>5, <2>6, <2>7, StatementInv
<1>8. CASE s.op = "deleteVenue" /\ DeleteVenueRow(s) /\ todo' = [todo EXCEPT ![p] = rest]
  <2>1. s.venue \in VenueIds /\ s.venue \in venues \union deleted
    BY <1>2, <1>8 DEF Statements, StatementOK
  <2>2. /\ venues' = venues \ {s.venue} /\ deleted' = deleted \union {s.venue}
        /\ vDevices' = [vDevices EXCEPT ![s.venue] = {}]
        /\ UNCHANGED <<tags, tVenue>>
    BY <1>8 DEF DeleteVenueRow
  <2>3. vDevices' \in [VenueIds -> SUBSET TagIds]
    BY <2>1, <2>2
  <2>4. NoResurrection'
    BY <2>1, <2>2, HandlerStepsAssumption
  <2>5. \A q \in Threads : q # p /\ todo[q] # <<>> /\ todo[q][1].op = "createTag" =>
              todo[q][1].tag \notin tags' \union deleted'
    BY <1>4, <1>8, <2>1, <2>2, HandlerStepsAssumption
  <2>6. /\ venues' \in SUBSET VenueIds /\ vDevices' \in [VenueIds -> SUBSET TagIds]
        /\ tags' \in SUBSET TagIds
        /\ venues' \union tags' \union deleted' \subseteq issued
        /\ tags \union deleted \subseteq tags' \union deleted'
        /\ venues \union deleted \subseteq venues' \union deleted'
    BY <2>1, <2>2, <2>3
  <2>7. tVenue' \in [TagIds -> VenueRefs] /\ todo' = [todo EXCEPT ![p] = rest]
    BY <1>8, <2>2, <2>3
  <2>8. QED
    BY ONLY StepsInv, p \in Threads, <1>1, <1>2, <2>4, <2>5, <2>6, <2>7, StatementInv
<1>9. CASE s.op = "updateVenue" /\ UpdateVenueRow(s) /\ todo' = [todo EXCEPT ![p] = rest]
  <2>1. s.venue \in VenueIds /\ s.list \in SUBSET TagIds
    BY <1>2, <1>9 DEF Statements
  <2>2. /\ vDevices' = IF s.venue \in venues THEN [vDevices EXCEPT ![s.venue] = s.list]
                       ELSE vDevices
        /\ UNCHANGED <<venues, tags, tVenue, deleted>>
    BY <1>9 DEF UpdateVenueRow
  <2>3. vDevices' \in [VenueIds -> SUBSET TagIds]
    BY <2>1, <2>2
  <2>4. QED
    BY <1>1, <1>2, <1>4, <1>9, <2>2, <2>3, StatementInv
<1>10. CASE /\ s.op \in {"addDevice", "removeDevice"}
            /\ todo' = [todo EXCEPT ![p] = ReadForUpdate(s, rest)]
            /\ UNCHANGED <<venues, vDevices, tags, tVenue, deleted>>
  <2>1. s.venue \in VenueIds /\ s.tag \in TagIds
    BY <1>2, <1>10 DEF Statements
  <2>2. PICK new \in SUBSET TagIds :
           ReadForUpdate(s, rest) \in {rest, <<UpdateVenue(s.venue, new)>> \o rest}
    BY <2>1 DEF ReadForUpdate
  <2>3. /\ ReadForUpdate(s, rest) \in Seq(Statements)
        /\ \A i \in 1..Len(ReadForUpdate(s, rest)) :
             /\ ReadForUpdate(s, rest)[i].op # "createTag"
             /\ StatementOK(ReadForUpdate(s, rest)[i])
    <3>1. /\ UpdateVenue(s.venue, new) \in Statements
          /\ UpdateVenue(s.venue, new).op = "updateVenue"
      BY <2>1 DEF UpdateVenue, Statements
    <3>2. StatementOK(UpdateVenue(s.venue, new))
      BY <3>1 DEF StatementOK
    <3> DEFINE u == UpdateVenue(s.venue, new)
    <3> HIDE DEF u
    <3>3. u \in Statements /\ u.op = "updateVenue" /\ StatementOK(u)
      BY <3>1, <3>2 DEF u
    <3>4. /\ <<u>> \o rest \in Seq(Statements) /\ Len(<<u>> \o rest) = Len(rest) + 1
          /\ \A i \in 1..Len(<<u>> \o rest) : (<<u>> \o rest)[i] = IF i = 1 THEN u ELSE rest[i - 1]
      BY <1>2, <3>3
    <3>5. \A i \in 1..Len(<<u>> \o rest) :
             (<<u>> \o rest)[i].op # "createTag" /\ StatementOK((<<u>> \o rest)[i])
      <4>1. ASSUME NEW i \in 1..Len(<<u>> \o rest), i # 1
            PROVE  i - 1 \in 1..Len(rest) /\ (<<u>> \o rest)[i] = rest[i - 1]
        BY <1>2, <3>4, <4>1
      <4>2. ASSUME NEW i \in 1..Len(<<u>> \o rest), i = 1
            PROVE  (<<u>> \o rest)[i] = u
        BY <3>4, <4>2
      <4>3. QED
        BY <1>2, <3>3, <4>1, <4>2
    <3>6. CASE ReadForUpdate(s, rest) = rest
      BY <1>2, <3>6
    <3>7. CASE ReadForUpdate(s, rest) = <<u>> \o rest
      BY <3>4, <3>5, <3>7
    <3>8. QED
      BY <2>2, <3>6, <3>7 DEF u
  <2>4. QED
    BY <1>1, <1>4, <1>10, <2>3, StatementInv
<1>11. QED
  BY <1>3, <1>5, <1>6, <1>7, <1>8, <1>9, <1>10

(***************************************************************************)
(* A crash, and the two parts of the consistency check of the next start.  *)
(***************************************************************************)
LEMMA CrashInv ==
    ASSUME StepsInv, Crash
    PROVE  StepsInv'
<1>1. /\ todo' = [p \in Threads |-> <<>>] /\ phase' = "venues" /\ served' = FALSE
      /\ UNCHANGED <<venues, vDevices, tags, tVenue, deleted, issued>>
  BY DEF Crash, rows
<1>2. <<>> \in Seq(Statements) /\ Len(<<>>) = 0
  OBVIOUS
<1>3. StepsTypeOK'
  BY <1>1, <1>2 DEF StepsInv, StepsTypeOK, Phases
<1>4. RowsIssued' /\ NoResurrection'
  BY <1>1 DEF StepsInv, RowsIssued, NoResurrection
<1>5. \A p \in Threads : TodoOK(p)'
  BY <1>1, <1>2 DEF TodoOK
<1>6. CreatedOnce' /\ NoHandler' /\ CheckedSoFar' /\ StartsConsistent'
  BY <1>1 DEF CreatedOnce, NoHandler, CheckedSoFar, StartsConsistent
<1>7. QED
  BY <1>3, <1>4, <1>5, <1>6 DEF StepsInv

LEMMA FixInv ==
    ASSUME StepsInv, FixVenueDevices \/ FixInventory
    PROVE  StepsInv'
<1>1. UNCHANGED <<venues, tags, deleted, issued, todo, served>>
  BY DEF FixVenueDevices, FixInventory
<1>2. \A p \in Threads : todo[p] = <<>>
  BY DEF FixVenueDevices, FixInventory, StepsInv, NoHandler
<1>3. RowsIssued' /\ NoResurrection' /\ CreatedOnce' /\ NoHandler'
  BY <1>1, <1>2 DEF StepsInv, RowsIssued, NoResurrection, CreatedOnce, NoHandler
<1>4. \A p \in Threads : TodoOK(p)'
  BY <1>1 DEF StepsInv, TodoOK, StatementOK
<1>5. CASE FixVenueDevices
  <2>1. /\ vDevices' = [v \in VenueIds |-> vDevices[v] \intersect tags]
        /\ phase' = "inventory" /\ UNCHANGED tVenue
    BY <1>5 DEF FixVenueDevices
  <2>2. StepsTypeOK'
    BY <1>1, <2>1 DEF StepsInv, StepsTypeOK, Phases
  <2>3. CheckedSoFar' /\ StartsConsistent'
    BY <1>1, <2>1 DEF CheckedSoFar, StartsConsistent
  <2>4. QED
    BY <1>3, <1>4, <2>2, <2>3 DEF StepsInv
<1>6. CASE FixInventory
  <2>1. /\ phase = "inventory" /\ phase' = "serving" /\ UNCHANGED vDevices
        /\ tVenue' = [t \in TagIds |-> IF tVenue[t] \in venues THEN tVenue[t] ELSE NoId]
    BY <1>6 DEF FixInventory
  <2>2. StepsTypeOK'
    BY <1>1, <2>1 DEF StepsInv, StepsTypeOK, Phases, VenueRefs
  <2>3. \A v \in VenueIds : vDevices[v] \subseteq tags
    BY <2>1 DEF StepsInv, CheckedSoFar
  <2>4. CheckedSoFar' /\ StartsConsistent'
    BY <1>1, <2>1, <2>3 DEF CheckedSoFar, StartsConsistent, StepsInv, StepsTypeOK
  <2>5. QED
    BY <1>3, <1>4, <2>2, <2>4 DEF StepsInv
<1>7. QED
  BY <1>5, <1>6

LEMMA StepsNextInv == StepsInv /\ [Next]_vars => StepsInv'
<1> SUFFICES ASSUME StepsInv, [Next]_vars PROVE StepsInv'
  OBVIOUS
<1>1. venues \subseteq VenueIds /\ tags \subseteq TagIds
  BY DEF StepsInv, StepsTypeOK
<1>2. ASSUME NEW p \in Threads, Request(p) PROVE StepsInv'
  <2>1. \A ds \in {{}} \union {{t} : t \in tags} : ds \in SUBSET tags
    OBVIOUS
  <2>2. QED
   BY <1>1, <2>1, <1>2, InventoryPostInv, InventoryPutInv, InventoryDeleteInv, VenuePostInv,
     VenuePutInv DEF Request
<1>3. CASE UNCHANGED vars
  <2>1. UNCHANGED <<venues, vDevices, tags, tVenue, deleted, issued, todo, phase, served>>
    BY <1>3 DEF vars, rows
  <2>2. StepsTypeOK' /\ RowsIssued' /\ CreatedOnce' /\ NoResurrection'
    BY <2>1 DEF StepsInv, StepsTypeOK, RowsIssued, CreatedOnce, NoResurrection
  <2>3. NoHandler' /\ CheckedSoFar' /\ StartsConsistent'
    BY <2>1 DEF StepsInv, NoHandler, CheckedSoFar, StartsConsistent
  <2>4. \A p \in Threads : TodoOK(p)'
    BY <2>1 DEF StepsInv, TodoOK, StatementOK
  <2>5. QED
    BY <2>2, <2>3, <2>4 DEF StepsInv
<1>4. QED
  BY <1>2, <1>3, ExecuteInv, CrashInv, FixInv DEF Next

(***************************************************************************)
(* A deleted venue or tag never comes back, in whatever order handlers     *)
(* that read it before the DELETE write their copies: UPDATE creates no    *)
(* row, and a UUID is inserted by the one handler that drew it.            *)
(***************************************************************************)
THEOREM NoResurrectionTheorem == Spec => []NoResurrection
<1>1. StepsInv => NoResurrection
  BY DEF StepsInv
<1>2. QED
  BY StepsInitInv, StepsNextInv, <1>1, PTL DEF Spec

(***************************************************************************)
(* When the service starts serving, no reference between tags and venues   *)
(* dangles, wherever crashes hit the handlers and earlier consistency      *)
(* checks: no handler runs during the check, and its second pass leaves    *)
(* what the first has repaired.                                            *)
(***************************************************************************)
THEOREM StartsConsistentTheorem == Spec => []StartsConsistent
<1>1. StepsInv => StartsConsistent
  BY DEF StepsInv
<1>2. QED
  BY StepsInitInv, StepsNextInv, <1>1, PTL DEF Spec

-----------------------------------------------------------------------------
(***************************************************************************)
(* With one handler at a time and no crash, the statements of a handler    *)
(* amount to one atomic request of Hierarchy.  The statements that are     *)
(* left stand in the order of their ranks, so that there is at most one of *)
(* each kind, and the venues they write are there.                         *)
(***************************************************************************)
Rank(s) ==
    IF s.op \in {"createTag", "updateTag", "updateVenue"} THEN 0
    ELSE IF s.op = "removeDevice" THEN 1
    ELSE IF s.op = "addDevice" THEN 2
    ELSE 3

Ordered(list) ==
    \A i, j \in 1..Len(list) : i < j => Rank(list[i]) < Rank(list[j])

\* A DELETE of a venue is its handler's only statement, and the venue is empty.
Grounded(list) ==
    \A i \in 1..Len(list) :
       /\ list[i].op \in {"updateVenue", "addDevice", "removeDevice"} =>
            list[i].venue \in venues
       /\ list[i].op = "deleteVenue" =>
            Len(list) = 1 /\ list[i].venue \in venues /\ vDevices[list[i].venue] = {}

\* In the mapped tables, a tag's venue is there and lists the tag.
MappedPlaced ==
    \A t \in mTags : mTagVenue[t] # NoId =>
       mTagVenue[t] \in mVenues /\ t \in mVenueDevices[mTagVenue[t]]

AtomicInv(h) ==
    /\ StepsInv
    /\ phase = "serving" /\ crashes = 0
    /\ Ordered(todo[h])
    /\ Grounded(todo[h])
    /\ MappedPlaced

LEMMA PendingOfOne ==
    ASSUME NEW h, Threads = {h}
    PROVE  /\ Pending = {todo[h][i] : i \in DOMAIN todo[h]}
           /\ Pending' = {todo'[h][i] : i \in DOMAIN todo'[h]}
BY DEF Pending

\* Between requests the mapped tables are the tables.
LEMMA MappedIdle ==
    ASSUME StepsInv, NEW h, Threads = {h}, todo[h] = <<>>
    PROVE  /\ mTags = tags /\ mVenues = venues
           /\ mTagVenue = [t \in TagIds |-> IF t \in tags THEN tVenue[t] ELSE NoId]
           /\ mVenueDevices = vDevices
<1>1. Pending = {}
  BY PendingOfOne
<1>2. \A ops : Ops(ops) = {}
  BY <1>1 DEF Ops
<1>3. mTags = tags
  BY <1>2 DEF mTags
<1>4. mVenues = venues
  BY <1>2 DEF mVenues, Finished
<1>5. mTagVenue = [t \in TagIds |-> IF t \in tags THEN tVenue[t] ELSE NoId]
  BY <1>2, <1>3 DEF mTagVenue
<1>6. mVenueDevices = [v \in VenueIds |-> vDevices[v]]
  BY <1>2 DEF mVenueDevices
<1>7. vDevices \in [VenueIds -> SUBSET TagIds]
  BY DEF StepsInv, StepsTypeOK
<1>8. QED
  BY <1>3, <1>4, <1>5, <1>6, <1>7

LEMMA AtomicInitial ==
    ASSUME NEW h, Threads = {h}, Init
    PROVE  AtomicInv(h) /\ Atomic!Init
<1>1. StepsInv
  BY StepsInitInv
<1>2. todo[h] = <<>> /\ phase = "serving" /\ crashes = 0 /\ Len(<<>>) = 0
  BY DEF Init
<1>3. mTags = {} /\ mVenues = {}
      /\ mTagVenue = [t \in TagIds |-> NoId]
      /\ mVenueDevices = [v \in VenueIds |-> {}]
  BY <1>1, <1>2, MappedIdle DEF Init
<1>4. Ordered(todo[h]) /\ Grounded(todo[h])
  BY <1>2 DEF Ordered, Grounded
<1>5. MappedPlaced
  BY <1>3 DEF MappedPlaced
<1>6. issued = {}
  BY DEF Init
<1>7. Atomic!Init
  BY <1>3, <1>6, HandlerStepsAssumption DEF Atomic!Init
<1>8. QED
  BY <1>1, <1>2, <1>4, <1>5, <1>7 DEF AtomicInv

(***************************************************************************)
(* Accepting a request with statements moves the mapped tables by the      *)
(* request's whole effect.                                                 *)
(***************************************************************************)
\* The statements of each kind that a list of statements holds.
KindsOf(list, ops) == {s \in {list[i] : i \in DOMAIN list} : s.op \in ops}

LEMMA ElementsOfShortLists ==
    ASSUME NEW a, NEW b, NEW c
    PROVE  /\ {<<>>[i] : i \in DOMAIN <<>>} = {}
           /\ {<<a>>[i] : i \in DOMAIN <<a>>} = {a}
           /\ {<<a, b>>[i] : i \in DOMAIN <<a, b>>} = {a, b}
           /\ {<<a, b, c>>[i] : i \in DOMAIN <<a, b, c>>} = {a, b, c}
<1>1. DOMAIN <<>> = {} /\ DOMAIN <<a>> = {1} /\ DOMAIN <<a, b>> = {1, 2}
      /\ DOMAIN <<a, b, c>> = {1, 2, 3}
  OBVIOUS
<1>2. QED
  BY <1>1

LEMMA ConcatShortLists ==
    ASSUME NEW a, NEW b, NEW c
    PROVE  /\ <<>> \o <<>> = <<>> /\ <<a>> \o <<>> = <<a>> /\ <<>> \o <<a>> = <<a>>
           /\ <<a>> \o <<b>> = <<a, b>>
           /\ <<a>> \o <<b, c>> = <<a, b, c>>
<1> DEFINE S == {a, b, c}
<1>1. /\ <<>> \in Seq(S) /\ <<a>> \in Seq(S) /\ <<b>> \in Seq(S)
      /\ <<a, b>> \in Seq(S) /\ <<b, c>> \in Seq(S) /\ <<a, b, c>> \in Seq(S)
  OBVIOUS
<1> HIDE DEF S
<1>2. <<>> \o <<>> = <<>> /\ <<a>> \o <<>> = <<a>> /\ <<>> \o <<a>> = <<a>>
  BY <1>1, ConcatEmptySeq
<1>3. /\ <<a>> \o <<b>> \in Seq(S) /\ Len(<<a>> \o <<b>>) = 2
      /\ \A i \in 1..2 : (<<a>> \o <<b>>)[i] = <<a, b>>[i]
  BY <1>1, ConcatProperties
<1>4. /\ <<a>> \o <<b, c>> \in Seq(S) /\ Len(<<a>> \o <<b, c>>) = 3
      /\ \A i \in 1..3 : (<<a>> \o <<b, c>>)[i] = <<a, b, c>>[i]
  BY <1>1, ConcatProperties
<1>5. <<a>> \o <<b>> = <<a, b>>
  BY <1>1, <1>3, SeqEqual
<1>6. <<a>> \o <<b, c>> = <<a, b, c>>
  BY <1>1, <1>4, SeqEqual
<1>7. QED
  BY <1>2, <1>5, <1>6

LEMMA MoveLists ==
    ASSUME NEW from, NEW to, NEW t
    PROVE  Move(from, to, t) =
             IF from = NoId
             THEN IF to = NoId THEN <<>> ELSE <<AddDevice(to, t)>>
             ELSE IF to = NoId THEN <<RemoveDevice(from, t)>>
                  ELSE <<RemoveDevice(from, t), AddDevice(to, t)>>
BY ConcatShortLists DEF Move

LEMMA RequestOps ==
    ASSUME NEW h, Threads = {h}, NEW ops
    PROVE  Ops(ops)' = KindsOf(todo'[h], ops)
BY PendingOfOne DEF Ops, KindsOf

LEMMA InventoryPostImplements ==
    ASSUME NEW h, Threads = {h}, AtomicInv(h), NEW t \in TagIds, NEW v \in VenueRefs,
           InventoryPost(h, t, v), StepsInv'
    PROVE  AtomicInv(h)' /\ Atomic!InventoryPost(t, NoId, v, NoId, NoId, NoId, NoId)
<1> DEFINE create == CreateTag(t, v)
           add == AddDevice(v, t)
           T == IF v = NoId THEN <<create>> ELSE <<create, add>>
<1>1. /\ t \notin issued /\ v \in venues \union {NoId} /\ issued' = issued \union {t}
      /\ todo[h] = <<>> /\ Accept(h, <<create>> \o Move(NoId, v, t))
      /\ UNCHANGED <<venues, vDevices, tags, tVenue, deleted>>
  BY DEF InventoryPost, Accept, rows
<1>2. <<create>> \o Move(NoId, v, t) = T
  BY MoveLists, ConcatShortLists
<1>3. todo'[h] = T /\ phase' = "serving" /\ crashes' = 0
  <2>1. todo' = [todo EXCEPT ![h] = T] /\ UNCHANGED <<phase, crashes>>
    BY <1>1, <1>2 DEF Accept
  <2>2. todo \in [{h} -> Seq(Statements)]
    BY DEF AtomicInv, StepsInv, StepsTypeOK
  <2>3. QED
    BY <2>1, <2>2 DEF AtomicInv
<1>4. /\ create.op = "createTag" /\ create.tag = t /\ create.venue = v
      /\ add.op = "addDevice" /\ add.tag = t /\ add.venue = v
  BY DEF CreateTag, AddDevice
<1> HIDE DEF create, add
<1>5. {T[i] : i \in DOMAIN T} = IF v = NoId THEN {create} ELSE {create, add}
  BY ElementsOfShortLists
<1>5a. \A ops : Ops(ops)' = {s \in (IF v = NoId THEN {create} ELSE {create, add}) : s.op \in ops}
  BY <1>3, <1>5, RequestOps DEF KindsOf
<1>6. /\ Ops({"createTag"})' = {create} /\ Ops({"createTag", "updateTag"})' = {create}
      /\ Ops({"deleteTag"})' = {} /\ Ops({"deleteVenue"})' = {}
      /\ Ops({"updateVenue"})' = {} /\ Ops({"removeDevice"})' = {}
      /\ Ops({"addDevice"})' = IF v = NoId THEN {} ELSE {add}
  BY <1>4, <1>5a
<1>7. mTags' = tags \union {t}
  BY <1>1, <1>4, <1>6 DEF mTags
<1>8. mVenues' = venues
  BY <1>1, <1>6 DEF mVenues, Finished
<1>9. mTagVenue' = [x \in TagIds |-> IF x = t THEN v ELSE IF x \in tags THEN tVenue[x] ELSE NoId]
  BY <1>1, <1>4, <1>6, <1>7 DEF mTagVenue
<1>10. mVenueDevices' = [w \in VenueIds |-> IF w = v THEN vDevices[w] \union {t} ELSE vDevices[w]]
  <2>1. v = NoId => \A w \in VenueIds : w # v
    BY HandlerStepsAssumption
  <2>2. QED
    BY <1>1, <1>4, <1>6, <2>1 DEF mVenueDevices
<1>11. /\ mTags = tags /\ mVenues = venues /\ mVenueDevices = vDevices
       /\ mTagVenue = [x \in TagIds |-> IF x \in tags THEN tVenue[x] ELSE NoId]
  BY <1>1, MappedIdle DEF AtomicInv
<1>12. vDevices \in [VenueIds -> SUBSET TagIds] /\ venues \subseteq VenueIds
       /\ tags \subseteq TagIds
  BY DEF AtomicInv, StepsInv, StepsTypeOK
<1>13. MappedPlaced'
  BY <1>1, <1>7, <1>8, <1>9, <1>10, <1>11, <1>12 DEF AtomicInv, MappedPlaced
<1>14. Ordered(todo[h])'
  BY <1>3, <1>4 DEF Ordered, Rank
<1>15. Grounded(todo[h])'
  BY <1>1, <1>3, <1>4 DEF Grounded
<1>16. AtomicInv(h)'
  BY <1>3, <1>13, <1>14, <1>15 DEF AtomicInv
<1>17. Atomic!InventoryPost(t, NoId, v, NoId, NoId, NoId, NoId)
  <2>1. /\ t \notin issued \union {Root, Op} /\ NoId \notin {Root, Op}
        /\ NoId \notin VenueIds
    BY <1>1, HandlerStepsAssumption
  <2>2. /\ mTagVenue' = [mTagVenue EXCEPT ![t] = v]
        /\ mVenueDevices' = AddMembership(mVenueDevices, mVenues, v, t)
    BY <1>1, <1>9, <1>10, <1>11, <1>12, <2>1 DEF AddMembership
  <2>3. Atomic!CreateObjects(NoId, NoId, NoId)
    BY <2>1 DEF Atomic!CreateObjects, Atomic!Inline
  <2>4. Atomic!NewTag(t, NoId, v, NoId, NoId)
    BY <1>1, <1>7, <1>8, <1>11, <2>1, <2>2 DEF Atomic!NewTag, Atomic!RefSet, Atomic!AddMembership,
       Atomic!MoveUsage, AddMembership, Atomic!entityVars, Atomic!venueVars, Atomic!ownerVars
  <2>5. QED
    BY <1>1, <1>11, <2>1, <2>3, <2>4 DEF Atomic!InventoryPost, Atomic!Fresh,
       Atomic!subscriberVenues
<1>18. QED
  BY <1>16, <1>17

\* The facts about the tables between requests that every acceptance starts from.
LEMMA IdleFacts ==
    ASSUME NEW h, Threads = {h}, AtomicInv(h), todo[h] = <<>>
    PROVE  /\ mTags = tags /\ mVenues = venues /\ mVenueDevices = vDevices
           /\ mTagVenue = [x \in TagIds |-> IF x \in tags THEN tVenue[x] ELSE NoId]
           /\ vDevices \in [VenueIds -> SUBSET TagIds]
           /\ venues \subseteq VenueIds /\ tags \subseteq TagIds
           /\ \A x \in tags : tVenue[x] # NoId =>
                tVenue[x] \in venues /\ x \in vDevices[tVenue[x]]
           /\ \A L : Accept(h, L) => todo'[h] = L /\ phase' = "serving" /\ crashes' = 0
<1>1. /\ mTags = tags /\ mVenues = venues /\ mVenueDevices = vDevices
      /\ mTagVenue = [x \in TagIds |-> IF x \in tags THEN tVenue[x] ELSE NoId]
  BY MappedIdle DEF AtomicInv
<1>2. /\ vDevices \in [VenueIds -> SUBSET TagIds]
      /\ venues \subseteq VenueIds /\ tags \subseteq TagIds
      /\ todo \in [{h} -> Seq(Statements)]
  BY DEF AtomicInv, StepsInv, StepsTypeOK
<1>3. \A x \in tags : tVenue[x] # NoId => tVenue[x] \in venues /\ x \in vDevices[tVenue[x]]
  BY <1>1, <1>2 DEF AtomicInv, MappedPlaced
<1>4. ASSUME NEW L, Accept(h, L)
      PROVE  todo'[h] = L /\ phase' = "serving" /\ crashes' = 0
  BY <1>2, <1>4 DEF Accept, AtomicInv
<1>5. QED
  BY <1>1, <1>2, <1>3, <1>4

LEMMA InventoryPutImplements ==
    ASSUME NEW h, Threads = {h}, AtomicInv(h), NEW t \in tags, NEW v \in VenueRefs,
           InventoryPut(h, t, v), StepsInv'
    PROVE  AtomicInv(h)' /\ Atomic!InventoryPut(t, Keep, v, Keep, NoId, NoId, Keep)
<1> DEFINE from == tVenue[t]
           update == UpdateTag(t, v)
           remove == RemoveDevice(from, t)
           add == AddDevice(v, t)
           T == IF from = NoId
                THEN IF v = NoId THEN <<update>> ELSE <<update, add>>
                ELSE IF v = NoId THEN <<update, remove>> ELSE <<update, remove, add>>
           P == {update} \union (IF from = NoId THEN {} ELSE {remove})
                         \union (IF v = NoId THEN {} ELSE {add})
<1>1. /\ v \in venues \union {NoId} /\ todo[h] = <<>>
      /\ Accept(h, <<update>> \o Move(from, v, t))
      /\ UNCHANGED <<venues, vDevices, tags, tVenue, deleted, issued>>
  BY DEF InventoryPut, Accept, rows
<1>2. <<update>> \o Move(from, v, t) = T
  BY MoveLists, ConcatShortLists
<1>3. /\ mTags = tags /\ mVenues = venues /\ mVenueDevices = vDevices
      /\ mTagVenue = [x \in TagIds |-> IF x \in tags THEN tVenue[x] ELSE NoId]
      /\ vDevices \in [VenueIds -> SUBSET TagIds]
      /\ venues \subseteq VenueIds /\ tags \subseteq TagIds
      /\ \A x \in tags : tVenue[x] # NoId =>
           tVenue[x] \in venues /\ x \in vDevices[tVenue[x]]
      /\ todo'[h] = T /\ phase' = "serving" /\ crashes' = 0
  <2> HIDE DEF T, update
  <2>1. QED
    BY <1>1, <1>2, IdleFacts
<1>4. /\ update.op = "updateTag" /\ update.tag = t /\ update.venue = v
      /\ add.op = "addDevice" /\ add.tag = t /\ add.venue = v
      /\ remove.op = "removeDevice" /\ remove.tag = t /\ remove.venue = from
  BY DEF UpdateTag, AddDevice, RemoveDevice
<1>5. from = NoId \/ from \in venues
  BY <1>3
<1>5a. NoId \notin VenueIds
  BY HandlerStepsAssumption
<1> HIDE DEF update, add, remove, from
<1>6. {T[i] : i \in DOMAIN T} = P
  BY ElementsOfShortLists
<1>7. \A ops : Ops(ops)' = {s \in P : s.op \in ops}
  BY <1>3, <1>6, RequestOps DEF KindsOf
<1>8. /\ Ops({"createTag"})' = {} /\ Ops({"createTag", "updateTag"})' = {update}
      /\ Ops({"deleteTag"})' = {} /\ Ops({"deleteVenue"})' = {}
      /\ Ops({"updateVenue"})' = {}
      /\ Ops({"removeDevice"})' = IF from = NoId THEN {} ELSE {remove}
      /\ Ops({"addDevice"})' = IF v = NoId THEN {} ELSE {add}
  BY <1>4, <1>7
<1>9. mTags' = tags
  BY <1>1, <1>8 DEF mTags
<1>10. mVenues' = venues
  BY <1>1, <1>8 DEF mVenues, Finished
<1>11. mTagVenue' = [x \in TagIds |-> IF x = t THEN v ELSE IF x \in tags THEN tVenue[x] ELSE NoId]
  BY <1>1, <1>4, <1>8, <1>9 DEF mTagVenue
<1>12. mVenueDevices' = [w \in VenueIds |->
         (vDevices[w] \ (IF w = from THEN {t} ELSE {})) \union (IF w = v THEN {t} ELSE {})]
  BY <1>1, <1>4, <1>5a, <1>8 DEF mVenueDevices
<1>13. MappedPlaced'
  <2>1. ASSUME NEW x \in tags, mTagVenue'[x] # NoId
        PROVE  mTagVenue'[x] \in venues /\ x \in mVenueDevices'[mTagVenue'[x]]
    <3>1. CASE x = t
      BY <1>1, <1>3, <1>11, <1>12, <2>1, <3>1
    <3>2. CASE x # t
      BY <1>3, <1>11, <1>12, <2>1, <3>2
    <3>3. QED
      BY <3>1, <3>2
  <2>2. QED
    BY <1>9, <1>10, <2>1 DEF MappedPlaced
<1>14. Ordered(todo[h])'
  BY <1>3, <1>4 DEF Ordered, Rank
<1>15. Grounded(todo[h])'
  BY <1>1, <1>3, <1>4, <1>5 DEF Grounded
<1>16. AtomicInv(h)'
  BY <1>3, <1>13, <1>14, <1>15 DEF AtomicInv
<1>17. Atomic!InventoryPut(t, Keep, v, Keep, NoId, NoId, Keep)
  <2>1. /\ NoId \notin {Root, Op, Keep} /\ NoId \notin VenueIds /\ Keep \notin VenueIds
        /\ v # Keep /\ t \in TagIds
    BY <1>1, <1>3, HandlerStepsAssumption
  <2>2. mTagVenue' = [mTagVenue EXCEPT ![t] = v]
    BY <1>3, <1>11
  <2>3. mVenueDevices' = Atomic!ManageMembership(mVenueDevices, mVenues, from, v, t)
    BY <1>1, <1>3, <1>5, <1>12, <2>1
       DEF Atomic!ManageMembership, Atomic!AddMembership, Atomic!RemoveMembership
  <2>4. Atomic!From(mTagVenue[t], v) = from /\ Atomic!To(v) = v
        /\ Atomic!Assigned(mTagVenue[t], v) = v
    BY <1>3, <2>1 DEF Atomic!From, Atomic!To, Atomic!Assigned, from
  <2>5. Atomic!CreateObjects(Keep, NoId, NoId)
    BY DEF Atomic!CreateObjects, Atomic!Inline
  <2>6. mTagVenue' = [mTagVenue EXCEPT ![t] = Atomic!Assigned(@, v)]
    BY <1>3, <2>1, <2>2, <2>4
  <2>7. QED
    BY <1>1, <1>3, <1>9, <1>10, <2>1, <2>3, <2>4, <2>5, <2>6
       DEF Atomic!InventoryPut, Atomic!WriteTag, Atomic!MoveAllowed, Atomic!From, Atomic!To, Atomic!Assigned,
       Atomic!ManageMembership, Atomic!AddMembership, Atomic!RemoveMembership, Atomic!RefSet,
       Atomic!MoveUsage, Atomic!entityVars, Atomic!venueVars, Atomic!ownerVars
<1>18. QED
  BY <1>16, <1>17

LEMMA InventoryDeleteImplements ==
    ASSUME NEW h, Threads = {h}, AtomicInv(h), NEW t \in tags,
           InventoryDelete(h, t), StepsInv'
    PROVE  AtomicInv(h)' /\ Atomic!InventoryDelete(t)
<1> DEFINE from == tVenue[t]
           remove == RemoveDevice(from, t)
           delete == DeleteTag(t)
           T == IF from = NoId THEN <<delete>> ELSE <<remove, delete>>
           P == {delete} \union (IF from = NoId THEN {} ELSE {remove})
<1>1. /\ todo[h] = <<>>
      /\ Accept(h, Move(from, NoId, t) \o <<delete>>)
      /\ UNCHANGED <<venues, vDevices, tags, tVenue, deleted, issued>>
  BY DEF InventoryDelete, Accept, rows
<1>2. Move(from, NoId, t) \o <<delete>> = T
  BY MoveLists, ConcatShortLists
<1>3. /\ mTags = tags /\ mVenues = venues /\ mVenueDevices = vDevices
      /\ mTagVenue = [x \in TagIds |-> IF x \in tags THEN tVenue[x] ELSE NoId]
      /\ vDevices \in [VenueIds -> SUBSET TagIds]
      /\ venues \subseteq VenueIds /\ tags \subseteq TagIds
      /\ \A x \in tags : tVenue[x] # NoId =>
           tVenue[x] \in venues /\ x \in vDevices[tVenue[x]]
      /\ todo'[h] = T /\ phase' = "serving" /\ crashes' = 0
  <2> HIDE DEF T, delete
  <2>1. QED
    BY <1>1, <1>2, IdleFacts
<1>4. /\ delete.op = "deleteTag" /\ delete.tag = t
      /\ remove.op = "removeDevice" /\ remove.tag = t /\ remove.venue = from
  BY DEF DeleteTag, RemoveDevice
<1>5. from = NoId \/ from \in venues
  BY <1>3
<1>5a. NoId \notin VenueIds
  BY HandlerStepsAssumption
<1> HIDE DEF delete, remove, from
<1>6. {T[i] : i \in DOMAIN T} = P
  BY ElementsOfShortLists
<1>7. \A ops : Ops(ops)' = {s \in P : s.op \in ops}
  BY <1>3, <1>6, RequestOps DEF KindsOf
<1>8. /\ Ops({"createTag"})' = {} /\ Ops({"createTag", "updateTag"})' = {}
      /\ Ops({"deleteTag"})' = {delete} /\ Ops({"deleteVenue"})' = {}
      /\ Ops({"updateVenue"})' = {} /\ Ops({"addDevice"})' = {}
      /\ Ops({"removeDevice"})' = IF from = NoId THEN {} ELSE {remove}
  BY <1>4, <1>7
<1>9. mTags' = tags \ {t}
  BY <1>1, <1>4, <1>8 DEF mTags
<1>10. mVenues' = venues
  BY <1>1, <1>8 DEF mVenues, Finished
<1>11. mTagVenue' = [x \in TagIds |-> IF x \in tags \ {t} THEN tVenue[x] ELSE NoId]
  BY <1>1, <1>8, <1>9 DEF mTagVenue
<1>12. mVenueDevices' = [w \in VenueIds |-> vDevices[w] \ (IF w = from THEN {t} ELSE {})]
  BY <1>1, <1>4, <1>5a, <1>8 DEF mVenueDevices
<1>13. MappedPlaced'
  <2>1. ASSUME NEW x \in tags \ {t}, mTagVenue'[x] # NoId
        PROVE  mTagVenue'[x] \in venues /\ x \in mVenueDevices'[mTagVenue'[x]]
    BY <1>3, <1>11, <1>12, <2>1
  <2>2. QED
    BY <1>9, <1>10, <2>1 DEF MappedPlaced
<1>14. Ordered(todo[h])'
  BY <1>3, <1>4 DEF Ordered, Rank
<1>15. Grounded(todo[h])'
  BY <1>1, <1>3, <1>4, <1>5 DEF Grounded
<1>16. AtomicInv(h)'
  BY <1>3, <1>13, <1>14, <1>15 DEF AtomicInv
<1>17. Atomic!InventoryDelete(t)
  <2>1. NoId \notin {Root, Op} /\ t \in TagIds
    BY <1>3, HandlerStepsAssumption
  <2>2. mTagVenue' = [mTagVenue EXCEPT ![t] = NoId] /\ mTagVenue[t] = from
    BY <1>3, <1>11, <2>1 DEF from
  <2>3. mVenueDevices' = Atomic!RemoveMembership(mVenueDevices, mVenues, from, t)
    BY <1>3, <1>5, <1>5a, <1>12 DEF Atomic!RemoveMembership
  <2>4. QED
    BY <1>1, <1>3, <1>9, <1>10, <2>1, <2>2, <2>3
       DEF Atomic!InventoryDelete, Atomic!RemoveMembership, Atomic!RefSet, Atomic!MoveUsage,
       Atomic!entityVars, Atomic!venueVars, Atomic!ownerVars
<1>18. QED
  BY <1>16, <1>17

LEMMA VenuePostImplements ==
    ASSUME NEW h, Threads = {h}, AtomicInv(h), NEW v \in VenueIds,
           NEW ds \in SUBSET tags, VenuePost(h, v, ds), StepsInv'
    PROVE  AtomicInv(h)' /\ Atomic!VenuePost(v, NoId, Op, ds, {}, NoId, TRUE)
<1>1. /\ v \notin issued /\ todo[h] = <<>> /\ Accept(h, <<>>)
      /\ issued' = issued \union {v} /\ venues' = venues \union {v}
      /\ vDevices' = [vDevices EXCEPT ![v] = ds]
      /\ UNCHANGED <<tags, tVenue, deleted>>
  BY DEF VenuePost, Accept
<1>2. /\ mTags = tags /\ mVenues = venues /\ mVenueDevices = vDevices
      /\ mTagVenue = [x \in TagIds |-> IF x \in tags THEN tVenue[x] ELSE NoId]
      /\ vDevices \in [VenueIds -> SUBSET TagIds]
      /\ venues \subseteq VenueIds /\ tags \subseteq TagIds
      /\ \A x \in tags : tVenue[x] # NoId =>
           tVenue[x] \in venues /\ x \in vDevices[tVenue[x]]
      /\ todo'[h] = <<>> /\ phase' = "serving" /\ crashes' = 0
  BY <1>1, IdleFacts
<1>3. {<<>>[i] : i \in DOMAIN <<>>} = {}
  BY ElementsOfShortLists
<1>4. \A ops : Ops(ops)' = {}
  BY <1>2, <1>3, RequestOps DEF KindsOf
<1>5. mTags' = tags
  BY <1>1, <1>4 DEF mTags
<1>6. mVenues' = venues \union {v}
  BY <1>1, <1>4 DEF mVenues, Finished
<1>7. mTagVenue' = mTagVenue
  BY <1>1, <1>2, <1>4, <1>5 DEF mTagVenue
<1>8. mVenueDevices' = [w \in VenueIds |-> IF w = v THEN ds ELSE vDevices[w]]
  BY <1>1, <1>2, <1>4 DEF mVenueDevices
<1>9. v \notin venues
  BY <1>1 DEF AtomicInv, StepsInv, RowsIssued
<1>10. MappedPlaced'
  BY <1>2, <1>5, <1>6, <1>7, <1>8, <1>9 DEF MappedPlaced
<1>11. Ordered(todo[h])' /\ Grounded(todo[h])'
  BY <1>2 DEF Ordered, Grounded
<1>12. AtomicInv(h)'
  BY <1>2, <1>10, <1>11 DEF AtomicInv
<1>13. Atomic!VenuePost(v, NoId, Op, ds, {}, NoId, TRUE)
  <2>1. /\ v \notin issued \union {Root, Op} /\ NoId \notin {Root, Op} /\ Op # Root
        /\ NoId \notin VenueIds
    BY <1>1, HandlerStepsAssumption
  <2>2. mVenueDevices' = [mVenueDevices EXCEPT ![v] = ds]
    BY <1>2, <1>8
  <2>3. [w \in VenueIds |-> IF w \in mVenues' THEN Op ELSE NoId]
          = [[w \in VenueIds |-> IF w \in mVenues THEN Op ELSE NoId] EXCEPT ![v] = Op]
    BY <1>2, <1>6
  <2>4. [w \in VenueIds |-> NoId] = [[w \in VenueIds |-> NoId] EXCEPT ![v] = NoId]
    OBVIOUS
  <2>5. [w \in VenueIds |-> {}] = [[w \in VenueIds |-> {}] EXCEPT ![v] = {}]
    OBVIOUS
  <2>6. [c \in {} |-> {}] = Atomic!MoveUsage([c \in {} |-> {}], {}, {}, {}, v)
    BY DEF Atomic!MoveUsage
  <2>7. [e \in {Root, Op} |-> IF e = Op THEN mVenues' ELSE {}]
          = Atomic!AddMembership([e \in {Root, Op} |-> IF e = Op THEN mVenues ELSE {}],
                                 {Root, Op}, Op, v)
    BY <1>2, <1>6, <2>1 DEF Atomic!AddMembership
  <2>8. [w \in VenueIds |-> {}]
          = Atomic!AddMembership([w \in VenueIds |-> {}], mVenues, NoId, v)
    BY <1>2, <2>1 DEF Atomic!AddMembership
  <2>9. Atomic!Fresh(v) /\ NoId # Op /\ Op # Root
    BY <2>1 DEF Atomic!Fresh
  <2>10. /\ (issued \union {Root, Op})' = issued \union {Root, Op} \union {v}
         /\ mVenues' = mVenues \union {v}
         /\ mTags' = mTags /\ mTagVenue' = mTagVenue
    BY <1>1, <1>2, <1>5, <1>6, <1>7
  <2>11. QED
    BY <2>2, <2>3, <2>4, <2>5, <2>6, <2>7, <2>8, <2>9, <2>10
       DEF Atomic!VenuePost, Atomic!entityVars, Atomic!tagVars, Atomic!ownerVars
<1>14. QED
  BY <1>12, <1>13

\* The mapped tables and what Hierarchy keeps next to them.
Mapped == <<mTags, mVenues, mTagVenue, mVenueDevices, issued>>

\* A PUT that moves nothing is a stuttering step of Hierarchy.
LEMMA VenuePutImplements ==
    ASSUME NEW h, Threads = {h}, AtomicInv(h), NEW v \in venues, VenuePut(h, v), StepsInv'
    PROVE  AtomicInv(h)' /\ UNCHANGED Mapped
<1> DEFINE update == UpdateVenue(v, vDevices[v])
<1>1. /\ todo[h] = <<>> /\ Accept(h, <<update>>)
      /\ UNCHANGED <<venues, vDevices, tags, tVenue, deleted, issued>>
  BY DEF VenuePut, Accept, rows
<1>2. update.op = "updateVenue" /\ update.venue = v /\ update.list = vDevices[v]
  BY DEF UpdateVenue
<1> HIDE DEF update
<1>3. /\ mTags = tags /\ mVenues = venues /\ mVenueDevices = vDevices
      /\ mTagVenue = [x \in TagIds |-> IF x \in tags THEN tVenue[x] ELSE NoId]
      /\ vDevices \in [VenueIds -> SUBSET TagIds]
      /\ todo'[h] = <<update>> /\ phase' = "serving" /\ crashes' = 0
  BY <1>1, IdleFacts
<1>4. {<<update>>[i] : i \in DOMAIN <<update>>} = {update}
  BY ElementsOfShortLists
<1>5. \A ops : Ops(ops)' = {s \in {update} : s.op \in ops}
  BY <1>3, <1>4, RequestOps DEF KindsOf
<1>6. /\ Ops({"createTag"})' = {} /\ Ops({"createTag", "updateTag"})' = {}
      /\ Ops({"deleteTag"})' = {} /\ Ops({"deleteVenue"})' = {}
      /\ Ops({"updateVenue"})' = {update} /\ Ops({"addDevice"})' = {}
      /\ Ops({"removeDevice"})' = {}
  BY <1>2, <1>5
<1>7. mTags' = mTags
  BY <1>1, <1>3, <1>6 DEF mTags
<1>8. mVenues' = mVenues
  BY <1>1, <1>3, <1>6 DEF mVenues, Finished
<1>9. mTagVenue' = mTagVenue
  BY <1>1, <1>3, <1>6, <1>7 DEF mTagVenue
<1>10. mVenueDevices' = mVenueDevices
  <2>1. mVenueDevices' = [w \in VenueIds |-> vDevices[w]]
    BY <1>1, <1>2, <1>6 DEF mVenueDevices
  <2>2. QED
    BY <1>3, <2>1
<1>11. MappedPlaced'
  BY <1>7, <1>8, <1>9, <1>10 DEF MappedPlaced, AtomicInv
<1>12. Ordered(todo[h])' /\ Grounded(todo[h])'
  BY <1>1, <1>2, <1>3 DEF Ordered, Grounded, Rank
<1>13. QED
  BY <1>1, <1>3, <1>7, <1>8, <1>9, <1>10, <1>11, <1>12 DEF AtomicInv, Mapped

LEMMA VenueDeleteImplements ==
    ASSUME NEW h, Threads = {h}, AtomicInv(h), NEW v \in venues, VenueDelete(h, v), StepsInv'
    PROVE  AtomicInv(h)' /\ Atomic!VenueDelete(v)
<1> DEFINE delete == DeleteVenue(v)
<1>1. /\ todo[h] = <<>> /\ Accept(h, <<delete>>) /\ vDevices[v] = {}
      /\ UNCHANGED <<venues, vDevices, tags, tVenue, deleted, issued>>
  BY DEF VenueDelete, Accept, rows
<1>2. delete.op = "deleteVenue" /\ delete.venue = v
  BY DEF DeleteVenue
<1> HIDE DEF delete
<1>3. /\ mTags = tags /\ mVenues = venues /\ mVenueDevices = vDevices
      /\ mTagVenue = [x \in TagIds |-> IF x \in tags THEN tVenue[x] ELSE NoId]
      /\ vDevices \in [VenueIds -> SUBSET TagIds]
      /\ venues \subseteq VenueIds /\ tags \subseteq TagIds
      /\ \A x \in tags : tVenue[x] # NoId =>
           tVenue[x] \in venues /\ x \in vDevices[tVenue[x]]
      /\ todo'[h] = <<delete>> /\ phase' = "serving" /\ crashes' = 0
  BY <1>1, IdleFacts
<1>4. {<<delete>>[i] : i \in DOMAIN <<delete>>} = {delete}
  BY ElementsOfShortLists
<1>5. \A ops : Ops(ops)' = {s \in {delete} : s.op \in ops}
  BY <1>3, <1>4, RequestOps DEF KindsOf
<1>6. /\ Ops({"createTag"})' = {} /\ Ops({"createTag", "updateTag"})' = {}
      /\ Ops({"deleteTag"})' = {} /\ Ops({"deleteVenue"})' = {delete}
      /\ Ops({"updateVenue"})' = {} /\ Ops({"addDevice"})' = {}
      /\ Ops({"removeDevice"})' = {}
  BY <1>2, <1>5
<1>7. mTags' = mTags
  BY <1>1, <1>3, <1>6 DEF mTags
<1>8. mVenues' = mVenues \ {v}
  BY <1>1, <1>2, <1>3, <1>6 DEF mVenues, Finished
<1>9. mTagVenue' = mTagVenue
  BY <1>1, <1>3, <1>6, <1>7 DEF mTagVenue
<1>10. mVenueDevices' = mVenueDevices
  <2>1. mVenueDevices' = [w \in VenueIds |-> vDevices[w]]
    BY <1>1, <1>6 DEF mVenueDevices
  <2>2. QED
    BY <1>3, <2>1
<1>11. MappedPlaced'
  BY <1>1, <1>3, <1>7, <1>8, <1>9, <1>10 DEF MappedPlaced
<1>12. Ordered(todo[h])' /\ Grounded(todo[h])'
  BY <1>1, <1>2, <1>3 DEF Ordered, Grounded, Rank
<1>13. Atomic!VenueDelete(v)
  <2>1. NoId \notin {Root, Op} /\ NoId \notin VenueIds /\ v \in VenueIds
    BY <1>3, HandlerStepsAssumption
  <2>2. [w \in VenueIds |-> IF w \in mVenues' THEN Op ELSE NoId]
          = [[w \in VenueIds |-> IF w \in mVenues THEN Op ELSE NoId] EXCEPT ![v] = NoId]
    BY <1>8
  <2>3. QED
    BY <1>1, <1>3, <1>7, <1>8, <1>9, <1>10, <2>1, <2>2
       DEF Atomic!VenueDelete, Atomic!subscriberVenues, Atomic!RemoveMembership, Atomic!MoveUsage,
       Atomic!entityVars, Atomic!tagVars, Atomic!deviceVars
<1>14. QED
  BY <1>3, <1>11, <1>12, <1>13 DEF AtomicInv

(***************************************************************************)
(* Executing a statement leaves the mapped tables as they are.             *)
(***************************************************************************)
\* What is pending before and after the first statement of a list is taken away.
LEMMA HeadAndRest ==
    ASSUME NEW T \in Seq(Statements), T # <<>>, Ordered(T), Grounded(T)
    PROVE  /\ Head(T) \in Statements /\ Tail(T) \in Seq(Statements)
           /\ {T[i] : i \in DOMAIN T} = {Head(T)} \union {Tail(T)[i] : i \in DOMAIN Tail(T)}
           /\ \A i \in 1..Len(Tail(T)) : Rank(Head(T)) < Rank(Tail(T)[i])
           /\ Ordered(Tail(T))
           /\ Grounded(<<Head(T)>>)
           /\ Grounded(Tail(T))
           /\ Head(T).op = "deleteVenue" => Tail(T) = <<>>
           /\ \A i \in 1..Len(Tail(T)) : Tail(T)[i].op # "deleteVenue"
<1>1. /\ Len(T) \in Nat /\ Len(T) >= 1 /\ DOMAIN T = 1..Len(T)
      /\ Head(T) = T[1] /\ T[1] \in Statements
      /\ Tail(T) \in Seq(Statements) /\ Len(Tail(T)) = Len(T) - 1
      /\ DOMAIN Tail(T) = 1..(Len(T) - 1)
      /\ \A i \in 1..(Len(T) - 1) : Tail(T)[i] = T[i + 1]
  BY HeadTailProperties
<1>2. {T[i] : i \in DOMAIN T} = {T[1]} \union {T[i + 1] : i \in 1..(Len(T) - 1)}
  <2>1. \A i \in 1..Len(T) : i = 1 \/ (i - 1 \in 1..(Len(T) - 1) /\ i = (i - 1) + 1)
    BY <1>1
  <2>2. 1 \in 1..Len(T) /\ \A i \in 1..(Len(T) - 1) : i + 1 \in 1..Len(T)
    BY <1>1
  <2>3. ASSUME NEW x
        PROVE  x \in {T[i] : i \in DOMAIN T}
                 <=> x = T[1] \/ \E i \in 1..(Len(T) - 1) : x = T[i + 1]
    <3>1. ASSUME NEW i \in 1..Len(T), x = T[i], i # 1
          PROVE  \E j \in 1..(Len(T) - 1) : x = T[j + 1]
      <4>1. i - 1 \in 1..(Len(T) - 1) /\ x = T[(i - 1) + 1]
        BY <2>1, <3>1
      <4>2. QED
        BY <4>1
    <3>2. x \in {T[i] : i \in DOMAIN T} <=> \E i \in 1..Len(T) : x = T[i]
      BY <1>1
    <3>3. QED
      BY <2>2, <3>1, <3>2
  <2>4. QED
    BY <2>3
<1>3. {Tail(T)[i] : i \in DOMAIN Tail(T)} = {T[i + 1] : i \in 1..(Len(T) - 1)}
  BY <1>1
<1>4. /\ \A i \in 1..(Len(T) - 1) : Rank(T[1]) < Rank(T[i + 1])
      /\ \A i, j \in 1..(Len(T) - 1) : i < j => Rank(T[i + 1]) < Rank(T[j + 1])
  BY <1>1 DEF Ordered
<1>5. /\ T[1].op \in {"updateVenue", "addDevice", "removeDevice"} => T[1].venue \in venues
      /\ T[1].op = "deleteVenue" =>
           Len(T) = 1 /\ T[1].venue \in venues /\ vDevices[T[1].venue] = {}
  BY <1>1 DEF Grounded
<1>6. \A i \in 1..(Len(T) - 1) :
         /\ T[i + 1].op \in {"updateVenue", "addDevice", "removeDevice"} =>
              T[i + 1].venue \in venues
         /\ T[i + 1].op # "deleteVenue"
  BY <1>1 DEF Grounded
<1>7. Ordered(Tail(T)) /\ Grounded(Tail(T)) /\ Grounded(<<Head(T)>>)
  BY <1>1, <1>4, <1>5, <1>6 DEF Ordered, Grounded
<1>8. Head(T).op = "deleteVenue" => Tail(T) = <<>>
  BY <1>1, <1>5
<1>9. QED
  BY <1>1, <1>2, <1>3, <1>4, <1>6, <1>7, <1>8

\* The kinds that may follow a statement, by its rank.
LEMMA LaterKinds ==
    ASSUME NEW s \in Statements, NEW R \in SUBSET Statements,
           \A r \in R : Rank(s) < Rank(r)
    PROVE  /\ \A r \in R : r.op \notin {"createTag", "updateTag", "updateVenue"}
           /\ s.op \in {"addDevice", "removeDevice"} => \A r \in R : r.op # "removeDevice"
           /\ s.op = "addDevice" => \A r \in R : r.op # "addDevice"
           /\ s.op = "deleteTag" => R = {}
<1>1. \A r \in R \union {s} : Rank(r) \in 0..3
  BY DEF Rank
<1>2. QED
  BY <1>1 DEF Rank, Statements

LEMMA ExecuteImplements ==
    ASSUME NEW h, Threads = {h}, AtomicInv(h), Execute(h), StepsInv'
    PROVE  AtomicInv(h)' /\ UNCHANGED Mapped
<1> DEFINE s == Head(todo[h])
           rest == Tail(todo[h])
           R == {rest[i] : i \in DOMAIN rest}
           later(ops) == {r \in R : r.op \in ops}
<1>1. /\ todo \in [{h} -> Seq(Statements)] /\ todo[h] \in Seq(Statements) /\ todo[h] # <<>>
      /\ Ordered(todo[h]) /\ Grounded(todo[h])
      /\ UNCHANGED <<issued, phase, crashes>> /\ phase = "serving" /\ crashes = 0
      /\ vDevices \in [VenueIds -> SUBSET TagIds] /\ tVenue \in [TagIds -> VenueRefs]
      /\ venues \subseteq VenueIds /\ tags \subseteq TagIds
  BY DEF Execute, AtomicInv, StepsInv, StepsTypeOK
<1>2. /\ s \in Statements /\ rest \in Seq(Statements)
      /\ {todo[h][i] : i \in DOMAIN todo[h]} = {s} \union R
      /\ \A i \in 1..Len(rest) : Rank(s) < Rank(rest[i])
      /\ Ordered(rest) /\ Grounded(<<s>>) /\ Grounded(rest)
      /\ s.op = "deleteVenue" => rest = <<>>
      /\ \A i \in 1..Len(rest) : rest[i].op # "deleteVenue"
  BY <1>1, HeadAndRest
<1> HIDE DEF s, rest
<1>3. R \in SUBSET Statements /\ \A r \in R : Rank(s) < Rank(r) /\ r.op # "deleteVenue"
  BY <1>2
<1>4. /\ \A r \in R : r.op \notin {"createTag", "updateTag", "updateVenue"}
      /\ s.op \in {"addDevice", "removeDevice"} => \A r \in R : r.op # "removeDevice"
      /\ s.op = "addDevice" => \A r \in R : r.op # "addDevice"
      /\ s.op = "deleteTag" => R = {}
  BY <1>2, <1>3, LaterKinds
<1> HIDE DEF R
<1>5. \A ops : Ops(ops) = {r \in {s} \union R : r.op \in ops}
  BY <1>2, PendingOfOne DEF Ops
<1>6. ASSUME todo' = [todo EXCEPT ![h] = rest]
      PROVE  todo'[h] = rest /\ \A ops : Ops(ops)' = {r \in R : r.op \in ops}
  <2>1. todo'[h] = rest
    BY <1>1, <1>6
  <2>2. ASSUME NEW ops PROVE Ops(ops)' = {r \in R : r.op \in ops}
    <3>1. Ops(ops)' = KindsOf(rest, ops)
      BY <2>1, RequestOps
    <3>2. QED
      BY <3>1 DEF KindsOf, R
  <2>3. QED
    BY <2>1, <2>2
<1>7. \* The mapped tables do not move: what is left to show.
      ASSUME UNCHANGED Mapped, Ordered(todo[h])', Grounded(todo[h])'
      PROVE  AtomicInv(h)' /\ UNCHANGED Mapped
  BY <1>1, <1>7 DEF AtomicInv, Mapped, MappedPlaced
<1>8. /\ s.op \in {"updateVenue", "addDevice", "removeDevice"} => s.venue \in venues
      /\ s.op = "deleteVenue" => s.venue \in venues /\ vDevices[s.venue] = {}
  <2>1. Len(<<s>>) = 1 /\ <<s>>[1] = s
    OBVIOUS
  <2>2. QED
    BY <1>2, <2>1 DEF Grounded
<1>9. CASE s.op = "createTag"
  <2>1. /\ CreateTagRow(s) /\ todo' = [todo EXCEPT ![h] = rest]
    BY <1>9 DEF Execute, s, rest
  <2>2. /\ tags' = tags \union {s.tag} /\ tVenue' = [tVenue EXCEPT ![s.tag] = s.venue]
        /\ UNCHANGED <<venues, vDevices>> /\ todo'[h] = rest
        /\ \A ops : Ops(ops)' = {r \in R : r.op \in ops}
        /\ s.tag \in TagIds
    BY <1>2, <1>6, <1>9, <2>1 DEF CreateTagRow, Statements
  <2>3. /\ Ops({"createTag"}) = {s} /\ Ops({"createTag"})' = {}
        /\ Ops({"createTag", "updateTag"}) = {s} /\ Ops({"createTag", "updateTag"})' = {}
    BY <1>4, <1>5, <1>9, <2>2
  <2>4. /\ Ops({"deleteTag"})' = Ops({"deleteTag"})
        /\ Ops({"deleteVenue"})' = Ops({"deleteVenue"})
        /\ Ops({"updateVenue"}) = {} /\ Ops({"updateVenue"})' = {}
        /\ Ops({"addDevice"})' = Ops({"addDevice"})
        /\ Ops({"removeDevice"})' = Ops({"removeDevice"})
    BY <1>4, <1>5, <1>9, <2>2
  <2>5. mTags' = mTags
    BY <2>2, <2>3, <2>4 DEF mTags
  <2>6. mVenues' = mVenues
    BY <2>2, <2>4 DEF mVenues, Finished
  <2>7. mTagVenue' = mTagVenue
    BY <1>1, <2>2, <2>3, <2>5 DEF mTagVenue
  <2>8. mVenueDevices' = mVenueDevices
    BY <2>2, <2>4 DEF mVenueDevices
  <2>9. Ordered(todo[h])' /\ Grounded(todo[h])'
    BY <1>2, <2>2 DEF Ordered, Grounded
  <2>10. QED
    BY <1>1, <1>7, <2>5, <2>6, <2>7, <2>8, <2>9 DEF Mapped
<1>10. CASE s.op = "updateTag"
  <2>1. /\ UpdateTagRow(s) /\ todo' = [todo EXCEPT ![h] = rest]
    BY <1>10 DEF Execute, s, rest
  <2>2. /\ tVenue' = IF s.tag \in tags THEN [tVenue EXCEPT ![s.tag] = s.venue] ELSE tVenue
        /\ UNCHANGED <<venues, vDevices, tags>> /\ todo'[h] = rest
        /\ \A ops : Ops(ops)' = {r \in R : r.op \in ops}
        /\ s.tag \in TagIds
    BY <1>2, <1>6, <1>10, <2>1 DEF UpdateTagRow, Statements
  <2>3. /\ Ops({"createTag"}) = {} /\ Ops({"createTag"})' = {}
        /\ Ops({"createTag", "updateTag"}) = {s} /\ Ops({"createTag", "updateTag"})' = {}
    BY <1>4, <1>5, <1>10, <2>2
  <2>4. /\ Ops({"deleteTag"})' = Ops({"deleteTag"})
        /\ Ops({"deleteVenue"})' = Ops({"deleteVenue"})
        /\ Ops({"updateVenue"}) = {} /\ Ops({"updateVenue"})' = {}
        /\ Ops({"addDevice"})' = Ops({"addDevice"})
        /\ Ops({"removeDevice"})' = Ops({"removeDevice"})
    BY <1>4, <1>5, <1>10, <2>2
  <2>5. mTags' = mTags /\ mTags \subseteq tags
    BY <2>2, <2>3, <2>4 DEF mTags
  <2>6. mVenues' = mVenues
    BY <2>2, <2>4 DEF mVenues, Finished
  <2>7. mTagVenue' = mTagVenue
    BY <1>1, <2>2, <2>3, <2>5 DEF mTagVenue
  <2>8. mVenueDevices' = mVenueDevices
    BY <2>2, <2>4 DEF mVenueDevices
  <2>9. Ordered(todo[h])' /\ Grounded(todo[h])'
    BY <1>2, <2>2 DEF Ordered, Grounded
  <2>10. QED
    BY <1>1, <1>7, <2>5, <2>6, <2>7, <2>8, <2>9 DEF Mapped
<1>11. CASE s.op = "deleteTag"
  <2>1. /\ DeleteTagRow(s) /\ todo' = [todo EXCEPT ![h] = rest]
    BY <1>11 DEF Execute, s, rest
  <2>2. /\ tags' = tags \ {s.tag} /\ tVenue' = [tVenue EXCEPT ![s.tag] = NoId]
        /\ UNCHANGED <<venues, vDevices>> /\ todo'[h] = rest
        /\ \A ops : Ops(ops)' = {}
        /\ s.tag \in TagIds
    BY <1>2, <1>4, <1>6, <1>11, <2>1 DEF DeleteTagRow, Statements
  <2>3. /\ Ops({"createTag"}) = {} /\ Ops({"createTag", "updateTag"}) = {}
        /\ Ops({"deleteTag"}) = {s} /\ Ops({"deleteVenue"}) = {}
        /\ Ops({"updateVenue"}) = {} /\ Ops({"addDevice"}) = {} /\ Ops({"removeDevice"}) = {}
    BY <1>4, <1>5, <1>11
  <2>4. mTags' = mTags /\ s.tag \notin mTags
    BY <2>2, <2>3 DEF mTags
  <2>5. mVenues' = mVenues
    BY <2>2, <2>3 DEF mVenues, Finished
  <2>6. mTagVenue' = mTagVenue
    BY <1>1, <2>2, <2>3, <2>4 DEF mTagVenue
  <2>7. mVenueDevices' = mVenueDevices
    BY <2>2, <2>3 DEF mVenueDevices
  <2>8. Ordered(todo[h])' /\ Grounded(todo[h])'
    BY <1>2, <2>2 DEF Ordered, Grounded
  <2>9. QED
    BY <1>1, <1>7, <2>4, <2>5, <2>6, <2>7, <2>8 DEF Mapped
<1>12. CASE s.op = "deleteVenue"
  <2>1. /\ DeleteVenueRow(s) /\ todo' = [todo EXCEPT ![h] = rest]
    BY <1>12 DEF Execute, s, rest
  <2>2. /\ venues' = venues \ {s.venue} /\ vDevices' = [vDevices EXCEPT ![s.venue] = {}]
        /\ UNCHANGED <<tags, tVenue>> /\ todo'[h] = <<>> /\ R = {}
        /\ \A ops : Ops(ops)' = {}
    BY <1>2, <1>6, <1>12, <2>1, ElementsOfShortLists DEF DeleteVenueRow, R
  <2>3. /\ Ops({"createTag"}) = {} /\ Ops({"createTag", "updateTag"}) = {}
        /\ Ops({"deleteTag"}) = {} /\ Ops({"deleteVenue"}) = {s}
        /\ Ops({"updateVenue"}) = {} /\ Ops({"addDevice"}) = {} /\ Ops({"removeDevice"}) = {}
    BY <1>5, <1>12, <2>2
  <2>4. mTags' = mTags
    BY <2>2, <2>3 DEF mTags
  <2>5. mVenues' = mVenues
    BY <2>2, <2>3 DEF mVenues, Finished
  <2>6. mTagVenue' = mTagVenue
    BY <2>2, <2>3, <2>4 DEF mTagVenue
  <2>7. vDevices' = vDevices
    BY <1>1, <1>8, <1>12, <2>2
  <2>8. mVenueDevices = [v \in VenueIds |-> vDevices[v]]
        /\ mVenueDevices' = [v \in VenueIds |-> vDevices'[v]]
    BY <2>2, <2>3 DEF mVenueDevices
  <2>9. Ordered(todo[h])' /\ Grounded(todo[h])'
    BY <2>2 DEF Ordered, Grounded
  <2>10. QED
    BY <1>1, <1>7, <2>4, <2>5, <2>6, <2>7, <2>8, <2>9 DEF Mapped
<1>13. CASE s.op = "updateVenue"
  <2>1. /\ UpdateVenueRow(s) /\ todo' = [todo EXCEPT ![h] = rest]
    BY <1>13 DEF Execute, s, rest
  <2>2. /\ vDevices' = [vDevices EXCEPT ![s.venue] = s.list]
        /\ UNCHANGED <<venues, tags, tVenue>> /\ todo'[h] = rest
        /\ \A ops : Ops(ops)' = {r \in R : r.op \in ops}
        /\ s.venue \in venues
    BY <1>6, <1>8, <1>13, <2>1 DEF UpdateVenueRow
  <2>3. Ops({"updateVenue"}) = {s} /\ Ops({"updateVenue"})' = {}
    BY <1>4, <1>5, <1>13, <2>2
  <2>4. /\ Ops({"createTag"})' = Ops({"createTag"})
        /\ Ops({"createTag", "updateTag"})' = Ops({"createTag", "updateTag"})
        /\ Ops({"deleteTag"})' = Ops({"deleteTag"})
        /\ Ops({"deleteVenue"})' = Ops({"deleteVenue"})
        /\ Ops({"addDevice"})' = Ops({"addDevice"})
        /\ Ops({"removeDevice"})' = Ops({"removeDevice"})
    BY <1>5, <1>13, <2>2
  <2>5. mTags' = mTags
    BY <2>2, <2>4 DEF mTags
  <2>6. mVenues' = mVenues
    BY <2>2, <2>4 DEF mVenues, Finished
  <2>7. mTagVenue' = mTagVenue
    BY <2>2, <2>4, <2>5 DEF mTagVenue
  <2>8. mVenueDevices' = mVenueDevices
    BY <1>1, <2>2, <2>3, <2>4 DEF mVenueDevices
  <2>9. Ordered(todo[h])' /\ Grounded(todo[h])'
    BY <1>2, <2>2 DEF Ordered, Grounded
  <2>10. QED
    BY <1>1, <1>7, <2>5, <2>6, <2>7, <2>8, <2>9 DEF Mapped
<1>14. CASE s.op \in {"addDevice", "removeDevice"}
  <2> DEFINE new == IF s.op = "addDevice" THEN vDevices[s.venue] \union {s.tag}
                    ELSE vDevices[s.venue] \ {s.tag}
             update == UpdateVenue(s.venue, new)
             W == IF new # vDevices[s.venue] THEN {update} ELSE {}
  <2>1. /\ todo' = [todo EXCEPT ![h] = ReadForUpdate(s, rest)]
        /\ UNCHANGED <<venues, vDevices, tags, tVenue, deleted>>
    BY <1>14 DEF Execute, s, rest, rows
  <2>2. s.venue \in venues /\ s.venue \in VenueIds /\ s.tag \in TagIds
    BY <1>1, <1>2, <1>8, <1>14 DEF Statements
  <2>3. ReadForUpdate(s, rest) = IF new # vDevices[s.venue] THEN <<update>> \o rest ELSE rest
    BY <2>2 DEF ReadForUpdate
  <2>4. update.op = "updateVenue" /\ update.venue = s.venue /\ update.list = new
        /\ update \in Statements
    BY <1>1, <2>2 DEF UpdateVenue, Statements
  <2> HIDE DEF update
  <2>5. /\ todo'[h] \in Seq(Statements)
        /\ {todo'[h][i] : i \in DOMAIN todo'[h]} = W \union R
        /\ Ordered(todo[h])' /\ Grounded(todo[h])'
    <3>1. CASE new = vDevices[s.venue]
      <4>1. todo'[h] = rest
        BY <1>1, <2>1, <2>3, <3>1
      <4>2. {todo'[h][i] : i \in DOMAIN todo'[h]} = R
        BY <4>1 DEF R
      <4>3. QED
        BY <1>2, <2>1, <3>1, <4>1, <4>2 DEF Ordered, Grounded
    <3>2. CASE new # vDevices[s.venue]
      <4> HIDE DEF new
      <4>1. todo'[h] = <<update>> \o rest
        BY <1>1, <2>1, <2>3, <3>2
      <4>2. <<update>> \in Seq(Statements) /\ Len(<<update>>) = 1 /\ <<update>>[1] = update
        BY <2>4
      <4>3. /\ <<update>> \o rest \in Seq(Statements)
            /\ Len(<<update>> \o rest) = Len(rest) + 1 /\ Len(rest) \in Nat
            /\ DOMAIN (<<update>> \o rest) = 1..(Len(rest) + 1) /\ DOMAIN rest = 1..Len(rest)
            /\ (<<update>> \o rest)[1] = update
            /\ \A i \in 2..(Len(rest) + 1) : (<<update>> \o rest)[i] = rest[i - 1]
        BY <1>2, <4>2, ConcatProperties
      <4> DEFINE L == <<update>> \o rest
      <4> HIDE DEF L
      <4>4. /\ L \in Seq(Statements) /\ Len(L) = Len(rest) + 1 /\ Len(rest) \in Nat
            /\ DOMAIN L = 1..(Len(rest) + 1) /\ DOMAIN rest = 1..Len(rest)
            /\ L[1] = update /\ \A i \in 2..(Len(rest) + 1) : L[i] = rest[i - 1]
            /\ todo'[h] = L
        BY <4>1, <4>3 DEF L
      <4>5. \A i \in 2..(Len(rest) + 1) : i - 1 \in 1..Len(rest)
        BY <4>4
      <4>6. {L[i] : i \in DOMAIN L} = {update} \union R
        <5>1. ASSUME NEW x
              PROVE  (\E i \in DOMAIN L : x = L[i]) <=> x = update \/ x \in R
          <6>1. ASSUME NEW i \in DOMAIN L, x = L[i] PROVE x = update \/ x \in R
            BY <4>4, <4>5, <6>1 DEF R
          <6>2. ASSUME NEW i \in DOMAIN rest, x = rest[i] PROVE \E j \in DOMAIN L : x = L[j]
            <7>1. i + 1 \in 2..(Len(rest) + 1) /\ (i + 1) - 1 = i
              BY <4>4
            <7>2. L[i + 1] = rest[i] /\ i + 1 \in DOMAIN L
              BY <4>4, <7>1
            <7>3. QED
              BY <6>2, <7>2
          <6>3. 1 \in DOMAIN L
            BY <4>4
          <6>4. QED
            BY <4>4, <6>1, <6>2, <6>3 DEF R
        <5>2. QED
          BY <5>1
      <4>7. \A i \in 1..Len(rest) : Rank(rest[i]) > 0 /\ rest[i].op # "deleteVenue"
        <5>1. Rank(s) \in {1, 2}
          BY <1>14 DEF Rank
        <5>2. \A i \in 1..Len(rest) : Rank(rest[i]) \in 0..3
          BY DEF Rank
        <5>3. QED
          BY <1>2, <5>1, <5>2
      <4>8. Ordered(L)
        <5>1. ASSUME NEW i \in 1..Len(L), NEW j \in 1..Len(L), i < j
              PROVE  Rank(L[i]) < Rank(L[j])
          <6>1. j \in 2..(Len(rest) + 1) /\ j - 1 \in 1..Len(rest) /\ L[j] = rest[j - 1]
            BY <4>4, <5>1
          <6>2. CASE i = 1
            <7>1. Rank(L[i]) = 0
              BY <2>4, <4>4, <6>2 DEF Rank
            <7>2. Rank(L[j]) > 0
              BY <4>7, <6>1
            <7>3. QED
              BY <7>1, <7>2
          <6>3. CASE i # 1
            <7>1. i \in 2..(Len(rest) + 1) /\ i - 1 \in 1..Len(rest) /\ i - 1 < j - 1
              BY <4>4, <5>1, <6>3
            <7>2. L[i] = rest[i - 1]
              BY <4>4, <7>1
            <7>3. Rank(rest[i - 1]) < Rank(rest[j - 1])
              BY <1>2, <6>1, <7>1 DEF Ordered
            <7>4. QED
              BY <6>1, <7>2, <7>3
          <6>4. QED
            BY <6>2, <6>3
        <5>2. QED
          BY <5>1 DEF Ordered
      <4>9. \A i \in 1..Len(L) :
               /\ L[i].op \in {"updateVenue", "addDevice", "removeDevice"} =>
                    L[i].venue \in venues
               /\ L[i].op # "deleteVenue"
        <5>1. ASSUME NEW i \in 1..Len(L), i # 1
              PROVE  /\ L[i].op \in {"updateVenue", "addDevice", "removeDevice"} =>
                          L[i].venue \in venues
                     /\ L[i].op # "deleteVenue"
          <6>1. i - 1 \in 1..Len(rest) /\ L[i] = rest[i - 1]
            BY <4>4, <5>1
          <6>2. QED
            BY <1>2, <4>7, <6>1 DEF Grounded
        <5>2. QED
          BY <2>2, <2>4, <4>4, <5>1
      <4>10. QED
        BY <2>1, <3>2, <4>4, <4>6, <4>8, <4>9, SMTT(60) DEF Ordered, Grounded
    <3>3. QED
      BY <3>1, <3>2
  <2>6. \A ops : Ops(ops)' = {r \in W \union R : r.op \in ops}
    <3>1. ASSUME NEW ops PROVE Ops(ops)' = {r \in W \union R : r.op \in ops}
      <4> HIDE DEF W
      <4>1. Ops(ops)' = KindsOf(todo'[h], ops)
        BY RequestOps
      <4>2. QED
        BY <2>5, <4>1 DEF KindsOf
    <3>2. QED
      BY <3>1
  <2>7. /\ Ops({"createTag"})' = Ops({"createTag"})
        /\ Ops({"createTag", "updateTag"})' = Ops({"createTag", "updateTag"})
        /\ Ops({"deleteTag"})' = Ops({"deleteTag"})
        /\ Ops({"deleteVenue"})' = Ops({"deleteVenue"})
        /\ Ops({"updateVenue"}) = {} /\ Ops({"updateVenue"})' = W
        /\ Ops({"removeDevice"})' = {}
    <3>1. \A r \in W : r = update
      OBVIOUS
    <3> HIDE DEF W
    <3>2. QED
      BY <1>4, <1>5, <1>14, <2>4, <2>6, <3>1
  <2>8. /\ s.op = "addDevice" =>
             /\ Ops({"addDevice"}) = {s} /\ Ops({"addDevice"})' = {}
             /\ Ops({"removeDevice"}) = {}
        /\ s.op = "removeDevice" =>
             /\ Ops({"addDevice"})' = Ops({"addDevice"})
             /\ Ops({"removeDevice"}) = {s}
    <3>1. \A r \in W : r = update
      OBVIOUS
    <3> HIDE DEF W
    <3>2. QED
      BY <1>4, <1>5, <1>14, <2>4, <2>6, <3>1
  <2>9. mTags' = mTags
    BY <2>1, <2>7 DEF mTags
  <2>10. mVenues' = mVenues
    BY <2>1, <2>7 DEF mVenues, Finished
  <2>11. mTagVenue' = mTagVenue
    BY <2>1, <2>7, <2>9 DEF mTagVenue
  <2>12. mVenueDevices' = mVenueDevices
    <3> DEFINE added(v) == {a.tag : a \in {r \in Ops({"addDevice"}) : r.venue = v}}
               removed(v) == {a.tag : a \in {r \in Ops({"removeDevice"}) : r.venue = v}}
               base(v) == IF v = s.venue THEN new ELSE vDevices[v]
    <3>1. mVenueDevices = [v \in VenueIds |-> (vDevices[v] \ removed(v)) \union added(v)]
      BY <2>7 DEF mVenueDevices
    <3>2. mVenueDevices' = [v \in VenueIds |-> base(v) \union added(v)']
      <4>1. ASSUME NEW v \in VenueIds
            PROVE  LET written == {r \in W : r.venue = v}
                   IN  (IF v \notin venues \/ written = {} THEN vDevices[v]
                        ELSE (CHOOSE r \in written : TRUE).list) = base(v)
        <5>1. CASE W = {}
          BY <2>2, <2>4, <5>1
        <5>2. CASE W # {} /\ v # s.venue
          <6>1. {r \in W : r.venue = v} = {}
            BY <2>4, <5>2
          <6>2. QED
            BY <5>2, <6>1
        <5>3. CASE W # {} /\ v = s.venue
          <6>1. {r \in W : r.venue = v} = {update}
            BY <2>4, <5>3
          <6>2. QED
            BY <2>2, <2>4, <5>3, <6>1
        <5>4. QED
          BY <5>1, <5>2, <5>3
      <4> HIDE DEF W, base
      <4>2. QED
        BY <2>1, <2>7, <4>1 DEF mVenueDevices
    <3>3. CASE s.op = "addDevice"
      <4>1. \A v : added(v)' = {} /\ removed(v) = {}
                   /\ added(v) = IF v = s.venue THEN {s.tag} ELSE {}
        BY <2>8, <3>3
      <4> HIDE DEF added, removed
      <4>2. QED
        BY <1>1, <2>2, <3>1, <3>2, <3>3, <4>1
    <3>4. CASE s.op = "removeDevice"
      <4>1. \A v : added(v)' = added(v)
                   /\ removed(v) = IF v = s.venue THEN {s.tag} ELSE {}
        BY <2>8, <3>4
      <4> HIDE DEF added, removed
      <4>2. QED
        BY <1>1, <2>2, <3>1, <3>2, <3>4, <4>1
    <3>5. QED
      BY <1>14, <3>3, <3>4
  <2>13. QED
    BY <1>1, <1>7, <2>5, <2>9, <2>10, <2>11, <2>12 DEF Mapped
<1>15. QED
  BY <1>2, <1>9, <1>10, <1>11, <1>12, <1>13, <1>14 DEF Statements

\* Every step of the only handler, without a crash, is a step of Hierarchy or none.
LEMMA StepImplements ==
    ASSUME NEW h, Threads = {h}, MaxCrashes = 0, AtomicInv(h), [Next]_vars
    PROVE  AtomicInv(h)' /\ [Atomic!Next]_(Atomic!vars)
<1>1. StepsInv'
  BY StepsNextInv DEF AtomicInv
<1>2. phase = "serving" /\ crashes = 0 /\ venues \subseteq VenueIds /\ tags \subseteq TagIds
  BY DEF AtomicInv, StepsInv, StepsTypeOK
<1>3. ASSUME AtomicInv(h)', UNCHANGED Mapped
      PROVE  AtomicInv(h)' /\ [Atomic!Next]_(Atomic!vars)
  BY <1>3 DEF Mapped, Atomic!vars, Atomic!entityVars, Atomic!venueVars, Atomic!deviceVars,
     Atomic!tagVars, Atomic!ownerVars, Atomic!configVars
<1>4. CASE UNCHANGED vars
  <2>1. /\ UNCHANGED <<venues, vDevices, tags, tVenue, issued, phase, crashes>>
        /\ todo' = todo
    BY <1>4 DEF vars, rows
  <2>2. Pending' = Pending /\ \A ops : Ops(ops)' = Ops(ops)
    BY <2>1 DEF Pending, Ops
  <2>3. /\ mTags' = mTags /\ mVenues' = mVenues /\ mTagVenue' = mTagVenue
        /\ mVenueDevices' = mVenueDevices
    BY <2>1, <2>2 DEF mTags, mVenues, Finished, mTagVenue, mVenueDevices, Pending, Ops
  <2>4. AtomicInv(h)' /\ UNCHANGED Mapped
    BY <1>1, <1>2, <2>1, <2>3 DEF AtomicInv, Mapped, Ordered, Grounded, MappedPlaced
  <2>5. QED
    BY <1>3, <2>4
<1>5. CASE Request(h)
  <2>1. todo[h] = <<>>
    BY <1>5 DEF Request, InventoryPost, InventoryPut, InventoryDelete, VenuePost, VenuePut,
       VenueDelete, Accept
  <2>2. mTags = tags /\ mVenues = venues
    BY <2>1, IdleFacts
  <2>3. ASSUME NEW t \in TagIds, NEW v \in VenueRefs, InventoryPost(h, t, v)
        PROVE  AtomicInv(h)' /\ Atomic!Next
    <3>1. AtomicInv(h)' /\ Atomic!InventoryPost(t, NoId, v, NoId, NoId, NoId, NoId)
      BY <1>1, <2>3, InventoryPostImplements
    <3>2. v \in mVenues \union {NoId}
      BY <2>2, <2>3 DEF InventoryPost
    <3>3. NoId \in Atomic!Owners(NoId, {Root, Op}) /\ NoId \in Atomic!Owners(NoId, VenueIds)
      BY DEF Atomic!Owners
    <3>4. QED
      BY <3>1, <3>2, <3>3 DEF Atomic!Next, Atomic!InventoryStep
  <2>4. ASSUME NEW t \in tags, NEW v \in VenueRefs, InventoryPut(h, t, v)
        PROVE  AtomicInv(h)' /\ Atomic!Next
    <3>1. AtomicInv(h)' /\ Atomic!InventoryPut(t, Keep, v, Keep, NoId, NoId, Keep)
      BY <1>1, <2>4, InventoryPutImplements
    <3>2. v \in mVenues \union {NoId, Keep} /\ t \in mTags
      BY <2>2, <2>4 DEF InventoryPut
    <3>3. NoId \in Atomic!Owners(Keep, {Root, Op}) /\ NoId \in Atomic!Owners(Keep, VenueIds)
      BY DEF Atomic!Owners
    <3>4. QED
      BY <3>1, <3>2, <3>3 DEF Atomic!Next, Atomic!InventoryStep
  <2>5. ASSUME NEW t \in tags, InventoryDelete(h, t)
        PROVE  AtomicInv(h)' /\ Atomic!Next
    <3>1. AtomicInv(h)' /\ Atomic!InventoryDelete(t)
      BY <1>1, <2>5, InventoryDeleteImplements
    <3>2. QED
      BY <2>2, <3>1 DEF Atomic!Next, Atomic!InventoryStep
  <2>6. ASSUME NEW v \in VenueIds, NEW ds \in {{}} \union {{t} : t \in tags},
               VenuePost(h, v, ds)
        PROVE  AtomicInv(h)' /\ Atomic!Next
    <3>1. AtomicInv(h)' /\ Atomic!VenuePost(v, NoId, Op, ds, {}, NoId, TRUE)
      BY <1>1, <2>6, VenuePostImplements
    <3>2. ds \in Atomic!AtMostOne(mTags) /\ {} \in Atomic!AtMostOne({})
      BY <2>2 DEF Atomic!AtMostOne
    <3>3. QED
      BY <3>1, <3>2 DEF Atomic!Next, Atomic!VenueStep
  <2>7. ASSUME NEW v \in venues, VenuePut(h, v)
        PROVE  AtomicInv(h)' /\ UNCHANGED Mapped
    BY <1>1, <2>7, VenuePutImplements
  <2>8. ASSUME NEW v \in venues, VenueDelete(h, v)
        PROVE  AtomicInv(h)' /\ Atomic!Next
    <3>1. AtomicInv(h)' /\ Atomic!VenueDelete(v)
      BY <1>1, <2>8, VenueDeleteImplements
    <3>2. QED
      BY <2>2, <3>1 DEF Atomic!Next, Atomic!VenueStep
  <2>9. QED
    BY <1>3, <1>5, <2>3, <2>4, <2>5, <2>6, <2>7, <2>8 DEF Request
<1>6. CASE Execute(h)
  BY <1>1, <1>3, <1>6, ExecuteImplements
<1>7. ~Crash /\ ~FixVenueDevices /\ ~FixInventory
  BY <1>2 DEF Crash, FixVenueDevices, FixInventory
<1>8. QED
  BY <1>4, <1>5, <1>6, <1>7 DEF Next

(***************************************************************************)
(* Every behaviour of one handler at a time, its statements committed one  *)
(* by one, is a behaviour of Hierarchy's atomic requests, for any venues   *)
(* and tags and any sequence of requests.                                  *)
(***************************************************************************)
THEOREM ImplementsAtomicRequestsTheorem ==
    ASSUME NEW h, Threads = {h}, MaxCrashes = 0
    PROVE  Spec => ImplementsAtomicRequests
<1>1. Init => AtomicInv(h) /\ Atomic!Init
  BY AtomicInitial
<1>2. AtomicInv(h) /\ [Next]_vars => AtomicInv(h)' /\ [Atomic!Next]_(Atomic!vars)
  BY StepImplements
<1>3. QED
  BY <1>1, <1>2, PTL DEF Spec, ImplementsAtomicRequests, Atomic!Spec

=============================================================================
