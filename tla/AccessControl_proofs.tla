------------------------ MODULE AccessControl_proofs ------------------------
(***************************************************************************)
(* What holds of management roles for every number of threads, users,      *)
(* scopes, policies and roles; and what holds of the roles and of the      *)
(* authorization cache when requests are handled one after the other.      *)
(* Then the decisions of Authorization, the lists and the tree of entities *)
(* that follow the roles, for every arrangement of the venues and every    *)
(* set of records and policies.                                            *)
(***************************************************************************)
EXTENDS AccessControl, Listings, TLAPS

PolicyRefs == PolicyIds \union {NoId}

\* What a handler is about to do, with the copies of records it holds.
Jobs ==
    [step : {"idle"}]
      \union [step : {"fillRoles"}, user : Users, read : SUBSET Role]
      \union [step : {"fillPolicy"}, policy : PolicyIds, read : Contents]
      \union [step : {"find"}, user : Users, scopes : (SUBSET Scopes) \ {{}},
              policy : PolicyRefs, created : SUBSET RoleIds]
      \union [step : {"store"}, user : Users, scopes : SUBSET Scopes,
              policy : PolicyRefs, created : SUBSET RoleIds, row : Role]
      \union [step : {"update", "delete"}, row : Role]
      \union [step : {"putPolicy"}, policy : PolicyIds, contents : Contents]
      \union [step : {"parentRole"}, user : Users, parent : Scopes, scope : Scopes]
      \union [step : {"fillParent"}, user : Users, scope : Scopes, parent : Scopes,
              read : SUBSET Role]
      \union [step : {"autoStore"}, scope : Scopes, row : Role]
      \union [step : {"deleteScope"}, scope : Scopes]
      \union [step : {"clear"},
              then : [step : {"idle"}] \union [step : {"deleteScope"}, scope : Scopes]]

AccessTypeOK ==
    /\ live \in SUBSET Scopes
    /\ policies \in [PolicyIds -> Contents \union {NoId}]
    /\ roles \in SUBSET Role
    /\ cachedRoles \in [Users -> SUBSET Role]
    /\ cachedPolicies \in [PolicyIds -> Contents \union {NoId}]
    /\ job \in [Threads -> Jobs]

\* The records of roles a handler holds copies of.
Held(j) ==
    (IF "row" \in DOMAIN j THEN {j.row} ELSE {})
      \union (IF "read" \in DOMAIN j /\ "user" \in DOMAIN j THEN j.read ELSE {})

LEMMA JobFields ==
    ASSUME NEW j \in Jobs
    PROVE  /\ j.step = "idle" => j = Idle
           /\ j.step = "fillRoles" => j.user \in Users /\ j.read \in SUBSET Role
           /\ j.step = "fillPolicy" => j.policy \in PolicyIds /\ j.read \in Contents
           /\ j.step = "find" =>
                /\ j.user \in Users /\ j.scopes \in SUBSET Scopes /\ j.scopes # {}
                /\ j.policy \in PolicyRefs /\ j.created \in SUBSET RoleIds
           /\ j.step = "store" =>
                /\ j.user \in Users /\ j.scopes \in SUBSET Scopes
                /\ j.policy \in PolicyRefs /\ j.created \in SUBSET RoleIds
                /\ j.row \in Role
           /\ j.step \in {"update", "delete"} => j.row \in Role
           /\ j.step = "putPolicy" => j.policy \in PolicyIds /\ j.contents \in Contents
           /\ j.step = "parentRole" =>
                j.user \in Users /\ j.parent \in Scopes /\ j.scope \in Scopes
           /\ j.step = "fillParent" =>
                /\ j.user \in Users /\ j.parent \in Scopes /\ j.scope \in Scopes
                /\ j.read \in SUBSET Role
           /\ j.step = "autoStore" => j.scope \in Scopes /\ j.row \in Role
           /\ j.step = "deleteScope" => j.scope \in Scopes
           /\ j.step = "clear" =>
                j.then \in [step : {"idle"}] \union [step : {"deleteScope"}, scope : Scopes]
           /\ j.step \in {"store", "update", "delete", "autoStore"} => Held(j) = {j.row}
           /\ j.step \in {"fillRoles", "fillParent"} => Held(j) = j.read
           /\ j.step \in {"idle", "fillPolicy", "find", "putPolicy", "parentRole",
                          "deleteScope", "clear"} => Held(j) = {}
           /\ Held(j) \subseteq Role
<1>1. CASE j \in [step : {"idle"}]
  <2>1. j = Idle
    BY <1>1 DEF Idle
  <2>2. QED
    BY <1>1, <2>1 DEF Held
<1>2. CASE j \in [step : {"fillRoles"}, user : Users, read : SUBSET Role]
  BY <1>2 DEF Held, Idle
<1>3. CASE j \in [step : {"fillPolicy"}, policy : PolicyIds, read : Contents]
  BY <1>3 DEF Held, Idle
<1>4. CASE j \in [step : {"find"}, user : Users, scopes : (SUBSET Scopes) \ {{}},
                   policy : PolicyRefs, created : SUBSET RoleIds]
  BY <1>4 DEF Held, Idle
<1>5. CASE j \in [step : {"store"}, user : Users, scopes : SUBSET Scopes,
                   policy : PolicyRefs, created : SUBSET RoleIds, row : Role]
  BY <1>5 DEF Held, Idle
<1>6. CASE j \in [step : {"update", "delete"}, row : Role]
  BY <1>6 DEF Held, Idle
<1>7. CASE j \in [step : {"putPolicy"}, policy : PolicyIds, contents : Contents]
  BY <1>7 DEF Held, Idle
<1>8. CASE j \in [step : {"parentRole"}, user : Users, parent : Scopes, scope : Scopes]
  BY <1>8 DEF Held, Idle
<1>9. CASE j \in [step : {"fillParent"}, user : Users, scope : Scopes, parent : Scopes,
                   read : SUBSET Role]
  BY <1>9 DEF Held, Idle
<1>10. CASE j \in [step : {"autoStore"}, scope : Scopes, row : Role]
  BY <1>10 DEF Held, Idle
<1>11. CASE j \in [step : {"deleteScope"}, scope : Scopes]
  BY <1>11 DEF Held, Idle
<1>12. CASE j \in [step : {"clear"},
                   then : [step : {"idle"}] \union [step : {"deleteScope"}, scope : Scopes]]
  BY <1>12 DEF Held, Idle
<1>13. QED
  BY <1>1, <1>2, <1>3, <1>4, <1>5, <1>6, <1>7, <1>8, <1>9, <1>10, <1>11, <1>12 DEF Jobs

(***************************************************************************)
(* Every copy of a role, in the table, in the cache or held by a handler.  *)
(* Copies with one identifier differ at most in their policy.              *)
(***************************************************************************)
Copies == roles \union (UNION {cachedRoles[u] : u \in Users})
                \union UNION {Held(job[p]) : p \in Threads}

CopiesAgree == \A r, s \in Copies : r.id = s.id => Key(r) = Key(s)

CopiesInv == AccessTypeOK /\ CopiesAgree

\* A copy with this identifier, user and scope is there already.
Known(c) == \E d \in Copies : d.id = c.id /\ Key(d) = Key(c)

LEMMA NewIdFresh ==
    ASSUME AccessTypeOK, Unused # {}
    PROVE  /\ NewId \in RoleIds
           /\ \A r \in Copies : r.id # NewId
           /\ \A p \in Threads : NewId \notin InJob(job[p])
<1>1. NewId \in Unused
  BY DEF NewId
<1>2. ASSUME NEW p \in Threads, NEW r \in Held(job[p])
      PROVE  r.id \in InJob(job[p])
  BY <1>2 DEF Held, InJob
<1>3. ASSUME NEW p \in Threads, NEW i \in InJob(job[p])
      PROVE  i \notin Unused
  BY <1>3 DEF Unused
<1>4. \A r \in roles : r.id \notin Unused
  BY DEF Unused
<1>5. ASSUME NEW u \in Users, NEW r \in cachedRoles[u]
      PROVE  r.id \notin Unused
  BY <1>5 DEF Unused
<1>6. NewId \in RoleIds
  BY <1>1 DEF Unused
<1>7. QED
  BY <1>1, <1>2, <1>3, <1>4, <1>5, <1>6 DEF Copies

(***************************************************************************)
(* A step of one handler keeps the copies in agreement when all it leaves  *)
(* behind are copies of known roles, but for one role that is new.         *)
(***************************************************************************)
LEMMA StepInv ==
    ASSUME CopiesInv, NEW p \in Threads, NEW n \in Jobs, job' = [job EXCEPT ![p] = n],
           live' \in SUBSET Scopes, policies' \in [PolicyIds -> Contents \union {NoId}],
           roles' \in SUBSET Role, cachedRoles' \in [Users -> SUBSET Role],
           cachedPolicies' \in [PolicyIds -> Contents \union {NoId}],
           NEW new \in SUBSET Role, \A c, d \in new : Key(c) = Key(d),
           \A c \in new : \A d \in Copies : d.id # c.id,
           \A c \in roles' : Known(c) \/ c \in new,
           \A u \in Users : \A c \in cachedRoles'[u] : Known(c) \/ c \in new,
           \A c \in Held(n) : Known(c) \/ c \in new
    PROVE  CopiesInv'
<1>1. AccessTypeOK'
  BY DEF CopiesInv, AccessTypeOK
<1>2. ASSUME NEW q \in Threads, NEW c \in Held(job'[q]) PROVE Known(c) \/ c \in new
  <2>1. CASE q = p
    BY <1>2, <2>1 DEF CopiesInv, AccessTypeOK
  <2>2. CASE q # p
    <3>1. c \in Held(job[q])
      BY <1>2, <2>2 DEF CopiesInv, AccessTypeOK
    <3>2. c \in Copies
      BY <3>1 DEF Copies
    <3>3. QED
      BY <3>2 DEF Known
  <2>3. QED
    BY <2>1, <2>2
<1>3. \A c \in Copies' : Known(c) \/ c \in new
  BY <1>2 DEF Copies
<1>4. ASSUME NEW c \in Copies', NEW d \in Copies', c.id = d.id
      PROVE  Key(c) = Key(d)
  <2>1. Known(c) \/ c \in new
    BY <1>3
  <2>2. Known(d) \/ d \in new
    BY <1>3
  <2>3. QED
    BY <1>4, <2>1, <2>2 DEF Known, CopiesInv, CopiesAgree
<1>5. CopiesAgree'
  BY <1>4 DEF CopiesAgree, Key
<1>6. QED
  BY <1>1, <1>5 DEF CopiesInv

\* What is there is known.
LEMMA CopiesKnown ==
    ASSUME CopiesInv
    PROVE  /\ \A r \in roles : Known(r)
           /\ \A u \in Users : \A r \in cachedRoles[u] : Known(r)
           /\ \A p \in Threads : \A r \in Held(job[p]) : Known(r)
<1>1. \A r \in Copies : Known(r)
  BY DEF Known
<1>2. QED
  BY <1>1 DEF Copies

\* Another policy makes no other role of a copy.
LEMMA OtherPolicy ==
    ASSUME NEW r \in Role, NEW q \in PolicyRefs, Known(r)
    PROVE  [r EXCEPT !.policy = q] \in Role /\ Known([r EXCEPT !.policy = q])
<1>1. /\ [r EXCEPT !.policy = q] \in Role
      /\ [r EXCEPT !.policy = q].id = r.id
      /\ Key([r EXCEPT !.policy = q]) = Key(r)
  BY DEF Role, Key, PolicyRefs
<1> DEFINE c == [r EXCEPT !.policy = q]
<1> HIDE DEF c
<1>2. c \in Role /\ c.id = r.id /\ Key(c) = Key(r)
  BY <1>1 DEF c
<1>3. Known(c)
  BY <1>2 DEF Known
<1>4. QED
  BY <1>2, <1>3 DEF c

LEMMA CopiesInitInv == Init => CopiesInv
<1> SUFFICES ASSUME Init PROVE CopiesInv
  OBVIOUS
<1>1. Idle \in Jobs /\ Held(Idle) = {}
  <2>1. Idle \in Jobs /\ Idle.step = "idle"
    BY DEF Idle, Jobs
  <2>2. QED
    BY <2>1, JobFields
<1>2. AccessTypeOK
  BY <1>1 DEF Init, AccessTypeOK
<1>3. Copies = {}
  BY <1>1 DEF Init, Copies
<1>4. QED
  BY <1>2, <1>3 DEF CopiesInv, CopiesAgree

(***************************************************************************)
(* The jobs that hold no copy of a role.                                   *)
(***************************************************************************)
LEMMA PlainJobs ==
    /\ Idle \in Jobs /\ Held(Idle) = {} /\ Idle.step = "idle"
    /\ ClearThen(Idle) \in Jobs /\ Held(ClearThen(Idle)) = {}
    /\ \A s \in Scopes :
         /\ [step |-> "deleteScope", scope |-> s] \in Jobs
         /\ Held([step |-> "deleteScope", scope |-> s]) = {}
         /\ ClearThen([step |-> "deleteScope", scope |-> s]) \in Jobs
         /\ Held(ClearThen([step |-> "deleteScope", scope |-> s])) = {}
<1>1. Idle \in Jobs /\ Idle.step = "idle"
  BY DEF Idle, Jobs
<1>2. ClearThen(Idle) \in Jobs /\ ClearThen(Idle).step = "clear"
  BY DEF ClearThen, Idle, Jobs
<1>3. ASSUME NEW s \in Scopes
      PROVE  /\ [step |-> "deleteScope", scope |-> s] \in Jobs
             /\ [step |-> "deleteScope", scope |-> s].step = "deleteScope"
  BY DEF Jobs
<1>4. ASSUME NEW s \in Scopes
      PROVE  /\ ClearThen([step |-> "deleteScope", scope |-> s]) \in Jobs
             /\ ClearThen([step |-> "deleteScope", scope |-> s]).step = "clear"
  BY DEF ClearThen, Jobs
<1>5. ASSUME NEW j \in Jobs, j.step \in {"idle", "deleteScope", "clear"}
      PROVE  Held(j) = {}
  BY <1>5, JobFields
<1>6. \A s \in Scopes :
         /\ [step |-> "deleteScope", scope |-> s] \in Jobs
         /\ Held([step |-> "deleteScope", scope |-> s]) = {}
  BY <1>3, <1>5
<1>7. \A s \in Scopes :
         /\ ClearThen([step |-> "deleteScope", scope |-> s]) \in Jobs
         /\ Held(ClearThen([step |-> "deleteScope", scope |-> s])) = {}
  BY <1>4, <1>5
<1>8. QED
  BY <1>1, <1>2, <1>5, <1>6, <1>7

\* A step that leaves the cache alone and only known roles in the table.
LEMMA TableStep ==
    ASSUME CopiesInv, NEW p \in Threads, NEW n \in Jobs, job' = [job EXCEPT ![p] = n],
           live' \in SUBSET Scopes, policies' \in [PolicyIds -> Contents \union {NoId}],
           UNCHANGED <<cachedRoles, cachedPolicies>>,
           roles' \in SUBSET Role, \A c \in roles' : Known(c),
           \A c \in Held(n) : Known(c)
    PROVE  CopiesInv'
<1>1. \A u \in Users : \A c \in cachedRoles'[u] : Known(c)
  BY CopiesKnown
<1>2. QED
  <2> DEFINE new == {}
  <2>1. /\ new \in SUBSET Role /\ \A c, d \in new : Key(c) = Key(d)
        /\ \A c \in new : \A d \in Copies : d.id # c.id
    OBVIOUS
  <2> HIDE DEF new
  <2>2. QED
    BY <1>1, <2>1, StepInv DEF CopiesInv, AccessTypeOK

\* A step that only changes the job.
LEMMA StartInv ==
    ASSUME CopiesInv, NEW p \in Threads, NEW n \in Jobs, Start(p, n),
           \A c \in Held(n) : Known(c)
    PROVE  CopiesInv'
<1>1. job' = [job EXCEPT ![p] = n] /\ UNCHANGED <<live, policies, roles, cachedRoles, cachedPolicies>>
  BY DEF Start, tables, cache
<1>2. \A c \in roles' : Known(c)
  BY <1>1, CopiesKnown
<1>3. QED
  BY <1>1, <1>2, TableStep DEF CopiesInv, AccessTypeOK

(***************************************************************************)
(* The beginning of each request.                                          *)
(***************************************************************************)
LEMMA RequestsInv ==
    ASSUME CopiesInv, NEW p \in Threads,
           \/ \E u \in Users : FindAllUserRoles(p, u)
           \/ \E q \in PolicyIds : CheckRolePolicy(p, q)
           \/ \E u \in Users, ss \in SUBSET Scopes, q \in PolicyRefs : RolePost(p, u, ss, q)
           \/ \E r \in roles, s \in Scopes, q \in PolicyRefs : RolePut(p, r, s, q)
           \/ \E r \in roles : RoleDelete(p, r)
           \/ \E q \in PolicyIds, c \in Contents : PolicyPut(p, q, c)
    PROVE  CopiesInv'
<1>1. ASSUME NEW u \in Users, FindAllUserRoles(p, u) PROVE CopiesInv'
  <2> DEFINE n == [step |-> "fillRoles", user |-> u, read |-> RolesOf(u)]
  <2>1. n \in Jobs /\ n.step = "fillRoles" /\ n.read = RolesOf(u)
    BY DEF Jobs, RolesOf, CopiesInv, AccessTypeOK
  <2>2. Start(p, n)
    BY <1>1 DEF FindAllUserRoles
  <2> HIDE DEF n
  <2>3. \A c \in Held(n) : Known(c)
    BY <2>1, JobFields, CopiesKnown DEF RolesOf
  <2>4. QED
    BY <2>1, <2>2, <2>3, StartInv
<1>2. ASSUME NEW q \in PolicyIds, CheckRolePolicy(p, q) PROVE CopiesInv'
  <2> DEFINE n == [step |-> "fillPolicy", policy |-> q, read |-> policies[q]]
  <2>1. n \in Jobs /\ n.step = "fillPolicy"
    BY <1>2 DEF Jobs, CheckRolePolicy, CopiesInv, AccessTypeOK
  <2>2. Start(p, n)
    BY <1>2 DEF CheckRolePolicy
  <2> HIDE DEF n
  <2>3. Held(n) = {}
    BY <2>1, JobFields
  <2>4. QED
    BY <2>1, <2>2, <2>3, StartInv
<1>3. ASSUME NEW u \in Users, NEW ss \in SUBSET Scopes, NEW q \in PolicyRefs,
             RolePost(p, u, ss, q)
      PROVE  CopiesInv'
  <2> DEFINE n == [step |-> "find", user |-> u, scopes |-> ss, policy |-> q, created |-> {}]
  <2>1. n \in Jobs /\ n.step = "find"
    BY <1>3 DEF Jobs, RolePost
  <2>2. Start(p, n)
    BY <1>3 DEF RolePost
  <2> HIDE DEF n
  <2>3. Held(n) = {}
    BY <2>1, JobFields
  <2>4. QED
    BY <2>1, <2>2, <2>3, StartInv
<1>4. ASSUME NEW r \in roles, NEW s \in Scopes, NEW q \in PolicyRefs, RolePut(p, r, s, q)
      PROVE  CopiesInv'
  <2> DEFINE row == [r EXCEPT !.policy = q]
  <2> DEFINE n == [step |-> "update", row |-> row]
  <2>1. Start(p, n)
    BY <1>4 DEF RolePut
  <2>2. row \in Role /\ Known(row)
    BY CopiesKnown, OtherPolicy DEF CopiesInv, AccessTypeOK
  <2> HIDE DEF row
  <2>3. n \in Jobs /\ n.step = "update" /\ n.row = row
    BY <2>2 DEF Jobs
  <2> HIDE DEF n
  <2>4. \A c \in Held(n) : Known(c)
    BY <2>2, <2>3, JobFields
  <2>5. QED
    BY <2>1, <2>3, <2>4, StartInv
<1>5. ASSUME NEW r \in roles, RoleDelete(p, r) PROVE CopiesInv'
  <2> DEFINE n == [step |-> "delete", row |-> r]
  <2>1. n \in Jobs /\ n.step = "delete" /\ n.row = r
    BY DEF Jobs, CopiesInv, AccessTypeOK
  <2>2. Start(p, n)
    BY <1>5 DEF RoleDelete
  <2> HIDE DEF n
  <2>3. \A c \in Held(n) : Known(c)
    BY <2>1, JobFields, CopiesKnown
  <2>4. QED
    BY <2>1, <2>2, <2>3, StartInv
<1>6. ASSUME NEW q \in PolicyIds, NEW c \in Contents, PolicyPut(p, q, c) PROVE CopiesInv'
  <2> DEFINE n == [step |-> "putPolicy", policy |-> q, contents |-> c]
  <2>1. n \in Jobs /\ n.step = "putPolicy"
    BY DEF Jobs
  <2>2. Start(p, n)
    BY <1>6 DEF PolicyPut
  <2> HIDE DEF n
  <2>3. Held(n) = {}
    BY <2>1, JobFields
  <2>4. QED
    BY <2>1, <2>2, <2>3, StartInv
<1>7. QED
  BY <1>1, <1>2, <1>3, <1>4, <1>5, <1>6

LEMMA ScopesAndPoliciesInv ==
    ASSUME CopiesInv, NEW p \in Threads,
           \/ \E q \in PolicyIds, c \in Contents : PolicyPost(p, q, c)
           \/ \E q \in PolicyIds : PolicyDelete(p, q)
           \/ \E u \in Users, parent, s \in Scopes : ScopePost(p, u, parent, s)
           \/ \E s \in Scopes : ScopeDelete(p, s) \/ OperatorDelete(p, s)
           \/ \E s, t \in Venues : VenuePut(p, s, t)
    PROVE  CopiesInv'
<1> USE DEF CopiesInv, AccessTypeOK, Then, cache
<1>1. ASSUME NEW q \in PolicyIds, NEW c \in Contents, PolicyPost(p, q, c)
      PROVE  CopiesInv'
  BY <1>1, PlainJobs, CopiesKnown, TableStep DEF PolicyPost
<1>2. ASSUME NEW q \in PolicyIds, PolicyDelete(p, q)
      PROVE  CopiesInv'
  BY <1>2, PlainJobs, CopiesKnown, TableStep DEF PolicyDelete
<1>3. ASSUME NEW u \in Users, NEW parent \in Scopes, NEW s \in Scopes,
             ScopePost(p, u, parent, s)
      PROVE  CopiesInv'
  <2> DEFINE n == [step |-> "parentRole", user |-> u, parent |-> parent, scope |-> s]
  <2>1. n \in Jobs /\ n.step = "parentRole"
    BY DEF Jobs
  <2>2. job' = [job EXCEPT ![p] = n] /\ live' = live \union {s}
        /\ UNCHANGED <<policies, roles, cachedRoles, cachedPolicies>>
    BY <1>3 DEF ScopePost
  <2> HIDE DEF n
  <2>3. Held(n) = {}
    BY <2>1, JobFields
  <2>4. QED
    BY <2>1, <2>2, <2>3, CopiesKnown, TableStep
<1>4. ASSUME NEW s \in Scopes, ScopeDelete(p, s) PROVE CopiesInv'
  <2> DEFINE n == ClearThen([step |-> "deleteScope", scope |-> s])
  <2>1. /\ job' = [job EXCEPT ![p] = n] /\ roles' \subseteq roles
        /\ UNCHANGED <<live, policies, cachedRoles, cachedPolicies>>
    BY <1>4 DEF ScopeDelete
  <2>2. n \in Jobs /\ Held(n) = {}
    BY PlainJobs
  <2> HIDE DEF n
  <2>3. QED
    BY <2>1, <2>2, CopiesKnown, TableStep
<1>5. ASSUME NEW s \in Scopes, NEW t \in Scopes, OperatorDelete(p, s) \/ VenuePut(p, s, t)
      PROVE  CopiesInv'
  <2>1. live' \in SUBSET Scopes
        /\ UNCHANGED <<policies, roles, cachedRoles, cachedPolicies, job>>
    BY <1>5 DEF OperatorDelete, VenuePut
  <2>2. QED
    BY <2>1 DEF CopiesAgree, Copies
<1>6. Venues \subseteq Scopes
  BY AccessControlAssumption
<1>7. QED
  BY <1>1, <1>2, <1>3, <1>4, <1>5, <1>6

(***************************************************************************)
(* The later steps of each request.                                        *)
(***************************************************************************)
LEMMA CacheStepsInv ==
    ASSUME CopiesInv, NEW p \in Threads, SetUserRoles(p) \/ SetPolicy(p) \/ Clear(p)
    PROVE  CopiesInv'
<1>1. job[p] \in Jobs
  BY DEF CopiesInv, AccessTypeOK
<1>2. PICK n \in Jobs : job' = [job EXCEPT ![p] = n] /\ Held(n) = {}
  <2>1. CASE SetUserRoles(p) \/ SetPolicy(p)
    BY <2>1, PlainJobs DEF SetUserRoles, SetPolicy
  <2>2. CASE Clear(p)
    <3>1. job[p].step = "clear" /\ job' = [job EXCEPT ![p] = job[p].then]
      BY <2>2 DEF Clear
    <3>2. job[p].then \in [step : {"idle"}] \union [step : {"deleteScope"}, scope : Scopes]
      BY <1>1, <3>1, JobFields
    <3>3. job[p].then \in Jobs /\ job[p].then.step \in {"idle", "deleteScope"}
      BY <3>2 DEF Jobs
    <3>4. Held(job[p].then) = {}
      BY <3>3, JobFields
    <3>5. QED
      BY <3>1, <3>3, <3>4
  <2>3. QED
    BY <2>1, <2>2
<1>3. UNCHANGED <<live, policies, roles>>
  BY DEF SetUserRoles, SetPolicy, Clear, tables
<1>4. /\ cachedRoles' \in [Users -> SUBSET Role]
      /\ \A u \in Users : \A c \in cachedRoles'[u] : Known(c)
  <2>1. CASE SetUserRoles(p)
    <3>1. /\ job[p].step = "fillRoles"
          /\ cachedRoles' = [cachedRoles EXCEPT ![job[p].user] = job[p].read]
      BY <2>1 DEF SetUserRoles
    <3>2. /\ job[p].user \in Users /\ job[p].read \in SUBSET Role
          /\ \A c \in job[p].read : Known(c)
      BY <1>1, <3>1, JobFields, CopiesKnown
    <3>3. QED
      BY <3>1, <3>2, CopiesKnown DEF CopiesInv, AccessTypeOK
  <2>2. CASE SetPolicy(p)
    BY <2>2, CopiesKnown DEF SetPolicy, CopiesInv, AccessTypeOK
  <2>3. CASE Clear(p)
    BY <2>3 DEF Clear
  <2>4. QED
    BY <2>1, <2>2, <2>3
<1>5. cachedPolicies' \in [PolicyIds -> Contents \union {NoId}]
  <2>1. CASE SetUserRoles(p)
    BY <2>1 DEF SetUserRoles, CopiesInv, AccessTypeOK
  <2>2. CASE SetPolicy(p)
    <3>1. job[p].policy \in PolicyIds /\ job[p].read \in Contents
      BY <1>1, <2>2, JobFields DEF SetPolicy
    <3>2. QED
      BY <2>2, <3>1 DEF SetPolicy, CopiesInv, AccessTypeOK
  <2>3. CASE Clear(p)
    BY <2>3 DEF Clear
  <2>4. QED
    BY <2>1, <2>2, <2>3
<1>6. QED
  <2> DEFINE new == {}
  <2>1. /\ new \in SUBSET Role /\ \A c, d \in new : Key(c) = Key(d)
        /\ \A c \in new : \A d \in Copies : d.id # c.id
    OBVIOUS
  <2>2. \A c \in roles' : Known(c)
    BY <1>3, CopiesKnown
  <2> HIDE DEF new
  <2>3. QED
    BY <1>2, <1>3, <1>4, <1>5, <2>1, <2>2, StepInv DEF CopiesInv, AccessTypeOK

LEMMA RolePostFindInv ==
    ASSUME CopiesInv, NEW p \in Threads, RolePostFind(p)
    PROVE  CopiesInv'
<1> DEFINE j == job[p]
<1> DEFINE stored(s, row, created) ==
             [step |-> "store", user |-> j.user, scopes |-> j.scopes \ {s},
              policy |-> j.policy, created |-> created, row |-> row]
<1>1. /\ j.step = "find" /\ j.user \in Users /\ j.scopes \in SUBSET Scopes
      /\ j.policy \in PolicyRefs /\ j.created \in SUBSET RoleIds
  BY JobFields DEF RolePostFind, CopiesInv, AccessTypeOK
<1>2. UNCHANGED <<live, policies, roles, cachedRoles, cachedPolicies>>
  BY DEF RolePostFind, Then, tables, cache
<1>3. PICK s \in j.scopes :
         \/ \E r \in FindExactExistingRole(j.user, s) :
              job' = [job EXCEPT ![p] = stored(s, [r EXCEPT !.policy = j.policy], j.created)]
         \/ /\ Unused # {}
            /\ job' = [job EXCEPT ![p] =
                         stored(s, [id |-> NewId, user |-> j.user, scope |-> s,
                                    policy |-> j.policy], j.created \union {NewId})]
  BY DEF RolePostFind, Then
<1>4. ASSUME NEW row \in Role, NEW created \in SUBSET RoleIds
      PROVE  stored(s, row, created) \in Jobs /\ Held(stored(s, row, created)) = {row}
  <2>1. /\ stored(s, row, created) \in Jobs /\ stored(s, row, created).step = "store"
        /\ stored(s, row, created).row = row
    BY <1>1 DEF Jobs
  <2>2. QED
    BY <2>1, JobFields
<1>5. \A c \in roles : Known(c)
  BY CopiesKnown
<1> HIDE DEF stored, j
<1>6. ASSUME NEW r \in FindExactExistingRole(j.user, s),
             job' = [job EXCEPT ![p] = stored(s, [r EXCEPT !.policy = j.policy], j.created)]
      PROVE  CopiesInv'
  <2> DEFINE row == [r EXCEPT !.policy = j.policy]
  <2>1. r \in Role /\ Known(r)
    BY <1>1, CopiesKnown DEF FindExactExistingRole, RolesOf, CopiesInv, AccessTypeOK
  <2>2. row \in Role /\ Known(row)
    BY <1>1, <2>1, OtherPolicy
  <2>3. job' = [job EXCEPT ![p] = stored(s, row, j.created)]
    BY <1>6
  <2> HIDE DEF row
  <2> DEFINE n == stored(s, row, j.created)
  <2>4. n \in Jobs /\ job' = [job EXCEPT ![p] = n] /\ \A c \in Held(n) : Known(c)
    BY <1>1, <1>4, <2>2, <2>3
  <2>5. \A c \in roles' : Known(c)
    BY <1>2, <1>5
  <2> HIDE DEF n
  <2>6. QED
    BY <1>2, <2>4, <2>5, TableStep DEF CopiesInv, AccessTypeOK
<1>7. ASSUME Unused # {},
             job' = [job EXCEPT ![p] =
                       stored(s, [id |-> NewId, user |-> j.user, scope |-> s,
                                  policy |-> j.policy], j.created \union {NewId})]
      PROVE  CopiesInv'
  <2> DEFINE row == [id |-> NewId, user |-> j.user, scope |-> s, policy |-> j.policy]
  <2> DEFINE new == {row}
  <2>1. NewId \in RoleIds /\ \A r \in Copies : r.id # NewId
    BY <1>7, NewIdFresh DEF CopiesInv
  <2>2. row \in Role /\ row.id = NewId
    BY <1>1, <2>1 DEF Role, PolicyRefs
  <2>3. job' = [job EXCEPT ![p] = stored(s, row, j.created \union {NewId})]
    BY <1>7
  <2> HIDE DEF row
  <2>4. /\ new \in SUBSET Role /\ \A c, d \in new : Key(c) = Key(d)
        /\ \A c \in new : \A d \in Copies : d.id # c.id
    BY <2>1, <2>2
  <2>5. /\ stored(s, row, j.created \union {NewId}) \in Jobs
        /\ \A c \in Held(stored(s, row, j.created \union {NewId})) : c \in new
    BY <1>1, <1>4, <2>1, <2>2
  <2> DEFINE n == stored(s, row, j.created \union {NewId})
  <2>6. n \in Jobs /\ job' = [job EXCEPT ![p] = n] /\ \A c \in Held(n) : c \in new
    BY <2>3, <2>5
  <2>7. \A u \in Users : \A c \in cachedRoles'[u] : Known(c)
    BY <1>2, CopiesKnown
  <2> HIDE DEF new, n
  <2>8. QED
    BY <1>2, <1>5, <2>4, <2>6, <2>7, StepInv DEF CopiesInv, AccessTypeOK
<1>8. QED
  BY <1>3, <1>6, <1>7

\* The records an UPDATE leaves in the table.
LEMMA UpdateRecordKnown ==
    ASSUME CopiesInv, NEW row \in Role, Known(row)
    PROVE  UpdateRecord(row) \in SUBSET Role /\ \A c \in UpdateRecord(row) : Known(c)
  BY CopiesKnown DEF UpdateRecord, CopiesInv, AccessTypeOK

\* What the statements of the handlers leave in the table are known roles.
LEMMA StoredRoles ==
    ASSUME CopiesInv, NEW p \in Threads,
           \/ RolePostStore(p) \/ RolePostFails(p) \/ RolePutStore(p)
           \/ RoleDeleteStore(p) \/ PolicyPutStore(p) \/ StatementFails(p)
           \/ AutoCreateCreatorRole(p) \/ AutoCreateFails(p) \/ ScopeDeleteRow(p)
    PROVE  roles' \in SUBSET Role /\ \A c \in roles' : Known(c)
<1> DEFINE j == job[p]
<1>1. j \in Jobs
  BY DEF CopiesInv, AccessTypeOK
<1>2. \A c \in Held(j) : Known(c)
  BY CopiesKnown
<1>3. \A c \in roles : Known(c)
  BY CopiesKnown
<1>4. roles \in SUBSET Role
  BY DEF CopiesInv, AccessTypeOK
<1>5. j.step \in {"store", "update", "autoStore"} => j.row \in Role /\ Known(j.row)
  BY <1>1, <1>2, JobFields
<1>6. CASE RolePostStore(p)
  <2>1. j.step = "store" /\ roles' = IF j.row.id \in j.created THEN roles \union {j.row}
                                     ELSE UpdateRecord(j.row)
    BY <1>6 DEF RolePostStore
  <2> HIDE DEF j
  <2>2. QED
    BY <1>3, <1>4, <1>5, <2>1, UpdateRecordKnown
<1>7. CASE RolePutStore(p)
  BY <1>5, <1>7, UpdateRecordKnown DEF RolePutStore
<1>8. CASE AutoCreateCreatorRole(p)
  <2>1. j.step = "autoStore" /\ roles' = roles \union {j.row}
    BY <1>8 DEF AutoCreateCreatorRole
  <2> HIDE DEF j
  <2>2. QED
    BY <1>3, <1>4, <1>5, <2>1
<1>9. CASE \/ RolePostFails(p) \/ RoleDeleteStore(p) \/ PolicyPutStore(p)
           \/ StatementFails(p) \/ AutoCreateFails(p) \/ ScopeDeleteRow(p)
  <2>1. roles' \subseteq roles
    BY <1>9 DEF RolePostFails, RoleDeleteStore, PolicyPutStore, StatementFails,
       AutoCreateFails, ScopeDeleteRow, tables
  <2>2. QED
    BY <1>3, <1>4, <2>1
<1>10. QED
  BY <1>6, <1>7, <1>8, <1>9

LEMMA StoresInv ==
    ASSUME CopiesInv, NEW p \in Threads,
           \/ RolePostStore(p) \/ RolePostFails(p) \/ RolePutStore(p)
           \/ RoleDeleteStore(p) \/ PolicyPutStore(p) \/ StatementFails(p)
           \/ AutoCreateCreatorRole(p) \/ AutoCreateFails(p) \/ ScopeDeleteRow(p)
    PROVE  CopiesInv'
<1> DEFINE j == job[p]
<1>1. j \in Jobs
  BY DEF CopiesInv, AccessTypeOK
<1>2. UNCHANGED <<cachedRoles, cachedPolicies>>
  BY DEF RolePostStore, RolePostFails, RolePutStore, RoleDeleteStore, PolicyPutStore,
     StatementFails, AutoCreateCreatorRole, AutoCreateFails, ScopeDeleteRow, Then, cache
<1>3. PICK n \in Jobs : job' = [job EXCEPT ![p] = n] /\ Held(n) = {}
  <2>1. CASE RolePostStore(p)
    <3> DEFINE again == [step |-> "find", user |-> j.user, scopes |-> j.scopes,
                         policy |-> j.policy, created |-> j.created]
    <3>1. j.step = "store" /\ job' = [job EXCEPT ![p] =
                                        IF j.scopes = {} THEN ClearThen(Idle) ELSE again]
      BY <2>1 DEF RolePostStore, Then
    <3>2. /\ j.user \in Users /\ j.scopes \in SUBSET Scopes
          /\ j.policy \in PolicyRefs /\ j.created \in SUBSET RoleIds
      BY <1>1, <3>1, JobFields
    <3>3. j.scopes # {} => again \in Jobs /\ again.step = "find"
      BY <3>2 DEF Jobs
    <3> HIDE DEF again
    <3>4. j.scopes # {} => again \in Jobs /\ Held(again) = {}
      BY <3>3, JobFields
    <3>5. QED
      BY <3>1, <3>4, PlainJobs
  <2>2. CASE ~RolePostStore(p)
    BY <2>2, PlainJobs DEF RolePostFails, RolePutStore, RoleDeleteStore, PolicyPutStore,
       StatementFails, AutoCreateCreatorRole, AutoCreateFails, ScopeDeleteRow, Then
  <2>3. QED
    BY <2>1, <2>2
<1>4. live' \in SUBSET Scopes
  BY DEF RolePostStore, RolePostFails, RolePutStore, RoleDeleteStore, PolicyPutStore,
     StatementFails, AutoCreateCreatorRole, AutoCreateFails, ScopeDeleteRow, tables,
     CopiesInv, AccessTypeOK
<1>5. policies' \in [PolicyIds -> Contents \union {NoId}]
  <2>1. CASE PolicyPutStore(p)
    <3>1. j.policy \in PolicyIds /\ j.contents \in Contents
      BY <1>1, <2>1, JobFields DEF PolicyPutStore
    <3>2. policies' = [policies EXCEPT ![j.policy] =
                         IF @ = NoId THEN NoId ELSE j.contents]
      BY <2>1 DEF PolicyPutStore
    <3> HIDE DEF j
    <3>3. QED
      BY <3>1, <3>2 DEF CopiesInv, AccessTypeOK
  <2>2. CASE ~PolicyPutStore(p)
    BY <2>2 DEF RolePostStore, RolePostFails, RolePutStore, RoleDeleteStore,
       StatementFails, AutoCreateCreatorRole, AutoCreateFails, ScopeDeleteRow, tables,
       CopiesInv, AccessTypeOK
  <2>3. QED
    BY <2>1, <2>2
<1>6. roles' \in SUBSET Role /\ \A c \in roles' : Known(c)
  BY StoredRoles
<1> HIDE DEF j
<1>7. QED
  BY <1>2, <1>3, <1>4, <1>5, <1>6, TableStep

\* AutoCreateCreatorRole is about to repeat the role on the parent, or does nothing.
LEMMA CreatorRoleJobs ==
    ASSUME CopiesInv, NEW p \in Threads, NEW known \in SUBSET Role, Unused # {},
           job[p].user \in Users, job[p].scope \in Scopes,
           NEW n \in CreatorRole(job[p], known)
    PROVE  /\ n \in Jobs /\ n.step = "autoStore" /\ n.scope = job[p].scope
           /\ n.row \in Role /\ Held(n) = {n.row}
           /\ Key(n.row) = <<NewId, job[p].user, job[p].scope>>
           /\ n.row.id = NewId /\ n.row.user = job[p].user /\ n.row.scope = job[p].scope
<1>1. NewId \in RoleIds
  BY NewIdFresh DEF CopiesInv
<1>2. PICK r \in known : n = [step |-> "autoStore", scope |-> job[p].scope,
         row |-> [id |-> NewId, user |-> job[p].user, scope |-> job[p].scope,
                  policy |-> r.policy]]
  BY DEF CreatorRole
<1> DEFINE row == [id |-> NewId, user |-> job[p].user, scope |-> job[p].scope,
                   policy |-> r.policy]
<1>3. /\ row \in Role /\ Key(row) = <<NewId, job[p].user, job[p].scope>>
      /\ row.id = NewId /\ row.user = job[p].user /\ row.scope = job[p].scope
  BY <1>1 DEF Role, Key
<1>4. n = [step |-> "autoStore", scope |-> job[p].scope, row |-> row]
  BY <1>2
<1> HIDE DEF row
<1>5. n \in Jobs /\ n.step = "autoStore" /\ n.row = row /\ n.scope = job[p].scope
  BY <1>3, <1>4 DEF Jobs
<1>6. QED
  BY <1>3, <1>5, JobFields

LEMMA CreatorRoleInv ==
    ASSUME CopiesInv, NEW p \in Threads, FindExistingRole(p) \/ FillParentRoles(p)
    PROVE  CopiesInv'
<1> DEFINE j == job[p]
<1>1. /\ j.step \in {"parentRole", "fillParent"} /\ Unused # {}
      /\ UNCHANGED <<live, policies, roles, cachedPolicies>>
  BY DEF FindExistingRole, FillParentRoles, tables, Then, cache
<1>2. j \in Jobs
  BY DEF CopiesInv, AccessTypeOK
<1>3. /\ j.user \in Users /\ j.scope \in Scopes /\ j.parent \in Scopes
      /\ j.step = "fillParent" => j.read \in SUBSET Role /\ \A c \in j.read : Known(c)
  BY <1>1, <1>2, JobFields, CopiesKnown
<1>4. /\ cachedRoles' \in [Users -> SUBSET Role]
      /\ \A u \in Users : \A c \in cachedRoles'[u] : Known(c)
  <2>1. CASE FindExistingRole(p)
    <3>1. UNCHANGED cachedRoles
      BY <2>1 DEF FindExistingRole, Then, cache
    <3>2. QED
      BY <3>1, CopiesKnown DEF CopiesInv, AccessTypeOK
  <2>2. CASE FillParentRoles(p)
    <3>1. j.step = "fillParent" /\ cachedRoles' = [cachedRoles EXCEPT ![j.user] = j.read]
      BY <2>2 DEF FillParentRoles
    <3> HIDE DEF j
    <3>2. QED
      BY <1>3, <3>1, CopiesKnown DEF CopiesInv, AccessTypeOK
  <2>3. QED
    BY <2>1, <2>2
<1>5. PICK n : /\ job' = [job EXCEPT ![p] = n]
               /\ \/ n = Idle
                  \/ \E known \in SUBSET Role : n \in CreatorRole(j, known)
                  \/ n = [step |-> "fillParent", user |-> j.user, scope |-> j.scope,
                          parent |-> j.parent, read |-> RolesOf(j.user)]
  <2>1. CASE FillParentRoles(p)
    <3>1. PICK n \in (IF CreatorRole(j, j.read) = {} THEN {Idle} ELSE CreatorRole(j, j.read)) :
             job' = [job EXCEPT ![p] = n]
      BY <2>1 DEF FillParentRoles
    <3>2. j.read \in SUBSET Role
      BY <1>3, <2>1 DEF FillParentRoles
    <3> HIDE DEF j
    <3>3. QED
      BY <3>1, <3>2
  <2>2. CASE FindExistingRole(p) /\ cachedRoles[j.user] # {}
    <3> DEFINE next == CreatorRole(j, cachedRoles[j.user])
    <3>1. PICK n \in (IF next = {} THEN {Idle} ELSE next) : job' = [job EXCEPT ![p] = n]
      BY <2>2 DEF FindExistingRole, Then
    <3>2. cachedRoles[j.user] \in SUBSET Role
      BY <1>3 DEF CopiesInv, AccessTypeOK
    <3> HIDE DEF j
    <3>3. QED
      BY <3>1, <3>2
  <2>3. CASE FindExistingRole(p) /\ cachedRoles[j.user] = {}
    BY <2>3 DEF FindExistingRole, Then
  <2>4. QED
    BY <1>1, <2>1, <2>2, <2>3
<1>6. \A r \in roles : Known(r) /\ r \in Role
  BY CopiesKnown DEF CopiesInv, AccessTypeOK
<1>7. CASE n = Idle
  <2> DEFINE new == {}
  <2>1. /\ new \in SUBSET Role /\ \A c, d \in new : Key(c) = Key(d)
        /\ \A c \in new : \A d \in Copies : d.id # c.id
    OBVIOUS
  <2> HIDE DEF new, j
  <2>2. QED
    BY <1>1, <1>4, <1>5, <1>6, <1>7, <2>1, PlainJobs, StepInv DEF CopiesInv, AccessTypeOK
<1>8. ASSUME NEW known \in SUBSET Role, n \in CreatorRole(j, known)
      PROVE  CopiesInv'
  <2> DEFINE new == {n.row}
  <2>1. n \in Jobs /\ n.row \in Role /\ Held(n) = new /\ n.row.id = NewId
    BY <1>1, <1>3, <1>8, CreatorRoleJobs
  <2>2. \A d \in Copies : d.id # NewId
    BY <1>1, NewIdFresh DEF CopiesInv
  <2>3. /\ new \in SUBSET Role /\ \A c, d \in new : Key(c) = Key(d)
        /\ \A c \in new : \A d \in Copies : d.id # c.id
    BY <2>1, <2>2
  <2> HIDE DEF new, j
  <2>4. QED
    BY <1>1, <1>4, <1>5, <1>6, <2>1, <2>3, StepInv DEF CopiesInv, AccessTypeOK
<1>9. CASE n = [step |-> "fillParent", user |-> j.user, scope |-> j.scope,
                parent |-> j.parent, read |-> RolesOf(j.user)]
  <2>1. n \in Jobs /\ n.step = "fillParent" /\ n.read = RolesOf(j.user)
    BY <1>3, <1>6, <1>9 DEF Jobs, RolesOf
  <2>2. \A c \in Held(n) : Known(c)
    BY <1>6, <2>1, JobFields DEF RolesOf
  <2> DEFINE new == {}
  <2>3. /\ new \in SUBSET Role /\ \A c, d \in new : Key(c) = Key(d)
        /\ \A c \in new : \A d \in Copies : d.id # c.id
    OBVIOUS
  <2> HIDE DEF new, j
  <2>4. QED
    BY <1>1, <1>4, <1>5, <1>6, <2>1, <2>2, <2>3, StepInv DEF CopiesInv, AccessTypeOK
<1>10. QED
  BY <1>5, <1>7, <1>8, <1>9

LEMMA CopiesNextInv == CopiesInv /\ [Next]_vars => CopiesInv'
<1> SUFFICES ASSUME CopiesInv, [Next]_vars PROVE CopiesInv'
  OBVIOUS
<1>1. ASSUME NEW p \in Threads, Request(p) PROVE CopiesInv'
  BY <1>1, RequestsInv, ScopesAndPoliciesInv DEF Request, PolicyRefs
<1>2. ASSUME NEW p \in Threads, Step(p) PROVE CopiesInv'
  BY <1>2, CacheStepsInv, RolePostFindInv, StoresInv, CreatorRoleInv DEF Step
<1>3. CASE UNCHANGED vars
  <2>1. UNCHANGED <<live, policies, roles, cachedRoles, cachedPolicies, job>>
    BY <1>3 DEF vars, tables, cache
  <2>2. QED
    BY <2>1 DEF CopiesInv, AccessTypeOK, CopiesAgree, Copies
<1>4. QED
  BY <1>1, <1>2, <1>3 DEF Next

\* Whatever a step does, the roles it leaves in the table are known ones.
LEMMA RolesKnown ==
    ASSUME CopiesInv, [Next]_vars, NEW s \in roles'
    PROVE  Known(s)
<1>1. \A r \in roles : Known(r)
  BY CopiesKnown
<1>2. CASE roles' \subseteq roles
  BY <1>1, <1>2
<1>3. ASSUME NEW p \in Threads, Request(p) PROVE roles' \subseteq roles
  BY <1>3 DEF Request, FindAllUserRoles, CheckRolePolicy, RolePost, RolePut, RoleDelete,
     PolicyPost, PolicyPut, PolicyDelete, ScopePost, ScopeDelete, OperatorDelete, VenuePut,
     Start, tables
<1>4. ASSUME NEW p \in Threads, \/ SetUserRoles(p) \/ SetPolicy(p) \/ Clear(p)
             \/ RolePostFind(p) \/ FindExistingRole(p) \/ FillParentRoles(p)
      PROVE  roles' \subseteq roles
  BY <1>4 DEF SetUserRoles, SetPolicy, Clear, RolePostFind, FindExistingRole,
     FillParentRoles, tables
<1>5. CASE UNCHANGED vars
  BY <1>1, <1>5 DEF vars, tables
<1>6. QED
  BY <1>2, <1>3, <1>4, <1>5, StoredRoles DEF Next, Step

(***************************************************************************)
(* The tables, the cache and what every handler is about to do keep their  *)
(* types, whatever statements of other handlers run between its own.       *)
(***************************************************************************)
THEOREM TypeCorrect == Spec => []TypeOK
<1>1. CopiesInv => TypeOK
  <2> SUFFICES ASSUME CopiesInv PROVE TypeOK
    OBVIOUS
  <2>1. ASSUME NEW p \in Threads
        PROVE  \/ job[p].step \in {"idle", "fillPolicy", "putPolicy", "parentRole", "clear",
                                   "deleteScope"}
               \/ job[p].step \in {"fillRoles", "fillParent"} /\ job[p].read \in SUBSET Role
               \/ job[p].step = "find" /\ job[p].scopes \in SUBSET Scopes
               \/ job[p].step \in {"store", "update", "delete", "autoStore"} /\ job[p].row \in Role
    <3>1. job[p] \in Jobs
      BY DEF CopiesInv, AccessTypeOK
    <3>2. QED
      BY <3>1 DEF Jobs
  <2>2. QED
    BY <2>1 DEF CopiesInv, AccessTypeOK, TypeOK
<1>2. QED
  BY CopiesInitInv, CopiesNextInv, <1>1, PTL DEF Spec

(***************************************************************************)
(* A stored role never changes its user or its scope, although handlers on *)
(* any number of threads write back whole records that they read or found  *)
(* in the cache earlier.                                                   *)
(***************************************************************************)
THEOREM RolesKeepScopeTheorem == Spec => RolesKeepScope
<1>1. ASSUME CopiesInv, [Next]_vars
      PROVE  \A r \in roles, s \in roles' : r.id = s.id => Key(r) = Key(s)
  <2> SUFFICES ASSUME NEW r \in roles, NEW s \in roles', r.id = s.id
               PROVE  Key(r) = Key(s)
    OBVIOUS
  <2>1. PICK d \in Copies : d.id = s.id /\ Key(d) = Key(s)
    BY <1>1, RolesKnown DEF Known
  <2>2. r \in Copies
    BY DEF Copies
  <2>3. QED
    BY <1>1, <2>1, <2>2 DEF CopiesInv, CopiesAgree
<1>2. QED
  BY CopiesInitInv, CopiesNextInv, <1>1, PTL DEF Spec, RolesKeepScope

(***************************************************************************)
(* From here on one handler, h, serves the requests one after the other.   *)
(*                                                                         *)
(* Undone(j): the roles a batch has created and would delete if a later    *)
(* statement of it failed.  They are not in the cache.                     *)
(***************************************************************************)
Undone(j) == IF j.step \in {"find", "store"} THEN j.created ELSE {}

\* Unless it is about to be cleared, a cached user's entry names the user's roles but
\* for those of an unfinished batch.
CacheNames(j) ==
    j.step # "clear" =>
       \A u \in Users : cachedRoles[u] # {} =>
          /\ \A c \in cachedRoles[u] :
               \E r \in roles : r.user = u /\ r.id \notin Undone(j) /\ Key(r) = Key(c)
          /\ \A r \in roles : r.user = u /\ r.id \notin Undone(j) =>
               \E c \in cachedRoles[u] : Key(r) = Key(c)

PoliciesNamed(j) ==
    j.step # "clear" => \A q \in PolicyIds : cachedPolicies[q] \in {NoId, policies[q]}

\* What the handler found out is still so.
JobTrue(j) ==
    /\ j.step \in {"find", "store"} =>
         \A r \in roles : r.id \in j.created => r.scope \notin j.scopes
    /\ j.step = "store" =>
         /\ j.row.scope \notin j.scopes
         /\ j.row.id \in j.created =>
              \A r \in roles : ~(r.user = j.row.user /\ r.scope = j.row.scope)
    /\ j.step \in {"fillRoles", "fillParent"} => j.read = RolesOf(j.user)
    /\ j.step \in {"parentRole", "fillParent", "autoStore"} =>
         \A r \in roles : r.scope # j.scope
    /\ j.step = "autoStore" => j.row.scope = j.scope
    /\ j.step = "fillPolicy" => j.read = policies[j.policy]

SequentialInv(h) ==
    /\ CopiesInv /\ OneRolePerScope
    /\ CacheNames(job[h]) /\ PoliciesNamed(job[h]) /\ JobTrue(job[h])

LEMMA KeyFields ==
    ASSUME NEW r \in Role, NEW s \in Role
    PROVE  Key(r) = Key(s) <=> r.id = s.id /\ r.user = s.user /\ r.scope = s.scope
  BY DEF Key

LEMMA SequentialInitInv ==
    ASSUME NEW h \in Threads
    PROVE  Init => SequentialInv(h)
<1> SUFFICES ASSUME Init PROVE SequentialInv(h)
  OBVIOUS
<1>1. job[h] = Idle /\ Idle.step = "idle" /\ roles = {}
  BY PlainJobs DEF Init
<1>2. \A u \in Users : cachedRoles[u] = {}
  BY DEF Init
<1>3. \A q \in PolicyIds : cachedPolicies[q] = NoId
  BY DEF Init
<1>4. CacheNames(job[h]) /\ PoliciesNamed(job[h]) /\ JobTrue(job[h])
  BY <1>1, <1>2, <1>3 DEF CacheNames, PoliciesNamed, JobTrue
<1>5. QED
  BY <1>1, <1>4, CopiesInitInv DEF SequentialInv, OneRolePerScope

\* A request begins: the handler takes up the job n.
LEMMA SeqStart ==
    ASSUME NEW h \in Threads, SequentialInv(h), CopiesInv', NEW n, Start(h, n),
           Undone(n) = {}, JobTrue(n)
    PROVE  SequentialInv(h)'
<1>1. /\ job[h] = Idle /\ job'[h] = n
      /\ UNCHANGED <<live, policies, roles, cachedRoles, cachedPolicies>>
  BY DEF Start, tables, cache, SequentialInv, CopiesInv, AccessTypeOK
<1>2. Idle.step = "idle"
  BY PlainJobs
<1>3. CacheNames(Idle) /\ PoliciesNamed(Idle) /\ Undone(Idle) = {}
  BY <1>1, <1>2 DEF SequentialInv, Undone
<1>4. CacheNames(job[h])'
  BY <1>1, <1>2, <1>3 DEF CacheNames, Undone
<1>5. PoliciesNamed(job[h])'
  BY <1>1, <1>2, <1>3 DEF PoliciesNamed
<1>6. JobTrue(job[h])'
  BY <1>1 DEF JobTrue, RolesOf
<1>7. QED
  BY <1>1, <1>4, <1>5, <1>6 DEF SequentialInv, OneRolePerScope

LEMMA SeqRequests ==
    ASSUME NEW h \in Threads, SequentialInv(h), CopiesInv',
           \/ \E u \in Users : FindAllUserRoles(h, u)
           \/ \E q \in PolicyIds : CheckRolePolicy(h, q)
           \/ \E u \in Users, ss \in SUBSET Scopes, q \in PolicyRefs : RolePost(h, u, ss, q)
           \/ \E r \in roles, s \in Scopes, q \in PolicyRefs : RolePut(h, r, s, q)
           \/ \E r \in roles : RoleDelete(h, r)
           \/ \E q \in PolicyIds, c \in Contents : PolicyPut(h, q, c)
    PROVE  SequentialInv(h)'
<1>1. PICK n : Start(h, n) /\ Undone(n) = {} /\ JobTrue(n)
  <2>1. ASSUME NEW u \in Users, FindAllUserRoles(h, u)
        PROVE  \E n : Start(h, n) /\ Undone(n) = {} /\ JobTrue(n)
    BY <2>1 DEF FindAllUserRoles, Undone, JobTrue
  <2>2. ASSUME NEW q \in PolicyIds, CheckRolePolicy(h, q)
        PROVE  \E n : Start(h, n) /\ Undone(n) = {} /\ JobTrue(n)
    BY <2>2 DEF CheckRolePolicy, Undone, JobTrue
  <2>3. ASSUME NEW u \in Users, NEW ss \in SUBSET Scopes, NEW q \in PolicyRefs,
               RolePost(h, u, ss, q)
        PROVE  \E n : Start(h, n) /\ Undone(n) = {} /\ JobTrue(n)
    BY <2>3 DEF RolePost, Undone, JobTrue
  <2>4. ASSUME NEW r \in roles, NEW s \in Scopes, NEW q \in PolicyRefs, RolePut(h, r, s, q)
        PROVE  \E n : Start(h, n) /\ Undone(n) = {} /\ JobTrue(n)
    BY <2>4 DEF RolePut, Undone, JobTrue
  <2>5. ASSUME NEW r \in roles, RoleDelete(h, r)
        PROVE  \E n : Start(h, n) /\ Undone(n) = {} /\ JobTrue(n)
    BY <2>5 DEF RoleDelete, Undone, JobTrue
  <2>6. ASSUME NEW q \in PolicyIds, NEW c \in Contents, PolicyPut(h, q, c)
        PROVE  \E n : Start(h, n) /\ Undone(n) = {} /\ JobTrue(n)
    BY <2>6 DEF PolicyPut, Undone, JobTrue
  <2>7. QED
    BY <2>1, <2>2, <2>3, <2>4, <2>5, <2>6
<1>2. QED
  BY <1>1, SeqStart

\* An UPDATE changes no role's identifier, user or scope.
LEMMA UpdateKeepsKeys ==
    ASSUME CopiesInv, NEW row \in Role, Known(row)
    PROVE  /\ \A c \in UpdateRecord(row) : \E r \in roles : Key(r) = Key(c)
           /\ \A r \in roles : \E c \in UpdateRecord(row) : Key(r) = Key(c)
<1>1. ASSUME NEW r \in roles, r.id = row.id PROVE Key(r) = Key(row)
  <2>1. PICK d \in Copies : d.id = row.id /\ Key(d) = Key(row)
    BY DEF Known
  <2>2. r \in Copies
    BY DEF Copies
  <2>3. QED
    BY <1>1, <2>1, <2>2 DEF CopiesInv, CopiesAgree
<1>2. \A r \in roles : (IF r.id = row.id THEN row ELSE r) \in UpdateRecord(row)
  BY DEF UpdateRecord
<1>3. \A c \in UpdateRecord(row) : \E r \in roles : c = IF r.id = row.id THEN row ELSE r
  BY DEF UpdateRecord
<1>4. QED
  BY <1>1, <1>2, <1>3

LEMMA UpdateOnePerScope ==
    ASSUME CopiesInv, OneRolePerScope, NEW row \in Role, Known(row)
    PROVE  \A c, d \in UpdateRecord(row) : c.user = d.user /\ c.scope = d.scope => c = d
<1> SUFFICES ASSUME NEW c \in UpdateRecord(row), NEW d \in UpdateRecord(row),
                    c.user = d.user, c.scope = d.scope
             PROVE  c = d
  OBVIOUS
<1>1. PICK r \in roles : c = IF r.id = row.id THEN row ELSE r
  BY DEF UpdateRecord
<1>2. PICK t \in roles : d = IF t.id = row.id THEN row ELSE t
  BY DEF UpdateRecord
<1>3. r \in Role /\ t \in Role /\ roles \subseteq Copies
  BY DEF CopiesInv, AccessTypeOK, Copies
<1>4. PICK k \in Copies : k.id = row.id /\ Key(k) = Key(row)
  BY DEF Known
<1>5. /\ r.id = row.id => r.user = row.user /\ r.scope = row.scope
      /\ t.id = row.id => t.user = row.user /\ t.scope = row.scope
  <2>1. /\ r.id = row.id => Key(r) = Key(row)
        /\ t.id = row.id => Key(t) = Key(row)
    BY <1>3, <1>4 DEF CopiesInv, CopiesAgree
  <2>2. QED
    BY <1>3, <2>1, KeyFields
<1>6. r.user = t.user /\ r.scope = t.scope
  BY <1>1, <1>2, <1>5
<1>7. r = t
  BY <1>6 DEF OneRolePerScope
<1>8. QED
  BY <1>1, <1>2, <1>7

\* A handler that is about to clear the cache need not mind what is in it.
LEMMA SeqToClear ==
    ASSUME NEW h \in Threads, SequentialInv(h), CopiesInv', OneRolePerScope',
           NEW n, job' = [job EXCEPT ![h] = n], n.step = "clear"
    PROVE  SequentialInv(h)'
<1>1. job'[h] = n
  BY DEF SequentialInv, CopiesInv, AccessTypeOK
<1>2. CacheNames(job[h])' /\ PoliciesNamed(job[h])' /\ JobTrue(job[h])'
  BY <1>1 DEF CacheNames, PoliciesNamed, JobTrue
<1>3. QED
  BY <1>2 DEF SequentialInv

LEMMA ClearSteps ==
    /\ ClearThen(Idle).step = "clear"
    /\ \A s : ClearThen([step |-> "deleteScope", scope |-> s]).step = "clear"
  BY DEF ClearThen

LEMMA SeqChanges ==
    ASSUME NEW h \in Threads, SequentialInv(h), CopiesInv',
           \/ \E q \in PolicyIds, c \in Contents : PolicyPost(h, q, c)
           \/ \E q \in PolicyIds : PolicyDelete(h, q)
           \/ \E s \in Scopes : ScopeDelete(h, s)
           \/ RolePutStore(h) \/ RoleDeleteStore(h) \/ PolicyPutStore(h)
           \/ AutoCreateCreatorRole(h)
           \/ RolePostStore(h) /\ job[h].scopes = {}
    PROVE  SequentialInv(h)'
<1> DEFINE j == job[h]
<1>1. PICK n : job' = [job EXCEPT ![h] = n] /\ n.step = "clear"
  BY ClearSteps DEF PolicyPost, PolicyDelete, ScopeDelete, RolePutStore, RoleDeleteStore,
     PolicyPutStore, AutoCreateCreatorRole, RolePostStore, Then
<1>2. j \in Jobs /\ CopiesInv /\ OneRolePerScope
  BY DEF SequentialInv, CopiesInv, AccessTypeOK
<1>3. j.step \in {"store", "update", "autoStore"} => j.row \in Role /\ Known(j.row)
  BY <1>2, JobFields, CopiesKnown
<1>4. CASE RolePutStore(h) \/ (RolePostStore(h) /\ j.row.id \notin j.created)
  <2>1. j.step \in {"store", "update"} /\ roles' = UpdateRecord(j.row)
    BY <1>4 DEF RolePutStore, RolePostStore
  <2> HIDE DEF j
  <2>2. \A c, d \in UpdateRecord(j.row) : c.user = d.user /\ c.scope = d.scope => c = d
    BY <1>2, <1>3, <2>1, UpdateOnePerScope
  <2>3. OneRolePerScope'
    BY <2>1, <2>2 DEF OneRolePerScope
  <2>4. QED
    BY <1>1, <2>3, SeqToClear
<1>5. CASE AutoCreateCreatorRole(h) \/ (RolePostStore(h) /\ j.row.id \in j.created)
  <2>1. /\ roles' = roles \union {j.row}
        /\ j.step = "autoStore" \/ (j.step = "store" /\ j.row.id \in j.created)
    BY <1>5 DEF AutoCreateCreatorRole, RolePostStore
  <2>2. JobTrue(j)
    BY DEF SequentialInv
  <2> HIDE DEF j
  <2>3. \A r \in roles : ~(r.user = j.row.user /\ r.scope = j.row.scope)
    BY <2>1, <2>2 DEF JobTrue
  <2>4. OneRolePerScope'
    BY <1>2, <2>1, <2>3 DEF OneRolePerScope
  <2>5. QED
    BY <1>1, <2>4, SeqToClear
<1>6. CASE \/ \E q \in PolicyIds, c \in Contents : PolicyPost(h, q, c)
           \/ \E q \in PolicyIds : PolicyDelete(h, q)
           \/ \E s \in Scopes : ScopeDelete(h, s)
           \/ RoleDeleteStore(h) \/ PolicyPutStore(h)
  <2>1. roles' \subseteq roles
    BY <1>6 DEF PolicyPost, PolicyDelete, ScopeDelete, RoleDeleteStore, PolicyPutStore
  <2>2. OneRolePerScope'
    BY <1>2, <2>1 DEF OneRolePerScope
  <2>3. QED
    BY <1>1, <2>2, SeqToClear
<1>7. QED
  BY <1>4, <1>5, <1>6

\* A step that leaves the roles alone, and the cache unless it empties it.
LEMMA SeqRolesKept ==
    ASSUME NEW h \in Threads, SequentialInv(h), CopiesInv',
           NEW n, job' = [job EXCEPT ![h] = n], UNCHANGED <<policies, roles>>,
           \/ UNCHANGED cachedRoles /\ job[h].step # "clear" /\ Undone(n) = Undone(job[h])
           \/ \A u \in Users : cachedRoles'[u] = {},
           \/ UNCHANGED cachedPolicies /\ job[h].step # "clear"
           \/ \A q \in PolicyIds : cachedPolicies'[q] = NoId,
           JobTrue(n)
    PROVE  SequentialInv(h)'
<1>1. job'[h] = n
  BY DEF SequentialInv, CopiesInv, AccessTypeOK
<1>2. CacheNames(job[h]) /\ PoliciesNamed(job[h]) /\ OneRolePerScope
  BY DEF SequentialInv
<1>3. CacheNames(n)'
  BY <1>2 DEF CacheNames, Undone
<1>4. PoliciesNamed(n)'
  BY <1>2 DEF PoliciesNamed
<1>5. JobTrue(n)'
  BY DEF JobTrue, RolesOf
<1>6. CacheNames(job[h])' /\ PoliciesNamed(job[h])' /\ JobTrue(job[h])'
  BY <1>1, <1>3, <1>4, <1>5 DEF CacheNames, PoliciesNamed, JobTrue, Undone, RolesOf
<1>7. QED
  BY <1>2, <1>6 DEF SequentialInv, OneRolePerScope

LEMMA SeqPlainSteps ==
    ASSUME NEW h \in Threads, SequentialInv(h), CopiesInv',
           \/ Clear(h) \/ StatementFails(h) \/ AutoCreateFails(h) \/ ScopeDeleteRow(h)
    PROVE  SequentialInv(h)'
<1>1. job[h] \in Jobs
  BY DEF SequentialInv, CopiesInv, AccessTypeOK
<1>2. ASSUME NEW n, n.step \in {"idle", "deleteScope"} PROVE JobTrue(n) /\ Undone(n) = {}
  BY <1>2 DEF JobTrue, Undone
<1>3. CASE Clear(h)
  <2>1. job[h].then.step \in {"idle", "deleteScope"}
    BY <1>1, <1>3, JobFields DEF Clear
  <2>2. /\ job' = [job EXCEPT ![h] = job[h].then] /\ UNCHANGED <<policies, roles>>
        /\ \A u \in Users : cachedRoles'[u] = {}
        /\ \A q \in PolicyIds : cachedPolicies'[q] = NoId
    BY <1>3 DEF Clear, tables
  <2>3. JobTrue(job[h].then)
    BY <1>2, <2>1
  <2>4. QED
    BY ONLY SequentialInv(h), CopiesInv', h \in Threads, <2>2, <2>3, SeqRolesKept
<1>4. CASE StatementFails(h) \/ AutoCreateFails(h) \/ ScopeDeleteRow(h)
  <2>1. /\ job[h].step \in {"update", "delete", "putPolicy", "autoStore", "deleteScope"}
        /\ job' = [job EXCEPT ![h] = Idle]
        /\ UNCHANGED <<policies, roles, cachedRoles, cachedPolicies>>
    BY <1>4 DEF StatementFails, AutoCreateFails, ScopeDeleteRow, Then, tables, cache
  <2>2. Undone(job[h]) = {}
    BY <2>1 DEF Undone
  <2>3. Idle.step = "idle"
    BY PlainJobs
  <2>4. JobTrue(Idle) /\ Undone(Idle) = Undone(job[h]) /\ job[h].step # "clear"
    BY <1>2, <2>1, <2>2, <2>3
  <2>5. QED
    BY ONLY SequentialInv(h), CopiesInv', h \in Threads, <2>1, <2>4, SeqRolesKept
<1>5. QED
  BY <1>3, <1>4

LEMMA SeqScopes ==
    ASSUME NEW h \in Threads, SequentialInv(h), CopiesInv',
           \/ \E u \in Users, parent, s \in Scopes : ScopePost(h, u, parent, s)
           \/ \E s \in Scopes : OperatorDelete(h, s)
           \/ \E s, t \in Venues : VenuePut(h, s, t)
    PROVE  SequentialInv(h)'
<1>1. Idle.step = "idle"
  BY PlainJobs
<1>2. ASSUME NEW u \in Users, NEW parent \in Scopes, NEW s \in Scopes,
             ScopePost(h, u, parent, s)
      PROVE  SequentialInv(h)'
  <2> DEFINE n == [step |-> "parentRole", user |-> u, parent |-> parent, scope |-> s]
  <2>1. /\ job[h] = Idle /\ job' = [job EXCEPT ![h] = n]
        /\ UNCHANGED <<policies, roles, cachedRoles, cachedPolicies>>
        /\ \A r \in roles : r.scope # s
    BY <1>2 DEF ScopePost, Then, cache
  <2>2. JobTrue(n) /\ Undone(n) = {}
    BY <2>1 DEF JobTrue, Undone
  <2>3. Undone(job[h]) = {} /\ job[h].step # "clear"
    BY <1>1, <2>1 DEF Undone
  <2> HIDE DEF n
  <2>4. QED
    BY <2>1, <2>2, <2>3, SeqRolesKept
<1>3. CASE \/ \E s \in Scopes : OperatorDelete(h, s)
           \/ \E s, t \in Venues : VenuePut(h, s, t)
  <2>1. UNCHANGED <<policies, roles, cachedRoles, cachedPolicies, job>>
    BY <1>3 DEF OperatorDelete, VenuePut, cache
  <2>2. QED
    BY <2>1 DEF SequentialInv, OneRolePerScope, CacheNames, Undone, PoliciesNamed,
       JobTrue, RolesOf
<1>4. QED
  BY <1>2, <1>3

\* The handler fills the cache with what it read, and nothing has changed since.
LEMMA SeqFill ==
    ASSUME NEW h \in Threads, SequentialInv(h), CopiesInv', job[h].step \in {"fillRoles", "fillParent"},
           cachedRoles' = [cachedRoles EXCEPT ![job[h].user] = job[h].read],
           NEW n, job' = [job EXCEPT ![h] = n], UNCHANGED <<policies, roles, cachedPolicies>>,
           Undone(n) = {}, JobTrue(n)
    PROVE  SequentialInv(h)'
<1>1. job'[h] = n /\ cachedRoles \in [Users -> SUBSET Role]
  BY DEF SequentialInv, CopiesInv, AccessTypeOK
<1>2. /\ CacheNames(job[h]) /\ PoliciesNamed(job[h]) /\ OneRolePerScope
      /\ job[h].read = RolesOf(job[h].user) /\ Undone(job[h]) = {}
  BY DEF SequentialInv, JobTrue, Undone
<1>3. \A u \in Users : cachedRoles'[u] = IF u = job[h].user THEN RolesOf(u) ELSE cachedRoles[u]
  BY <1>1, <1>2
<1>4. CacheNames(n)'
  <2>1. ASSUME NEW u \in Users, cachedRoles'[u] # {}
        PROVE  /\ \A c \in cachedRoles'[u] : \E r \in roles : r.user = u /\ Key(r) = Key(c)
               /\ \A r \in roles : r.user = u => \E c \in cachedRoles'[u] : Key(r) = Key(c)
    BY <1>2, <1>3, <2>1 DEF CacheNames, RolesOf
  <2>2. Undone(n)' = {}
    BY DEF Undone
  <2>3. QED
    BY <2>1, <2>2 DEF CacheNames, Key
<1>5. PoliciesNamed(n)'
  BY <1>2 DEF PoliciesNamed
<1>6. JobTrue(n)'
  BY DEF JobTrue, RolesOf
<1>7. CacheNames(job[h])' /\ PoliciesNamed(job[h])' /\ JobTrue(job[h])'
  BY <1>1, <1>4, <1>5, <1>6 DEF CacheNames, PoliciesNamed, JobTrue, Undone, RolesOf
<1>8. QED
  BY <1>2, <1>7 DEF SequentialInv, OneRolePerScope

LEMMA SeqCacheFills ==
    ASSUME NEW h \in Threads, SequentialInv(h), CopiesInv', SetUserRoles(h) \/ SetPolicy(h)
    PROVE  SequentialInv(h)'
<1>1. Idle.step = "idle" /\ JobTrue(Idle) /\ Undone(Idle) = {}
  BY PlainJobs DEF JobTrue, Undone
<1>2. CASE SetUserRoles(h)
  BY <1>1, <1>2, SeqFill DEF SetUserRoles, tables
<1>3. CASE SetPolicy(h)
  <2>1. /\ job[h].step = "fillPolicy" /\ job' = [job EXCEPT ![h] = Idle]
        /\ cachedPolicies' = [cachedPolicies EXCEPT ![job[h].policy] = job[h].read]
        /\ UNCHANGED <<policies, roles, cachedRoles>>
    BY <1>3 DEF SetPolicy, tables
  <2>2. job'[h] = Idle /\ cachedPolicies \in [PolicyIds -> Contents \union {NoId}]
    BY <2>1 DEF SequentialInv, CopiesInv, AccessTypeOK
  <2>3. /\ CacheNames(job[h]) /\ PoliciesNamed(job[h]) /\ OneRolePerScope
        /\ job[h].read = policies[job[h].policy] /\ Undone(job[h]) = {}
    BY <2>1 DEF SequentialInv, JobTrue, Undone
  <2>4. CacheNames(job[h])'
    BY <1>1, <2>1, <2>2, <2>3 DEF CacheNames, Undone
  <2>5. PoliciesNamed(job[h])'
    BY <2>1, <2>2, <2>3 DEF PoliciesNamed
  <2>6. JobTrue(job[h])'
    BY <1>1, <2>2 DEF JobTrue
  <2>7. QED
    BY <2>1, <2>3, <2>4, <2>5, <2>6 DEF SequentialInv, OneRolePerScope
<1>4. QED
  BY <1>2, <1>3

LEMMA SeqCreatorRole ==
    ASSUME NEW h \in Threads, SequentialInv(h), CopiesInv',
           FindExistingRole(h) \/ FillParentRoles(h)
    PROVE  SequentialInv(h)'
<1> DEFINE j == job[h]
<1>1. /\ j.step \in {"parentRole", "fillParent"} /\ Unused # {} /\ j \in Jobs /\ CopiesInv
      /\ JobTrue(j) /\ Undone(j) = {}
  BY DEF FindExistingRole, FillParentRoles, SequentialInv, CopiesInv, AccessTypeOK, Undone
<1>2. j.user \in Users /\ j.scope \in Scopes /\ (j.step = "fillParent" => j.read \in SUBSET Role)
  BY <1>1, JobFields
<1>3. \A r \in roles : r.scope # j.scope
  BY <1>1 DEF JobTrue
<1>4. JobTrue(Idle) /\ Undone(Idle) = {}
  BY PlainJobs DEF JobTrue, Undone
<1>5. ASSUME NEW known \in SUBSET Role, NEW n \in CreatorRole(j, known)
      PROVE  JobTrue(n) /\ Undone(n) = {}
  <2>1. n.step = "autoStore" /\ n.scope = j.scope /\ n.row.scope = j.scope
    BY DEF CreatorRole
  <2>2. QED
    BY <1>3, <2>1 DEF JobTrue, Undone
<1>6. CASE FillParentRoles(h)
  <2>1. PICK n \in (IF CreatorRole(j, j.read) = {} THEN {Idle} ELSE CreatorRole(j, j.read)) :
           job' = [job EXCEPT ![h] = n]
    BY <1>6 DEF FillParentRoles
  <2>2. /\ j.step = "fillParent" /\ cachedRoles' = [cachedRoles EXCEPT ![j.user] = j.read]
        /\ UNCHANGED <<policies, roles, cachedPolicies>>
    BY <1>6 DEF FillParentRoles, tables
  <2>3. JobTrue(n) /\ Undone(n) = {}
    BY <1>2, <1>4, <1>5, <2>1, <2>2
  <2>4. QED
    BY <2>1, <2>2, <2>3, SeqFill
<1>7. CASE FindExistingRole(h)
  <2>1. /\ j.step = "parentRole"
        /\ UNCHANGED <<policies, roles, cachedRoles, cachedPolicies>>
    BY <1>7 DEF FindExistingRole, Then, tables, cache
  <2>2. PICK n : job' = [job EXCEPT ![h] = n] /\ JobTrue(n) /\ Undone(n) = {}
    <3>1. CASE cachedRoles[j.user] # {}
      <4> DEFINE next == CreatorRole(j, cachedRoles[j.user])
      <4>1. PICK n \in (IF next = {} THEN {Idle} ELSE next) : job' = [job EXCEPT ![h] = n]
        BY <1>7, <3>1 DEF FindExistingRole, Then
      <4>2. cachedRoles[j.user] \in SUBSET Role
        BY <1>1, <1>2 DEF CopiesInv, AccessTypeOK
      <4> HIDE DEF j
      <4>3. QED
        BY <1>4, <1>5, <4>1, <4>2
    <3>2. CASE cachedRoles[j.user] = {}
      <4> DEFINE f == [step |-> "fillParent", user |-> j.user, scope |-> j.scope,
                       parent |-> j.parent, read |-> RolesOf(j.user)]
      <4>1. job' = [job EXCEPT ![h] = IF RolesOf(j.user) = {} THEN Idle ELSE f]
        BY <1>7, <3>2 DEF FindExistingRole, Then
      <4>2. JobTrue(f) /\ Undone(f) = {}
        BY <1>3 DEF JobTrue, Undone
      <4> HIDE DEF f
      <4>3. QED
        BY <1>4, <4>1, <4>2
    <3>3. QED
      BY <3>1, <3>2
  <2>3. QED
    BY <1>1, <2>1, <2>2, SeqRolesKept
<1>8. QED
  BY <1>6, <1>7

\* What the lookup of an existing role finds is right, although it may use the cache.
LEMMA ExactRoleFound ==
    ASSUME NEW h \in Threads, SequentialInv(h), job[h].step = "find", NEW s \in job[h].scopes
    PROVE  /\ \A r \in FindExactExistingRole(job[h].user, s) :
                r \in Role /\ r.scope = s /\ r.id \notin job[h].created
           /\ FindExactExistingRole(job[h].user, s) = {} =>
                \A r \in roles : ~(r.user = job[h].user /\ r.scope = s)
<1> DEFINE j == job[h]
<1>1. /\ j.user \in Users /\ Undone(j) = j.created /\ CacheNames(j) /\ JobTrue(j)
      /\ roles \in SUBSET Role /\ cachedRoles \in [Users -> SUBSET Role]
  BY JobFields DEF SequentialInv, CopiesInv, AccessTypeOK, Undone
<1>2. \A r \in roles : r.id \in j.created => r.scope # s
  BY <1>1 DEF JobTrue
<1>3. CASE cachedRoles[j.user] = {}
  <2>1. FindExactExistingRole(j.user, s) = {r \in RolesOf(j.user) : r.scope = s}
    BY <1>3 DEF FindExactExistingRole
  <2> HIDE DEF j
  <2>2. QED
    BY <1>1, <1>2, <2>1 DEF RolesOf, j
<1>4. CASE cachedRoles[j.user] # {}
  <2>1. FindExactExistingRole(j.user, s) = {r \in cachedRoles[j.user] : r.scope = s}
    BY <1>4 DEF FindExactExistingRole
  <2>2. \A c \in cachedRoles[j.user] : c \in Role /\ c.id \notin j.created
    <3> SUFFICES ASSUME NEW c \in cachedRoles[j.user]
                 PROVE  c \in Role /\ c.id \notin j.created
      OBVIOUS
    <3>1. PICK r \in roles : r.id \notin j.created /\ Key(r) = Key(c)
      BY <1>1, <1>4 DEF CacheNames
    <3>2. QED
      BY <1>1, <3>1, KeyFields
  <2>3. ASSUME NEW r \in roles, r.user = j.user, r.scope = s
        PROVE  FindExactExistingRole(j.user, s) # {}
    <3>1. PICK c \in cachedRoles[j.user] : Key(r) = Key(c)
      BY <1>1, <1>2, <1>4, <2>3 DEF CacheNames
    <3>2. c.scope = s
      BY <1>1, <2>3, <3>1, KeyFields
    <3>3. QED
      BY <2>1, <3>2
  <2> HIDE DEF j
  <2>4. QED
    BY <2>1, <2>2, <2>3 DEF j
<1>5. QED
  BY <1>3, <1>4

LEMMA SeqFind ==
    ASSUME NEW h \in Threads, SequentialInv(h), CopiesInv', RolePostFind(h)
    PROVE  SequentialInv(h)'
<1> DEFINE j == job[h]
<1> DEFINE stored(s, row, created) ==
             [step |-> "store", user |-> j.user, scopes |-> j.scopes \ {s},
              policy |-> j.policy, created |-> created, row |-> row]
<1>1. /\ j.step = "find" /\ CacheNames(j) /\ JobTrue(j) /\ PoliciesNamed(j) /\ OneRolePerScope
      /\ Undone(j) = j.created /\ CopiesInv
  BY DEF RolePostFind, SequentialInv, Undone
<1>2. UNCHANGED <<policies, roles, cachedRoles, cachedPolicies>>
  BY DEF RolePostFind, Then, tables, cache
<1>3. PICK s \in j.scopes :
         \/ \E r \in FindExactExistingRole(j.user, s) :
              job' = [job EXCEPT ![h] = stored(s, [r EXCEPT !.policy = j.policy], j.created)]
         \/ /\ FindExactExistingRole(j.user, s) = {} /\ Unused # {}
            /\ job' = [job EXCEPT ![h] =
                         stored(s, [id |-> NewId, user |-> j.user, scope |-> s,
                                    policy |-> j.policy], j.created \union {NewId})]
  BY DEF RolePostFind, Then
<1>4. \A r \in roles : r.id \in j.created => r.scope \notin j.scopes
  BY <1>1 DEF JobTrue
<1>5. PICK row, created :
         /\ job' = [job EXCEPT ![h] = stored(s, row, created)]
         /\ row.scope = s
         /\ \A r \in roles : r.id \in created <=> r.id \in j.created
         /\ row.id \in created => \A r \in roles : ~(r.user = row.user /\ r.scope = s)
  <2>1. ASSUME NEW r \in FindExactExistingRole(j.user, s),
               job' = [job EXCEPT ![h] = stored(s, [r EXCEPT !.policy = j.policy], j.created)]
        PROVE  \E row, created :
                 /\ job' = [job EXCEPT ![h] = stored(s, row, created)]
                 /\ row.scope = s
                 /\ \A t \in roles : t.id \in created <=> t.id \in j.created
                 /\ row.id \in created => \A t \in roles : ~(t.user = row.user /\ t.scope = s)
    <3>1. r \in Role /\ r.scope = s /\ r.id \notin j.created
      BY <1>1, ExactRoleFound
    <3> DEFINE row == [r EXCEPT !.policy = j.policy]
    <3>2. row.scope = s /\ row.id \notin j.created
      BY <3>1 DEF Role
    <3>3. job' = [job EXCEPT ![h] = stored(s, row, j.created)]
      BY <2>1
    <3> HIDE DEF row, stored, j
    <3>4. QED
      BY <3>2, <3>3
  <2>2. ASSUME FindExactExistingRole(j.user, s) = {}, Unused # {},
               job' = [job EXCEPT ![h] =
                         stored(s, [id |-> NewId, user |-> j.user, scope |-> s,
                                    policy |-> j.policy], j.created \union {NewId})]
        PROVE  \E row, created :
                 /\ job' = [job EXCEPT ![h] = stored(s, row, created)]
                 /\ row.scope = s
                 /\ \A t \in roles : t.id \in created <=> t.id \in j.created
                 /\ row.id \in created => \A t \in roles : ~(t.user = row.user /\ t.scope = s)
    <3> DEFINE row == [id |-> NewId, user |-> j.user, scope |-> s, policy |-> j.policy]
    <3>1. row.scope = s /\ row.user = j.user
      OBVIOUS
    <3>2. \A t \in roles : t.id # NewId
      BY <1>1, <2>2, NewIdFresh DEF CopiesInv, Copies
    <3>3. \A t \in roles : ~(t.user = j.user /\ t.scope = s)
      BY <1>1, <2>2, ExactRoleFound
    <3>4. job' = [job EXCEPT ![h] = stored(s, row, j.created \union {NewId})]
      BY <2>2
    <3> DEFINE created == j.created \union {NewId}
    <3>5. \A t \in roles : t.id \in created <=> t.id \in j.created
      BY <3>2
    <3>6. job' = [job EXCEPT ![h] = stored(s, row, created)]
      BY <3>4
    <3> HIDE DEF row, stored, j, created
    <3>7. QED
      BY <3>1, <3>3, <3>5, <3>6
  <2>3. QED
    BY <1>3, <2>1, <2>2
<1>6. /\ job'[h] = stored(s, row, created)
      /\ stored(s, row, created).step = "store" /\ stored(s, row, created).row = row
      /\ stored(s, row, created).created = created
      /\ stored(s, row, created).scopes = j.scopes \ {s}
  BY <1>5 DEF SequentialInv, CopiesInv, AccessTypeOK
<1> HIDE DEF stored, j
<1>7. JobTrue(job[h])'
  <2>1. JobTrue(stored(s, row, created))
    BY <1>4, <1>5, <1>6 DEF JobTrue
  <2>2. QED
    BY <1>2, <1>6, <2>1 DEF JobTrue, RolesOf
<1>8. CacheNames(job[h])'
  <2>1. Undone(job'[h]) = created
    BY <1>6 DEF Undone
  <2>2. QED
    BY <1>1, <1>2, <1>5, <2>1 DEF CacheNames, Undone, Key
<1>9. PoliciesNamed(job[h])'
  BY <1>1, <1>2 DEF PoliciesNamed
<1>10. QED
  BY <1>1, <1>2, <1>7, <1>8, <1>9 DEF SequentialInv, OneRolePerScope

LEMMA SeqStore ==
    ASSUME NEW h \in Threads, SequentialInv(h), CopiesInv',
           RolePostStore(h), job[h].scopes # {}
    PROVE  SequentialInv(h)'
<1> DEFINE j == job[h]
<1> DEFINE n == [step |-> "find", user |-> j.user, scopes |-> j.scopes,
                 policy |-> j.policy, created |-> j.created]
<1>1. /\ j.step = "store" /\ CacheNames(j) /\ JobTrue(j) /\ PoliciesNamed(j) /\ OneRolePerScope
      /\ Undone(j) = j.created /\ CopiesInv /\ j \in Jobs
  BY DEF RolePostStore, SequentialInv, Undone, CopiesInv, AccessTypeOK
<1>2. /\ job' = [job EXCEPT ![h] = n] /\ UNCHANGED <<policies, cachedRoles, cachedPolicies>>
      /\ roles' = IF j.row.id \in j.created THEN roles \union {j.row} ELSE UpdateRecord(j.row)
  BY DEF RolePostStore, Then, cache
<1>3. job'[h] = n /\ n.step = "find" /\ n.created = j.created /\ n.scopes = j.scopes
  BY <1>2 DEF SequentialInv, CopiesInv, AccessTypeOK
<1>4. Undone(n) = j.created
  BY <1>3 DEF Undone
<1>5. j.row \in Role /\ Known(j.row) /\ roles \in SUBSET Role /\ roles' \in SUBSET Role
  BY <1>1, JobFields, CopiesKnown DEF CopiesInv, AccessTypeOK
<1>6. /\ \A r \in roles : r.id \in j.created => r.scope \notin j.scopes
      /\ j.row.scope \notin j.scopes
      /\ j.row.id \in j.created =>
           \A r \in roles : ~(r.user = j.row.user /\ r.scope = j.row.scope)
  BY <1>1 DEF JobTrue
<1> HIDE DEF n, j
<1>7. /\ \A c \in roles' : \/ \E r \in roles : Key(r) = Key(c)
                           \/ c = j.row /\ c.id \in j.created
      /\ \A r \in roles : \E c \in roles' : Key(r) = Key(c)
  <2>1. CASE j.row.id \in j.created
    BY <1>2, <2>1
  <2>2. CASE j.row.id \notin j.created
    BY <1>1, <1>2, <1>5, <2>2, UpdateKeepsKeys
  <2>3. QED
    BY <2>1, <2>2
<1>8. OneRolePerScope'
  <2>1. CASE j.row.id \in j.created
    BY <1>1, <1>2, <1>6, <2>1 DEF OneRolePerScope
  <2>2. CASE j.row.id \notin j.created
    BY <1>1, <1>2, <1>5, <2>2, UpdateOnePerScope DEF OneRolePerScope
  <2>3. QED
    BY <2>1, <2>2
<1>9. CacheNames(job[h])'
  <2>1. \A c \in roles', r \in roles :
           Key(r) = Key(c) => r.id = c.id /\ r.user = c.user
    BY <1>5, KeyFields
  <2>2. ASSUME NEW u \in Users, cachedRoles[u] # {}
        PROVE  /\ \A c \in cachedRoles[u] :
                    \E r \in roles' : r.user = u /\ r.id \notin j.created /\ Key(r) = Key(c)
               /\ \A r \in roles' : r.user = u /\ r.id \notin j.created =>
                    \E c \in cachedRoles[u] : Key(r) = Key(c)
    <3>1. /\ \A c \in cachedRoles[u] :
               \E r \in roles : r.user = u /\ r.id \notin j.created /\ Key(r) = Key(c)
          /\ \A r \in roles : r.user = u /\ r.id \notin j.created =>
               \E c \in cachedRoles[u] : Key(r) = Key(c)
      BY <1>1, <2>2 DEF CacheNames
    <3>2. ASSUME NEW c \in cachedRoles[u]
          PROVE  \E r \in roles' : r.user = u /\ r.id \notin j.created /\ Key(r) = Key(c)
      <4>1. PICK r \in roles : r.user = u /\ r.id \notin j.created /\ Key(r) = Key(c)
        BY <3>1
      <4>2. PICK t \in roles' : Key(r) = Key(t)
        BY <1>7
      <4>3. QED
        BY <2>1, <4>1, <4>2
    <3>3. ASSUME NEW r \in roles', r.user = u, r.id \notin j.created
          PROVE  \E c \in cachedRoles[u] : Key(r) = Key(c)
      <4>1. PICK t \in roles : Key(t) = Key(r)
        BY <1>7, <3>3
      <4>2. QED
        BY <2>1, <3>1, <3>3, <4>1
    <3>4. QED
      BY <3>2, <3>3
  <2>3. Undone(job'[h]) = j.created /\ cachedRoles' = cachedRoles
    BY <1>2, <1>3, <1>4
  <2>4. QED
    BY <2>2, <2>3 DEF CacheNames, Undone, Key
<1>10. JobTrue(job[h])'
  <2>1. \A r \in roles' : r.id \in j.created => r.scope \notin j.scopes
    BY <1>5, <1>6, <1>7, KeyFields
  <2>2. QED
    BY <1>3, <2>1 DEF JobTrue
<1>11. PoliciesNamed(job[h])'
  BY <1>1, <1>2 DEF PoliciesNamed
<1>12. QED
  BY <1>8, <1>9, <1>10, <1>11 DEF SequentialInv

LEMMA SeqPostFails ==
    ASSUME NEW h \in Threads, SequentialInv(h), CopiesInv', RolePostFails(h)
    PROVE  SequentialInv(h)'
<1>1. /\ job[h].step = "store" /\ CacheNames(job[h]) /\ PoliciesNamed(job[h])
      /\ OneRolePerScope /\ Undone(job[h]) = job[h].created
  BY DEF RolePostFails, SequentialInv, Undone
<1>2. /\ job' = [job EXCEPT ![h] = Idle] /\ UNCHANGED <<policies, cachedRoles, cachedPolicies>>
      /\ roles' = {r \in roles : r.id \notin job[h].created}
  BY DEF RolePostFails, Then, cache
<1>3. job'[h] = Idle /\ Idle.step = "idle" /\ Undone(Idle) = {}
  BY <1>2, PlainJobs DEF SequentialInv, CopiesInv, AccessTypeOK, Undone
<1>4. CacheNames(job[h])'
  BY <1>1, <1>2, <1>3 DEF CacheNames, Undone, Key
<1>5. PoliciesNamed(job[h])' /\ JobTrue(job[h])'
  BY <1>1, <1>2, <1>3 DEF PoliciesNamed, JobTrue
<1>6. OneRolePerScope'
  BY <1>1, <1>2 DEF OneRolePerScope
<1>7. QED
  BY <1>4, <1>5, <1>6 DEF SequentialInv

LEMMA SequentialNextInv ==
    ASSUME NEW h, Threads = {h}
    PROVE  SequentialInv(h) /\ [Next]_vars => SequentialInv(h)'
<1> SUFFICES ASSUME SequentialInv(h), [Next]_vars PROVE SequentialInv(h)'
  OBVIOUS
<1>1. h \in Threads /\ CopiesInv'
  BY CopiesNextInv DEF SequentialInv
<1>2. ASSUME Request(h) PROVE SequentialInv(h)'
  BY <1>1, <1>2, SeqRequests, SeqChanges, SeqScopes DEF Request, PolicyRefs
<1>3. ASSUME Step(h) PROVE SequentialInv(h)'
  BY <1>1, <1>3, SeqCacheFills, SeqPlainSteps, SeqFind, SeqChanges, SeqStore, SeqPostFails,
     SeqCreatorRole DEF Step
<1>4. CASE UNCHANGED vars
  <2>1. UNCHANGED <<live, policies, roles, cachedRoles, cachedPolicies, job>>
    BY <1>4 DEF vars, tables, cache
  <2>2. QED
    BY <2>1, <1>1 DEF SequentialInv, OneRolePerScope, CacheNames, Undone, PoliciesNamed,
       JobTrue, RolesOf, Key
<1>5. QED
  BY <1>2, <1>3, <1>4 DEF Next

(***************************************************************************)
(* When requests are served one after the other, a user has one role per   *)
(* scope, although a POST looks for the existing role in the cache, which  *)
(* does not know the roles the POST itself has just created.               *)
(***************************************************************************)
THEOREM OneRolePerScopeTheorem ==
    ASSUME NEW h, Threads = {h}
    PROVE  Spec => []OneRolePerScope
<1>1. Init => SequentialInv(h)
  BY SequentialInitInv
<1>2. SequentialInv(h) => OneRolePerScope
  BY DEF SequentialInv
<1>3. QED
  BY <1>1, <1>2, SequentialNextInv, PTL DEF Spec

(***************************************************************************)
(* When requests are served one after the other, the cache names between   *)
(* two requests exactly the roles a cached user has, also after a batch    *)
(* that failed half way and did not clear it.                              *)
(***************************************************************************)
THEOREM CachedRolesExistTheorem ==
    ASSUME NEW h, Threads = {h}
    PROVE  Spec => []CachedRolesExist
<1>1. Init => SequentialInv(h)
  BY SequentialInitInv
<1>2. SequentialInv(h) => CachedRolesExist
  <2> SUFFICES ASSUME SequentialInv(h), Quiet, NEW u \in Users, cachedRoles[u] # {}
               PROVE  {Key(r) : r \in cachedRoles[u]} = {Key(r) : r \in RolesOf(u)}
    BY DEF CachedRolesExist
  <2>1. Undone(job[h]) = {} /\ job[h].step # "clear"
    BY PlainJobs DEF Quiet, Undone
  <2>2. /\ \A c \in cachedRoles[u] : \E r \in RolesOf(u) : Key(r) = Key(c)
        /\ \A r \in RolesOf(u) : \E c \in cachedRoles[u] : Key(r) = Key(c)
    BY <2>1 DEF SequentialInv, CacheNames, RolesOf
  <2>3. QED
    BY <2>2
<1>3. QED
  BY <1>1, <1>2, SequentialNextInv, PTL DEF Spec

(***************************************************************************)
(* When requests are served one after the other, a cached policy grants    *)
(* between two requests what the stored policy grants.                     *)
(***************************************************************************)
THEOREM CachedPoliciesCurrentTheorem ==
    ASSUME NEW h, Threads = {h}
    PROVE  Spec => []CachedPoliciesCurrent
<1>1. Init => SequentialInv(h)
  BY SequentialInitInv
<1>2. SequentialInv(h) => CachedPoliciesCurrent
  BY PlainJobs DEF SequentialInv, PoliciesNamed, CachedPoliciesCurrent, Quiet
<1>3. QED
  BY <1>1, <1>2, SequentialNextInv, PTL DEF Spec

-----------------------------------------------------------------------------
(* Authorization.  A user has one role on a place, the places of roles     *)
(* exist, and the role on a place the user made is the one it was made     *)
(* with; so a decision about the place can only follow that role.          *)
(***************************************************************************)
Grants == [entity : AllPlaces, venue : AllPlaces \union {None}, policy : Policies]

AuthTypeOK ==
    /\ places \subseteq AllPlaces
    /\ grants \subseteq Grants
    /\ made \in [AllPlaces -> SUBSET Policies]

GrantsPlaced == \A r \in grants : \E p \in places : r.entity = Entity(p) /\ r.venue = Venue(p)

OneGrant ==
    \A r, s \in grants : r.entity = s.entity /\ r.venue = s.venue => r = s

MadeWithRole ==
    \A p \in AllPlaces : made[p] # {} => made[p] = {r.policy : r \in OnPlace(p)}

AuthInv == AuthTypeOK /\ GrantsPlaced /\ OneGrant /\ MadeWithRole

\* The scope of a place is its own.
LEMMA ScopeOfPlace ==
    ASSUME NEW p \in AllPlaces
    PROVE  /\ Entity(p) \in AllPlaces \ AllVenues /\ Venue(p) \in AllVenues \union {None}
           /\ \A q \in AllPlaces : Entity(p) = Entity(q) /\ Venue(p) = Venue(q) => p = q
BY AuthorizationAssumption DEF Entity, Venue

\* A change of the roles on one place.
LEMMA GrantsChange ==
    ASSUME AuthInv, NEW p \in AllPlaces, NEW N, NEW M \in SUBSET Policies,
           N \subseteq Grants,
           \A r \in N : r.entity = Entity(p) /\ r.venue = Venue(p),
           \A r, s \in N : r = s,
           places' \subseteq AllPlaces, places \ {p} \subseteq places',
           N # {} => p \in places',
           grants' = (grants \ OnPlace(p)) \union N,
           made' = [made EXCEPT ![p] = M],
           M # {} => M = {r.policy : r \in N}
    PROVE  AuthInv'
<1>1. AuthTypeOK'
  BY DEF AuthInv, AuthTypeOK
<1>2. \A r \in grants \ OnPlace(p) : ~(r.entity = Entity(p) /\ r.venue = Venue(p))
  BY DEF OnPlace, On
<1>3. GrantsPlaced'
  <2> SUFFICES ASSUME NEW r \in grants'
               PROVE  \E q \in places' : r.entity = Entity(q) /\ r.venue = Venue(q)
    BY DEF GrantsPlaced, Entity, Venue
  <2>1. CASE r \in N
    BY <2>1
  <2>2. CASE r \in grants \ OnPlace(p)
    <3>1. PICK q \in places : r.entity = Entity(q) /\ r.venue = Venue(q)
      BY <2>2 DEF AuthInv, GrantsPlaced
    <3>2. q # p
      BY <1>2, <2>2, <3>1
    <3>3. QED
      BY <3>1, <3>2
  <2>3. QED
    BY <2>1, <2>2
<1>4. OneGrant'
  <2> SUFFICES ASSUME NEW r \in grants', NEW s \in grants',
                      r.entity = s.entity, r.venue = s.venue
               PROVE  r = s
    BY DEF OneGrant
  <2>1. CASE r \in N /\ s \in N
    BY <2>1
  <2>2. CASE r \notin N /\ s \notin N
    BY <2>2 DEF AuthInv, OneGrant
  <2>3. CASE r \in N /\ s \notin N
    BY <1>2, <2>3
  <2>4. CASE r \notin N /\ s \in N
    BY <1>2, <2>4
  <2>5. QED
    BY <2>1, <2>2, <2>3, <2>4
<1>5. OnPlace(p)' = N
  BY <1>2 DEF OnPlace, On, Entity, Venue
<1>6. ASSUME NEW q \in AllPlaces, q # p PROVE OnPlace(q)' = OnPlace(q)
  <2>1. ~(Entity(q) = Entity(p) /\ Venue(q) = Venue(p))
    BY <1>6, ScopeOfPlace
  <2>2. On(Entity(q), Venue(q))' = {r \in grants' : r.entity = Entity(q) /\ r.venue = Venue(q)}
    BY DEF On, Entity, Venue
  <2>3. {r \in grants' : r.entity = Entity(q) /\ r.venue = Venue(q)}
          = {r \in grants : r.entity = Entity(q) /\ r.venue = Venue(q)}
    BY <2>1 DEF OnPlace, On
  <2>4. QED
    BY <2>2, <2>3 DEF OnPlace, On
<1>7. MadeWithRole'
  <2> SUFFICES ASSUME NEW q \in AllPlaces, made'[q] # {}
               PROVE  made'[q] = {r.policy : r \in OnPlace(q)'}
    BY DEF MadeWithRole
  <2>1. CASE q = p
    <3>1. made'[q] = M
      BY <2>1 DEF AuthInv, AuthTypeOK
    <3>2. QED
      BY <1>5, <2>1, <3>1
  <2>2. CASE q # p
    <3>1. made'[q] = made[q]
      BY <2>2 DEF AuthInv, AuthTypeOK
    <3>2. QED
      BY <1>6, <2>2, <3>1 DEF AuthInv, MadeWithRole
  <2>3. QED
    BY <2>1, <2>2
<1>8. QED
  BY <1>1, <1>3, <1>4, <1>7 DEF AuthInv

\* There is no role on a place that is not there.
LEMMA NoGrantYet ==
    ASSUME AuthInv, NEW p \in AllPlaces, p \notin places
    PROVE  OnPlace(p) = {}
<1> SUFFICES ASSUME NEW r \in OnPlace(p) PROVE FALSE
  OBVIOUS
<1>1. r \in grants /\ r.entity = Entity(p) /\ r.venue = Venue(p)
  BY DEF OnPlace, On
<1>2. PICK q \in places : r.entity = Entity(q) /\ r.venue = Venue(q)
  BY <1>1 DEF AuthInv, GrantsPlaced
<1>3. q = p
  BY <1>1, <1>2, ScopeOfPlace DEF AuthInv, AuthTypeOK
<1>4. QED
  BY <1>2, <1>3

LEMMA PlacePostInv ==
    ASSUME AuthInv, NEW p \in AllPlaces, PlacePost(p)
    PROVE  AuthInv'
<1> DEFINE R == ParentRole(p)
<1>1. p \notin places /\ OnPlace(p) = {}
  BY NoGrantYet DEF PlacePost, Creatable
<1>2. R \subseteq grants /\ \A r, s \in R : r = s
  BY DEF ParentRole, On, AuthInv, OneGrant
<1>3. made' = [made EXCEPT ![p] = {r.policy : r \in R}]
  <2>1. (IF p \in AllVenues /\ On(Entity(p), PlaceParent[p]) = {}
         THEN On(Entity(p), None)
         ELSE On(IF p \in AllVenues THEN Entity(p) ELSE PlaceParent[p],
                 IF p \in AllVenues THEN PlaceParent[p] ELSE None)) = R
    <3>1. CASE p \notin AllVenues
      BY <3>1 DEF ParentRole
    <3>2. CASE p \in AllVenues
      <4>1. Entity(p) = PlaceEntity[p]
        BY <3>2 DEF Entity
      <4>2. QED
        BY <3>2, <4>1 DEF ParentRole
    <3>3. QED
      BY <3>1, <3>2
  <2>2. QED
    BY <2>1 DEF PlacePost
<1> HIDE DEF R
<1>4. PICK copied \in (IF R = {} THEN {{}} ELSE {{r} : r \in R}) :
        grants' = grants \union
            {[entity |-> Entity(p), venue |-> Venue(p), policy |-> r.policy] : r \in copied}
  BY DEF PlacePost, R
<1>5. copied = R
  <2>1. CASE R = {}
    BY <1>4, <2>1
  <2>2. CASE R # {}
    BY <1>2, <1>4, <2>2
  <2>3. QED
    BY <2>1, <2>2
<1> DEFINE Copy(r) == [entity |-> Entity(p), venue |-> Venue(p), policy |-> r.policy]
           N == {Copy(r) : r \in R}
           M == {r.policy : r \in R}
<1>6. \A r \in R : Copy(r) \in Grants /\ Copy(r).entity = Entity(p) /\ Copy(r).venue = Venue(p)
                   /\ Copy(r).policy = r.policy
  BY <1>2, ScopeOfPlace, AuthorizationAssumption DEF Grants, AuthInv, AuthTypeOK
<1>7. M \in SUBSET Policies
  BY <1>2 DEF AuthInv, AuthTypeOK, Grants
<1>8. grants' = (grants \ OnPlace(p)) \union N
  BY <1>1, <1>4, <1>5
<1> HIDE DEF Copy
<1>9. /\ N \subseteq Grants /\ \A r \in N : r.entity = Entity(p) /\ r.venue = Venue(p)
      /\ \A r, s \in N : r = s
  BY <1>2, <1>6
<1>10. M = {r.policy : r \in N}
  BY <1>6
<1>11. places' \subseteq AllPlaces /\ places \ {p} \subseteq places' /\ p \in places'
  BY DEF PlacePost, AuthInv, AuthTypeOK
<1> HIDE DEF N
<1>12. PICK Q \in SUBSET Policies : Q = M
  BY <1>7
<1>13. made' = [made EXCEPT ![p] = Q]
  BY <1>3, <1>12
<1>14. Q = {r.policy : r \in N}
  BY <1>10, <1>12
<1> HIDE DEF M
<1>15. QED
  BY <1>8, <1>9, <1>11, <1>13, <1>14, GrantsChange

LEMMA AuthStepInv ==
    AuthInv /\ [AuthNext]_authVars => AuthInv'
<1> SUFFICES ASSUME AuthInv, [AuthNext]_authVars PROVE AuthInv'
  OBVIOUS
<1>1. ASSUME UNCHANGED <<grants, made>>, places' \subseteq AllPlaces, places \subseteq places'
      PROVE  AuthInv'
  <2>1. AuthTypeOK' /\ OneGrant' /\ GrantsPlaced'
    BY <1>1 DEF AuthInv, AuthTypeOK, OneGrant, GrantsPlaced, Entity, Venue
  <2>2. MadeWithRole'
    BY <1>1 DEF AuthInv, MadeWithRole, OnPlace, On, Entity, Venue
  <2>3. QED
    BY <2>1, <2>2 DEF AuthInv
<1>2. ASSUME NEW p \in AllPlaces, PlacePost(p) PROVE AuthInv'
  BY <1>2, PlacePostInv
<1>3. ASSUME NEW p \in AllPlaces, RootPlacePost(p) PROVE AuthInv'
  BY <1>1, <1>3 DEF RootPlacePost, AuthInv, AuthTypeOK
<1>4. ASSUME NEW p \in AllPlaces,
             grants' = grants \ OnPlace(p), made' = [made EXCEPT ![p] = {}],
             places' \subseteq AllPlaces, places \ {p} \subseteq places'
      PROVE  AuthInv'
  <2>1. PICK N, Q : N = {} /\ Q = {}
    OBVIOUS
  <2>2. grants' = (grants \ OnPlace(p)) \union N /\ made' = [made EXCEPT ![p] = Q]
    BY <1>4, <2>1
  <2>3. /\ N \subseteq Grants /\ \A r \in N : r.entity = Entity(p) /\ r.venue = Venue(p)
        /\ (\A r, s \in N : r = s) /\ (N # {} => p \in places')
        /\ Q # {} => Q = {r.policy : r \in N}
    BY <2>1
  <2>4. QED
    BY <1>4, <2>1, <2>2, <2>3, GrantsChange
<1>5. ASSUME NEW p \in AllPlaces, PlaceDelete(p) PROVE AuthInv'
  BY <1>4, <1>5 DEF PlaceDelete, AuthInv, AuthTypeOK
<1>6. ASSUME NEW p \in AllPlaces, RoleTaken(p) PROVE AuthInv'
  BY <1>4, <1>6 DEF RoleTaken, AuthInv, AuthTypeOK
<1>7. ASSUME NEW p \in AllPlaces, NEW q \in Policies, RoleGiven(p, q) PROVE AuthInv'
  <2>1. PICK g : g = [entity |-> Entity(p), venue |-> Venue(p), policy |-> q]
    OBVIOUS
  <2>2. g \in Grants /\ g.entity = Entity(p) /\ g.venue = Venue(p)
    BY <2>1, ScopeOfPlace, AuthorizationAssumption DEF Grants
  <2>3. PICK N, Q : N = {g} /\ Q = {}
    OBVIOUS
  <2>4. grants' = (grants \ OnPlace(p)) \union N /\ made' = [made EXCEPT ![p] = Q]
        /\ p \in places /\ places' = places /\ places \subseteq AllPlaces
    BY <1>7, <2>1, <2>3 DEF RoleGiven, AuthInv, AuthTypeOK
  <2>5. /\ N \subseteq Grants /\ \A r \in N : r.entity = Entity(p) /\ r.venue = Venue(p)
        /\ (\A r, s \in N : r = s) /\ (N # {} => p \in places')
        /\ Q # {} => Q = {r.policy : r \in N}
    BY <2>2, <2>3, <2>4
  <2>6. QED
    BY <2>3, <2>4, <2>5, GrantsChange
<1>8. CASE UNCHANGED authVars
  BY <1>1, <1>8 DEF authVars, AuthInv, AuthTypeOK
<1>9. QED
  BY <1>2, <1>3, <1>5, <1>6, <1>7, <1>8 DEF AuthNext

LEMMA AuthInvAlways == AuthInit /\ [][AuthNext]_authVars => []AuthInv
<1>1. AuthInit => AuthInv
  BY DEF AuthInit, AuthInv, AuthTypeOK, GrantsPlaced, OneGrant, MadeWithRole
<1>2. QED
  BY <1>1, AuthStepInv, PTL

\* What a request that names a place is about.
LEMMA PlaceTargetOf ==
    ASSUME AuthInv, NEW p \in places, NEW path,
           path = IF p \in AllVenues THEN "venue" ELSE "entity"
    PROVE  PlaceTarget(path, p) = Target(Entity(p), Venue(p))
BY DEF PlaceTarget

LEMMA BoundToPlace ==
    ASSUME AuthInv, NEW p \in places, NEW method, NEW path,
           path = IF p \in AllVenues THEN "venue" ELSE "entity"
    PROVE  ResolveTargetContext(BoundTo(method, path, p)) = Target(Entity(p), Venue(p))
<1>1. BoundTo(method, path, p).id = p /\ BoundTo(method, path, p).path = path
  BY DEF BoundTo
<1>2. Bound(BoundTo(method, path, p))
  BY <1>1, AuthorizationAssumption DEF Bound, AuthInv, AuthTypeOK
<1>3. BoundTarget(path, p) = Target(Entity(p), Venue(p))
  <2>1. PlaceTarget(path, p) = Target(Entity(p), Venue(p)) /\ path \in {"entity", "venue"}
    BY PlaceTargetOf
  <2>2. BoundTarget(path, p) = PlaceTarget(path, p)
    BY <2>1 DEF BoundTarget, PlacedPaths, OperatorPaths
  <2>3. QED
    BY <2>1, <2>2
<1>4. BoundTarget(path, p).found
  BY <1>3 DEF Target
<1>5. QED
  BY <1>1, <1>2, <1>3, <1>4 DEF ResolveTargetContext

\* Whoever creates an entity or a venue may do to it what the role it was created with
\* allows and nothing else, for every arrangement of the places and every set of policies.
THEOREM CreatorKeepsAccessTheorem ==
    AuthInit /\ [][AuthNext]_authVars => []CreatorKeepsAccess
<1>1. AuthInv => CreatorKeepsAccess
  <2> SUFFICES ASSUME AuthInv, NEW p \in places, made[p] # {}, NEW method \in Methods,
                      NEW path, path = IF p \in AllVenues THEN "venue" ELSE "entity"
               PROVE  RoleIsAuthorized(BoundTo(method, path, p))
                        <=> \E q \in made[p] : PolicyAllows(q, path, method)
    BY DEF CreatorKeepsAccess
  <2> DEFINE req == BoundTo(method, path, p)
             allows(S) == \E r \in S : PolicyAllows(r.policy, path, method)
  <2>1. p \in AllPlaces /\ made[p] = {r.policy : r \in OnPlace(p)} /\ OnPlace(p) # {}
    BY DEF AuthInv, AuthTypeOK, MadeWithRole
  <2>2. GetResourceName(path) = path /\ path # None /\ path \notin OpenToRead
    BY PathsAssumption DEF GetResourceName, OpenToRead, Paths
  <2>3. req.path = path /\ req.method = method
    BY DEF BoundTo
  <2>4. ResolveTargetContext(req) = Target(Entity(p), Venue(p))
    BY BoundToPlace
  <2> HIDE DEF req
  <2>5. RoleIsAuthorized(req) <=>
          IF Venue(p) = None THEN allows({r \in grants : r.entity = Entity(p) /\ r.venue = None})
          ELSE IF {r \in grants : r.venue = Venue(p)} # {}
               THEN allows({r \in grants : r.venue = Venue(p)})
               ELSE /\ allows({r \in grants : r.entity = Entity(p) /\ r.venue = None})
                    /\ ~Endless(Entity(p)) /\ Venue(p) \in AllowedVenues(Entity(p))
    BY <2>2, <2>3, <2>4 DEF RoleIsAuthorized, Target
  <2>6. CASE Venue(p) = None
    <3>1. OnPlace(p) = {r \in grants : r.entity = Entity(p) /\ r.venue = None}
      BY <2>6 DEF OnPlace, On
    <3>2. QED
      BY <2>1, <2>5, <2>6, <3>1 DEF req
  <2>7. CASE Venue(p) # None
    <3>1. \A r \in grants : r.venue = Venue(p) => r.entity = Entity(p)
      <4> SUFFICES ASSUME NEW r \in grants, r.venue = Venue(p) PROVE r.entity = Entity(p)
        OBVIOUS
      <4>1. PICK q \in places : r.entity = Entity(q) /\ r.venue = Venue(q)
        BY DEF AuthInv, GrantsPlaced
      <4>2. q = p
        BY <2>7, <4>1 DEF Venue
      <4>3. QED
        BY <4>1, <4>2
    <3>2. OnPlace(p) = {r \in grants : r.venue = Venue(p)}
      BY <3>1 DEF OnPlace, On
    <3>3. QED
      BY <2>1, <2>5, <2>7, <3>2 DEF req
  <2>8. QED
    BY <2>6, <2>7
<1>2. QED
  BY <1>1, AuthInvAlways, PTL

-----------------------------------------------------------------------------
(* The decision on a record and the decision on the place it belongs to.   *)
(***************************************************************************)
LEMMA SameTargetSameAnswer ==
    ASSUME NEW a, NEW b, a.path = b.path, a.method = b.method,
           ResolveTargetContext(a) = ResolveTargetContext(b),
           HasScopeConstraint(a) <=> HasScopeConstraint(b)
    PROVE  RoleIsAuthorized(a) <=> RoleIsAuthorized(b)
BY DEF RoleIsAuthorized

\* The paths of the records, and that of a tag's overrides.
RecordPaths == {"inventory", "configurationOverrides"} \union PlacedPaths \union OperatorPaths

LEMMA ScopedPaths ==
    ASSUME NEW path \in RecordPaths
    PROVE  GetResourceName(path) \in
             {"entity", "venue", "inventory", "configuration", "managementRole", "contact",
              "location", "managementPolicy", "map", "serviceClass", "operator", "overrides",
              "subscriber", "subscriberDevice"}
BY DEF RecordPaths, PlacedPaths, OperatorPaths, GetResourceName

\* A request that names a scope in its query is about that scope.
LEMMA AboutScope ==
    ASSUME NEW method, NEW path \in RecordPaths, NEW name \in {"venue", "entity", "operatorId"},
           NEW id
    PROVE  /\ About(method, path, name, id).path = path
           /\ About(method, path, name, id).method = method
           /\ HasScopeConstraint(About(method, path, name, id))
           /\ ~Bound(About(method, path, name, id))
           /\ ResolveTargetContext(About(method, path, name, id))
                = CandidateTarget(Candidates(About(method, path, name, id)))
<1> DEFINE req == About(method, path, name, id)
<1>1. /\ req.path = path /\ req.method = method /\ req.id = None
      /\ req.query = [x \in {name} |-> id] /\ req.body = <<>>
  BY DEF About
<1>2. DOMAIN req.query = {name}
  BY <1>1
<1> HIDE DEF req
<1>3. HasScopeConstraint(req)
  BY <1>1, <1>2, ScopedPaths DEF HasScopeConstraint
<1>4. ~Bound(req)
  BY <1>1 DEF Bound
<1>5. ResolveTargetContext(req) = CandidateTarget(Candidates(req))
  BY <1>4 DEF ResolveTargetContext
<1>6. QED
  BY <1>1, <1>3, <1>4, <1>5 DEF req

LEMMA AboutCandidates ==
    ASSUME NEW method, NEW path \in RecordPaths, NEW name \in {"venue", "entity", "operatorId"},
           NEW id
    PROVE  \E c : /\ Candidates(About(method, path, name, id)) = c
                  /\ name = "venue" /\ id # None => c.venue = id
                  /\ name = "entity" /\ id # None => c.venue = None /\ c.entity = id
                  /\ name = "operatorId" => c.venue = None /\ c.entity = None /\ c.operator = id
<1> DEFINE req == About(method, path, name, id)
<1>1. /\ req.path = path /\ req.query = [x \in {name} |-> id] /\ req.body = <<>>
  BY DEF About
<1>2. DOMAIN req.query = {name} /\ req.query[name] = id /\ DOMAIN req.body = {}
  BY <1>1
<1>3. path \notin {"entity", "venue"}
  BY DEF RecordPaths, PlacedPaths, OperatorPaths
<1> HIDE DEF req
<1>4. /\ Member(req.query, "entity") = IF name = "entity" THEN id ELSE None
      /\ Member(req.query, "venue") = IF name = "venue" THEN id ELSE None
      /\ Member(req.query, "operatorId") = IF name = "operatorId" THEN id ELSE None
      /\ Member(req.query, "registrationId") = None
      /\ Member(req.query, "subscriberId") = None
      /\ \A x : Member(req.body, x) = None
  BY <1>2 DEF Member
<1>5. SubscriberOperator(None) = None
  <2>1. <<"subscriber", None>> \notin DOMAIN PlaceOfRow
    BY RowsAssumption
  <2>2. QED
    BY <2>1 DEF SubscriberOperator, Exists
<1> DEFINE query == [entity |-> IF name = "entity" THEN id ELSE None,
                     venue |-> IF name = "venue" THEN id ELSE None,
                     operator |-> IF name = "operatorId" THEN id ELSE None]
           nothing == [entity |-> None, venue |-> None, operator |-> None]
<1>6. Candidates(req) = IF query # nothing THEN query ELSE nothing
  BY <1>1, <1>3, <1>4, <1>5 DEF Candidates, Or
<1>7. Candidates(req) = query
  BY <1>6
<1>8. /\ query.venue = (IF name = "venue" THEN id ELSE None)
      /\ query.entity = (IF name = "entity" THEN id ELSE None)
      /\ query.operator = (IF name = "operatorId" THEN id ELSE None)
  OBVIOUS
<1> HIDE DEF query
<1>9. QED
  BY <1>7, <1>8 DEF req

LEMMA AboutVenue ==
    ASSUME AuthInv, NEW method, NEW path \in RecordPaths, NEW v \in places, v \in AllVenues
    PROVE  ResolveTargetContext(About(method, path, "venue", v)) = Target(PlaceEntity[v], v)
<1>1. v # None
  BY AuthorizationAssumption DEF AuthInv, AuthTypeOK
<1>2. PICK c : Candidates(About(method, path, "venue", v)) = c /\ c.venue = v
  BY <1>1, AboutCandidates
<1>3. CandidateTarget(c) = Target(PlaceEntity[v], v)
  BY <1>1, <1>2, PlaceTargetOf DEF CandidateTarget, Entity, Venue
<1>4. QED
  BY <1>2, <1>3, AboutScope

LEMMA AboutEntity ==
    ASSUME AuthInv, NEW method, NEW path \in RecordPaths, NEW e \in places, e \notin AllVenues
    PROVE  ResolveTargetContext(About(method, path, "entity", e)) = Target(e, None)
<1>1. e # None
  BY AuthorizationAssumption DEF AuthInv, AuthTypeOK
<1>2. PICK c : Candidates(About(method, path, "entity", e)) = c /\ c.venue = None /\ c.entity = e
  BY <1>1, AboutCandidates
<1>3. CandidateTarget(c) = Target(e, None)
  BY <1>1, <1>2, PlaceTargetOf DEF CandidateTarget, Entity, Venue
<1>4. QED
  BY <1>2, <1>3, AboutScope

LEMMA AboutOperator ==
    ASSUME AuthInv, NEW method, NEW path \in RecordPaths, NEW o \in OperatorIds \union {None}
    PROVE  ResolveTargetContext(About(method, path, "operatorId", o)) = OperatorTarget(o)
<1>1. o \notin places
  BY AuthorizationAssumption DEF AuthInv, AuthTypeOK
<1>2. PICK c : /\ Candidates(About(method, path, "operatorId", o)) = c
               /\ c.venue = None /\ c.entity = None /\ c.operator = o
  BY AboutCandidates
<1>3. CandidateTarget(c) = OperatorTarget(o)
  BY <1>1, <1>2 DEF CandidateTarget
<1>4. QED
  BY <1>2, <1>3, AboutScope

\* A request bound to a record is about what BoundTarget finds.
LEMMA BoundScope ==
    ASSUME NEW method, NEW path \in RecordPaths, NEW id, id \notin {None, "0"},
           BoundTarget(path, id).found \/ path # "managementPolicy"
    PROVE  /\ BoundTo(method, path, id).path = path
           /\ BoundTo(method, path, id).method = method
           /\ HasScopeConstraint(BoundTo(method, path, id))
           /\ ResolveTargetContext(BoundTo(method, path, id)) = BoundTarget(path, id)
<1> DEFINE req == BoundTo(method, path, id)
<1>1. req.path = path /\ req.method = method /\ req.id = id
  BY DEF BoundTo
<1> HIDE DEF req
<1>2. Bound(req)
  BY <1>1 DEF Bound
<1>3. HasScopeConstraint(req)
  BY <1>1, <1>2, ScopedPaths DEF HasScopeConstraint
<1>4. path # "managementPolicy" => ~PostContinues(req)
  BY <1>1 DEF PostContinues, RecordPaths, PlacedPaths, OperatorPaths
<1>5. ResolveTargetContext(req) = BoundTarget(path, id)
  BY <1>1, <1>2, <1>4 DEF ResolveTargetContext
<1>6. QED
  BY <1>1, <1>3, <1>5 DEF req

\* What BoundTarget finds for a record that is there.
LEMMA RecordTarget ==
    ASSUME NEW k \in DOMAIN PlaceOfRow, Exists(k[1], k[2]), NEW path \in RecordPaths,
           path = k[1] \/ (path = "configurationOverrides" /\ k[1] = "inventory"),
           NEW entity, NEW venue, NEW operator,
           entity = PlaceOfRow[k].entity, venue = PlaceOfRow[k].venue,
           operator = PlaceOfRow[k].operator
    PROVE  /\ entity \in (places \ AllVenues) \union {None}
           /\ venue \in (places \intersect AllVenues) \union {None}
           /\ operator \in OperatorIds \union {None}
           /\ k[2] \notin {None, "0"}
           /\ k[1] \in OperatorPaths => entity = None /\ venue = None
           /\ k[1] \in PlacedPaths => operator = None
           /\ k[1] \in {"contact", "location"} => venue = None
           /\ BoundTarget(path, k[2]) =
                IF path \in OperatorPaths THEN OperatorTarget(operator)
                ELSE IF path \in PlacedPaths THEN Target(entity, venue)
                ELSE IF venue # None
                THEN Target(IF entity = None THEN PlaceEntity[venue] ELSE entity, venue)
                ELSE IF entity # None THEN Target(entity, None)
                ELSE IF path = "inventory" THEN OperatorTarget(operator) ELSE Unresolved
<1> DEFINE row == PlaceOfRow[k]
<1>1. /\ k = <<k[1], k[2]>> /\ k[2] \notin {None, "0"}
      /\ row.entity \in (AllPlaces \ AllVenues) \union {None}
      /\ row.venue \in AllVenues \union {None}
      /\ row.operator \in OperatorIds \union {None}
      /\ \/ k[1] = "inventory"
         \/ k[1] \in {"configuration", "map", "managementPolicy"} /\ row.operator = None
         \/ k[1] \in {"contact", "location"} /\ row.venue = None /\ row.operator = None
         \/ /\ k[1] \in {"serviceClass", "subscriberDevice", "subscriber"}
            /\ row.entity = None /\ row.venue = None
  BY RowsAssumption
<1>2. PlaceOfRow[<<k[1], k[2]>>] = row
  BY <1>1
<1>3. row.entity \in places \union {None} /\ row.venue \in places \union {None}
  BY <1>2 DEF Exists
<1>4. CASE k[1] \in OperatorPaths
  <2>1. path = k[1] /\ path \notin {"inventory", "configurationOverrides"} \union PlacedPaths
    BY <1>4 DEF OperatorPaths, PlacedPaths
  <2>2. BoundTarget(path, k[2]) = RowTarget(path, k[2])
    BY <1>4, <2>1 DEF BoundTarget, OperatorPaths, PlacedPaths
  <2>3. RowTarget(path, k[2]) = OperatorTarget(operator)
    BY <1>2, <1>4, <2>1 DEF RowTarget
  <2>4. QED
    BY <1>1, <1>3, <1>4, <2>1, <2>2, <2>3 DEF OperatorPaths, PlacedPaths
<1>5. CASE k[1] \in PlacedPaths
  <2>1. path = k[1] /\ path \notin {"inventory", "configurationOverrides"} \union OperatorPaths
    BY <1>5 DEF OperatorPaths, PlacedPaths
  <2>2. BoundTarget(path, k[2]) = RowTarget(path, k[2])
    BY <1>5, <2>1 DEF BoundTarget, OperatorPaths, PlacedPaths
  <2>3. RowTarget(path, k[2]) = Target(entity, venue)
    BY <1>2, <1>5, <2>1 DEF RowTarget
  <2>4. QED
    BY <1>1, <1>3, <1>5, <2>1, <2>2, <2>3 DEF OperatorPaths, PlacedPaths
<1>6. CASE k[1] = "inventory"
  <2>1. path \in {"inventory", "configurationOverrides"}
        /\ path \notin OperatorPaths \union PlacedPaths
        /\ k[1] \notin OperatorPaths \union PlacedPaths \union {"contact", "location"}
    BY <1>6 DEF OperatorPaths, PlacedPaths
  <2>2. BoundTarget(path, k[2]) = TagTarget(path, k[2])
    BY <2>1 DEF BoundTarget
  <2>3. TagTarget(path, k[2]) =
           IF venue # None
           THEN Target(IF entity = None THEN PlaceEntity[venue] ELSE entity, venue)
           ELSE IF entity # None THEN Target(entity, None)
           ELSE IF path = "inventory" THEN OperatorTarget(operator) ELSE Unresolved
    BY <1>2, <1>6 DEF TagTarget
  <2>4. QED
    BY <1>1, <1>3, <2>1, <2>2, <2>3
<1>7. QED
  BY <1>1, <1>4, <1>5, <1>6 DEF OperatorPaths, PlacedPaths

\* A record of neither an entity, a venue nor an operator is out of reach of all roles,
\* whichever way a request comes to it.
LEMMA NowhereDenied ==
    ASSUME AuthInv, NEW method \in Methods, NEW path \in PlacedPaths, NEW a, NEW b,
           a.path = path, b.path = path, a.method = method, b.method = method,
           ResolveTargetContext(a) = Target(None, None),
           ResolveTargetContext(b) = Unresolved, HasScopeConstraint(b)
    PROVE  RoleIsAuthorized(a) <=> RoleIsAuthorized(b)
<1>1. \A r \in grants : r.entity # None
  BY AuthorizationAssumption DEF AuthInv, AuthTypeOK, Grants
<1>2. Target(None, None).found /\ Target(None, None).venue = None
      /\ Target(None, None).entity = None /\ ~Unresolved.found
  BY DEF Target, Unresolved
<1>3. QED
  BY <1>1, <1>2 DEF RoleIsAuthorized

\* A role on the venue decides, whichever entity the venue is looked up with.
LEMMA OnVenueDecides ==
    ASSUME NEW a, NEW b, NEW e, NEW f, NEW venue, venue # None,
           a.path = b.path, a.method = b.method,
           ResolveTargetContext(a) = Target(e, venue), ResolveTargetContext(b) = Target(f, venue),
           \E r \in grants : r.venue = venue
    PROVE  RoleIsAuthorized(a) <=> RoleIsAuthorized(b)
<1>1. \A x : Target(x, venue).found /\ Target(x, venue).venue = venue
  BY DEF Target
<1>2. QED
  BY <1>1 DEF RoleIsAuthorized

\* Without one, the roles on the entity have to allow the method.
LEMMA EntityDecides ==
    ASSUME NEW a, NEW b, NEW e, NEW venue, venue # None, a.path = b.path, a.method = b.method,
           ResolveTargetContext(a) = Target(e, venue), ResolveTargetContext(b) = Target(e, None),
           \A r \in grants : r.venue # venue, RoleIsAuthorized(a)
    PROVE  RoleIsAuthorized(b)
<1>1. \A x : Target(e, x).found /\ Target(e, x).venue = x /\ Target(e, x).entity = e
  BY DEF Target
<1>2. QED
  BY <1>1 DEF RoleIsAuthorized

\* What the two say of a record and a path to it.
LEMMA RecordAnswers ==
    ASSUME AuthInv, NEW k \in DOMAIN PlaceOfRow, Exists(k[1], k[2]), NEW method \in Methods,
           NEW path \in RecordPaths,
           path = k[1] \/ (path = "configurationOverrides" /\ k[1] = "inventory"),
           NEW entity, NEW venue, NEW operator,
           entity = PlaceOfRow[k].entity, venue = PlaceOfRow[k].venue,
           operator = PlaceOfRow[k].operator,
           path = "configurationOverrides" => entity # None \/ venue # None,
           NEW a, a = BoundTo(method, path, k[2]),
           NEW b, b = IF venue # None THEN About(method, path, "venue", venue)
                      ELSE IF entity # None THEN About(method, path, "entity", entity)
                      ELSE About(method, path, "operatorId", operator)
    PROVE  LET inTwo == entity # None /\ venue # None /\ entity # PlaceEntity[venue]
               onVenue == \E r \in grants : r.venue = venue
           IN  /\ ~(k[1] \in {"configuration", "map", "managementPolicy"} /\ venue # None)
                    /\ (inTwo => onVenue) => (RoleIsAuthorized(a) <=> RoleIsAuthorized(b))
               /\ k[1] = "inventory" /\ inTwo /\ ~onVenue /\ RoleIsAuthorized(a) =>
                    RoleIsAuthorized(About(method, path, "entity", entity))
<1> DEFINE inTwo == entity # None /\ venue # None /\ entity # PlaceEntity[venue]
           onVenue == \E r \in grants : r.venue = venue
<1> HIDE DEF inTwo, onVenue
<1>3. /\ entity \in (places \ AllVenues) \union {None}
      /\ venue \in (places \intersect AllVenues) \union {None}
      /\ operator \in OperatorIds \union {None}
      /\ k[2] \notin {None, "0"}
      /\ k[1] \in OperatorPaths => entity = None /\ venue = None
      /\ k[1] \in PlacedPaths => operator = None
      /\ k[1] \in {"contact", "location"} => venue = None
      /\ BoundTarget(path, k[2]) =
           IF path \in OperatorPaths THEN OperatorTarget(operator)
           ELSE IF path \in PlacedPaths THEN Target(entity, venue)
           ELSE IF venue # None THEN Target(IF entity = None THEN PlaceEntity[venue] ELSE entity, venue)
           ELSE IF entity # None THEN Target(entity, None)
           ELSE IF path = "inventory" THEN OperatorTarget(operator) ELSE Unresolved
  BY RecordTarget
<1>4. /\ "managementPolicy" \in PlacedPaths /\ PlacedPaths \intersect OperatorPaths = {}
      /\ {"inventory", "configurationOverrides"} \intersect (PlacedPaths \union OperatorPaths) = {}
      /\ PlacedPaths = {"configuration", "map", "managementPolicy", "contact", "location"}
  BY DEF PlacedPaths, OperatorPaths
<1>5. BoundTarget(path, k[2]).found \/ path # "managementPolicy"
  BY <1>3, <1>4 DEF Target
<1>6. /\ a.path = path /\ a.method = method /\ HasScopeConstraint(a)
      /\ ResolveTargetContext(a) = BoundTarget(path, k[2])
  BY <1>3, <1>5, BoundScope
<1>7. b.path = path /\ b.method = method /\ HasScopeConstraint(b)
  BY AboutScope
<1>8. ResolveTargetContext(b) =
         IF venue # None THEN Target(PlaceEntity[venue], venue)
         ELSE IF entity # None THEN Target(entity, None) ELSE OperatorTarget(operator)
  <2>1. CASE venue # None
    BY <1>3, <2>1, AboutVenue
  <2>2. CASE venue = None /\ entity # None
    BY <1>3, <2>2, AboutEntity
  <2>3. CASE venue = None /\ entity = None
    BY <1>3, <2>3, AboutOperator
  <2>4. QED
    BY <2>1, <2>2, <2>3
<1>9. ASSUME ~(k[1] \in {"configuration", "map", "managementPolicy"} /\ venue # None),
             inTwo => onVenue
      PROVE  RoleIsAuthorized(a) <=> RoleIsAuthorized(b)
  <2>1. path \in PlacedPaths => venue = None /\ k[1] \in PlacedPaths
    BY <1>3, <1>4, <1>9
  <2>2. CASE path \in PlacedPaths /\ entity = None
    <3>1. ResolveTargetContext(a) = Target(None, None)
      BY <1>3, <1>4, <1>6, <2>1, <2>2
    <3>2. OperatorTarget(None) = Unresolved
      BY AuthorizationAssumption DEF OperatorTarget
    <3>3. ResolveTargetContext(b) = Unresolved
      BY <1>3, <1>8, <2>1, <2>2, <3>2
    <3>4. QED
      BY <1>6, <1>7, <2>2, <3>1, <3>3, NowhereDenied
  <2>3. CASE inTwo /\ path \notin PlacedPaths
    <3>1. venue # None /\ entity # None /\ path \notin OperatorPaths
      BY <1>3, <1>4, <2>3 DEF inTwo
    <3>2. ResolveTargetContext(a) = Target(entity, venue)
      BY <1>3, <1>6, <2>3, <3>1
    <3>3. ResolveTargetContext(b) = Target(PlaceEntity[venue], venue)
      BY <1>8, <3>1
    <3>4. QED
      BY <1>6, <1>7, <1>9, <2>3, <3>1, <3>2, <3>3, OnVenueDecides DEF onVenue
  <2>4. CASE ~inTwo /\ path \in {"inventory", "configurationOverrides"}
    <3>1. venue # None => entity = None \/ entity = PlaceEntity[venue]
      BY <2>4 DEF inTwo
    <3>2. ResolveTargetContext(a) = ResolveTargetContext(b)
      BY <1>3, <1>4, <1>6, <1>8, <2>4, <3>1
    <3>3. QED
      BY <1>6, <1>7, <3>2, SameTargetSameAnswer
  <2>5. CASE path \in OperatorPaths
    <3>1. ResolveTargetContext(a) = ResolveTargetContext(b)
      BY <1>3, <1>4, <1>6, <1>8, <2>5
    <3>2. QED
      BY <1>6, <1>7, <3>1, SameTargetSameAnswer
  <2>6. CASE path \in PlacedPaths /\ entity # None
    <3>1. ResolveTargetContext(a) = ResolveTargetContext(b)
      BY <1>3, <1>4, <1>6, <1>8, <2>1, <2>6
    <3>2. QED
      BY <1>6, <1>7, <3>1, SameTargetSameAnswer
  <2>7. QED
    BY <2>2, <2>3, <2>4, <2>5, <2>6 DEF RecordPaths
<1>10. ASSUME k[1] = "inventory", inTwo, ~onVenue, RoleIsAuthorized(a)
       PROVE  RoleIsAuthorized(About(method, path, "entity", entity))
  <2>1. venue # None /\ entity # None /\ path \in {"inventory", "configurationOverrides"}
    BY <1>10 DEF inTwo
  <2>2. ResolveTargetContext(a) = Target(entity, venue)
    BY <1>3, <1>4, <1>6, <2>1
  <2>3. PICK c : c = About(method, path, "entity", entity)
    OBVIOUS
  <2>4. c.path = path /\ c.method = method /\ ResolveTargetContext(c) = Target(entity, None)
    BY <1>3, <2>1, <2>3, AboutScope, AboutEntity
  <2>5. RoleIsAuthorized(c)
    BY <1>6, <1>10, <2>1, <2>2, <2>4, EntityDecides DEF onVenue
  <2>6. QED
    BY <2>3, <2>5
<1>11. QED
  BY <1>9, <1>10 DEF inTwo, onVenue

\* A record is governed as the place it belongs to, for every arrangement of the venues,
\* every set of records, roles and policies: ResolveTargetContext comes to the same scope
\* from the record as from the query, but for a tag in two places, which the roles on its
\* venue decide, or else those on its own entity.
THEOREM RecordsFollowTheirPlaceTheorem ==
    AuthInit /\ [][AuthNext]_authVars => []RecordsFollowTheirPlace
<1>1. AuthInv => RecordsFollowTheirPlace
  <2> SUFFICES ASSUME AuthInv, NEW k \in DOMAIN PlaceOfRow, Exists(k[1], k[2]),
                      NEW method \in Methods,
                      NEW path \in {k[1]} \union
                             IF k[1] = "inventory" /\ {PlaceOfRow[k].entity, PlaceOfRow[k].venue} # {None}
                             THEN {"configurationOverrides"} ELSE {}
               PROVE  LET row == PlaceOfRow[k]
                          onVenueOnly == k[1] \in {"configuration", "map", "managementPolicy"}
                                           /\ row.venue # None
                          inTwo == /\ {row.entity, row.venue} \intersect {None} = {}
                                   /\ row.entity # PlaceEntity[row.venue]
                          onVenue == \E r \in grants : r.venue = row.venue
                          named == IF row.venue # None THEN About(method, path, "venue", row.venue)
                                   ELSE IF row.entity # None
                                   THEN About(method, path, "entity", row.entity)
                                   ELSE About(method, path, "operatorId", row.operator)
                          allowed == RoleIsAuthorized(BoundTo(method, path, k[2]))
                      IN  /\ ~onVenueOnly /\ (inTwo => onVenue) => (allowed <=> RoleIsAuthorized(named))
                          /\ k[1] = "inventory" /\ inTwo /\ ~onVenue /\ allowed =>
                               RoleIsAuthorized(About(method, path, "entity", row.entity))
    BY DEF RecordsFollowTheirPlace
  <2>1. k[1] \in RecordPaths /\ k[1] # "configurationOverrides" /\ "configurationOverrides" \in RecordPaths
    BY RowsAssumption DEF RecordPaths, PlacedPaths, OperatorPaths
  <2>2. PICK entity, venue, operator :
          entity = PlaceOfRow[k].entity /\ venue = PlaceOfRow[k].venue
            /\ operator = PlaceOfRow[k].operator
    OBVIOUS
  <2>3. /\ path \in RecordPaths
        /\ path = k[1] \/ (path = "configurationOverrides" /\ k[1] = "inventory")
        /\ path = "configurationOverrides" => entity # None \/ venue # None
    BY <2>1, <2>2
  <2>4. PICK a, b : /\ a = BoundTo(method, path, k[2])
                    /\ b = IF venue # None THEN About(method, path, "venue", venue)
                           ELSE IF entity # None THEN About(method, path, "entity", entity)
                           ELSE About(method, path, "operatorId", operator)
    OBVIOUS
  <2>5. LET inTwo == entity # None /\ venue # None /\ entity # PlaceEntity[venue]
            onVenue == \E r \in grants : r.venue = venue
        IN  /\ ~(k[1] \in {"configuration", "map", "managementPolicy"} /\ venue # None)
                 /\ (inTwo => onVenue) => (RoleIsAuthorized(a) <=> RoleIsAuthorized(b))
            /\ k[1] = "inventory" /\ inTwo /\ ~onVenue /\ RoleIsAuthorized(a) =>
                 RoleIsAuthorized(About(method, path, "entity", entity))
    BY <2>2, <2>3, <2>4, RecordAnswers
  <2>6. {entity, venue} \intersect {None} = {} <=> entity # None /\ venue # None
    OBVIOUS
  <2>7. QED
    BY <2>2, <2>4, <2>5, <2>6
<1>2. QED
  BY <1>1, AuthInvAlways, PTL

-----------------------------------------------------------------------------
(* The lists.  A request for a list that names no scope is let through     *)
(* when any role allows it; one that names a scope, when the role on the   *)
(* scope does, which is what the list goes by too.                         *)
(***************************************************************************)
ListedPaths == {"venue", "inventory", "operator", "entity"}

ListRequest(path, query) ==
    [method |-> "GET", path |-> path, id |-> None, query |-> query, body |-> <<>>]

\* The role on a venue decides, or else the one on its entity.
RoleAllows(path, entity, venue) ==
    LET onVenue == {r \in grants : r.venue = venue}
        onEntity == {r \in grants : r.entity = entity /\ r.venue = None}
    IN  IF venue = None \/ onVenue = {} THEN \E r \in onEntity : Allows(r, path)
        ELSE \E r \in onVenue : Allows(r, path)

\* The places of roles.
LEMMA RolesArePlaced ==
    ASSUME AuthInv, NEW r \in grants
    PROVE  /\ r.entity \in AllPlaces \ AllVenues
           /\ r.venue = None => r.entity \in places
           /\ r.venue # None => r.venue \in places \intersect AllVenues /\ r.entity = PlaceEntity[r.venue]
<1>1. PICK p \in places : r.entity = Entity(p) /\ r.venue = Venue(p)
  BY DEF AuthInv, GrantsPlaced
<1>2. p \in AllPlaces /\ None \notin AllPlaces
  BY AuthorizationAssumption DEF AuthInv, AuthTypeOK
<1>3. QED
  BY <1>1, <1>2, AuthorizationAssumption DEF Entity, Venue

\* There is one role on a venue, and one on an entity.
LEMMA OneRole ==
    ASSUME AuthInv, NEW r \in grants, NEW s \in grants
    PROVE  /\ r.venue # None /\ r.venue = s.venue => r = s
           /\ r.venue = None /\ s.venue = None /\ r.entity = s.entity => r = s
<1>1. r.venue # None /\ r.venue = s.venue => r.entity = s.entity
  BY RolesArePlaced
<1>2. QED
  BY <1>1 DEF AuthInv, OneGrant

\* What Reached reaches.
LEMMA ReachedIsLeast ==
    ASSUME NEW next, NEW from \in SUBSET DOMAIN next,
           \A q \in DOMAIN next : next[q] \subseteq DOMAIN next
    PROVE  /\ Reached(from, next) \subseteq DOMAIN next /\ from \subseteq Reached(from, next)
           /\ \A q \in Reached(from, next) : next[q] \subseteq Reached(from, next)
           /\ \A S \in SUBSET DOMAIN next :
                 from \subseteq S /\ (\A q \in S : next[q] \subseteq S) => Reached(from, next) \subseteq S
BY DEF Reached

\* GetDescendantVenues comes to the venues of the entity and all below them.
LEMMA AllowedVenuesOf ==
    ASSUME NEW e
    PROVE  /\ VenuesOf(e) \subseteq AllowedVenues(e)
           /\ AllowedVenues(e) \subseteq places \intersect AllVenues
           /\ \A v \in AllowedVenues(e) : ChildVenues[v] \subseteq AllowedVenues(e)
<1>1. DOMAIN ChildVenues = places \intersect AllVenues /\ VenuesOf(e) \in SUBSET (places \intersect AllVenues)
  BY DEF ChildVenues, VenuesOf
<1>2. \A q \in places \intersect AllVenues : ChildVenues[q] \subseteq places \intersect AllVenues
  BY DEF ChildVenues
<1>3. QED
  BY <1>1, <1>2, ReachedIsLeast DEF AllowedVenues

\* What is decided by the roles on an entity, of its venues, is decided.
Decided(e) == Endless(e) => \A r \in EntityRoles : r.entity # e

\* What is decided of a request that is about a scope: nothing is let through that the
\* role does not allow, and in a venue that is looked up with its own entity all that is.
LEMMA ScopedDecision ==
    ASSUME AuthInv, NEW req, NEW path \in ListedPaths, req.path = path, req.method = "GET",
           NEW entity, NEW venue \in (places \intersect AllVenues) \union {None},
           ResolveTargetContext(req) = Target(entity, venue)
    PROVE  /\ RoleIsAuthorized(req) => RoleAllows(path, entity, venue)
           /\ venue = None \/ (entity = PlaceEntity[venue] /\ Decided(entity)) =>
                (RoleIsAuthorized(req) <=> RoleAllows(path, entity, venue))
<1>1. GetResourceName(path) = path /\ path # None /\ path \notin OpenToRead
  BY PathsAssumption DEF GetResourceName, OpenToRead, Paths, ListedPaths
<1>2. /\ Target(entity, venue).found /\ Target(entity, venue).entity = entity
      /\ Target(entity, venue).venue = venue
  BY DEF Target
<1>3. venue # None /\ entity = PlaceEntity[venue] => venue \in AllowedVenues(entity)
  BY AllowedVenuesOf DEF VenuesOf
<1>4. Decided(entity) => ~Endless(entity) \/ \A r \in grants : ~(r.entity = entity /\ r.venue = None)
  BY DEF Decided, EntityRoles, VenueRoles
<1>5. QED
  BY <1>1, <1>2, <1>3, <1>4 DEF RoleIsAuthorized, RoleAllows, Allows

\* What is decided of a list without a scope.
LEMMA UnscopedDecision ==
    ASSUME AuthInv, NEW path \in ListedPaths, NEW query,
           DOMAIN query \intersect {"entity", "venue", "operatorId", "registrationId", "subscriberId"} = {}
    PROVE  MayList(path, query) <=> \E r \in grants : Allows(r, path)
<1> DEFINE req == ListRequest(path, query)
<1>1. /\ req.path = path /\ req.method = "GET" /\ req.id = None
      /\ req.query = query /\ req.body = <<>>
  BY DEF ListRequest
<1>2. MayList(path, query) <=> RoleIsAuthorized(req)
  BY DEF MayList, ListRequest
<1> HIDE DEF req
<1>3. DOMAIN req.body = {}
  BY <1>1
<1>4. /\ \A x : Member(req.body, x) = None
      /\ \A x \in {"entity", "venue", "operatorId", "registrationId", "subscriberId"} :
            Member(req.query, x) = None
  BY <1>1, <1>3 DEF Member
<1>5. SubscriberOperator(None) = None
  <2>1. <<"subscriber", None>> \notin DOMAIN PlaceOfRow
    BY RowsAssumption
  <2>2. QED
    BY <2>1 DEF SubscriberOperator, Exists
<1> DEFINE nothing == [entity |-> None, venue |-> None, operator |-> None]
<1>6. Candidates(req) = nothing
  BY <1>4, <1>5 DEF Candidates, Or
<1>7. CandidateTarget(nothing) = Unresolved
  BY AuthorizationAssumption DEF CandidateTarget, OperatorTarget, AuthInv, AuthTypeOK
<1>8. ResolveTargetContext(req) = Unresolved
  BY <1>1, <1>6, <1>7 DEF ResolveTargetContext, Bound
<1>9. ~HasScopeConstraint(req)
  BY <1>1, <1>3 DEF HasScopeConstraint, Bound
<1>10. GetResourceName(path) = path /\ path # None /\ path \notin OpenToRead
  BY PathsAssumption DEF GetResourceName, OpenToRead, Paths, ListedPaths
<1>11. ~Unresolved.found
  BY DEF Unresolved
<1>12. QED
  BY <1>1, <1>2, <1>8, <1>9, <1>10, <1>11 DEF RoleIsAuthorized, Allows

LEMMA RoleAllowsSome ==
    ASSUME NEW path, NEW entity, NEW venue, RoleAllows(path, entity, venue)
    PROVE  \E r \in grants : Allows(r, path)
BY DEF RoleAllows

\* Which of them decides: with at most one role on each place, a place is allowed when
\* its role does so.
LEMMA RoleAllowsVenue ==
    ASSUME AuthInv, NEW path, NEW v \in AllVenues
    PROVE  RoleAllows(path, PlaceEntity[v], v) <=>
             /\ \A r \in grants : r.venue = v => Allows(r, path)
             /\ \E r \in grants : /\ Allows(r, path)
                                  /\ r.venue = v \/ (r.venue = None /\ r.entity = PlaceEntity[v])
<1>1. v # None
  BY AuthorizationAssumption
<1>2. \A r, s \in grants : r.venue = v /\ s.venue = v => r = s
  BY <1>1, OneRole
<1>3. QED
  BY <1>1, <1>2 DEF RoleAllows

LEMMA RoleAllowsEntity ==
    ASSUME NEW path, NEW e
    PROVE  RoleAllows(path, e, None) <=> \E r \in EntityRoles : r.entity = e /\ Allows(r, path)
BY DEF RoleAllows, EntityRoles, VenueRoles

\* RESTAPI_venue_list_handler.
LEMMA ReadableVenue ==
    ASSUME AuthInv, NEW v \in places \intersect AllVenues
    PROVE  /\ Readable("venue", v) => RoleAllows("venue", PlaceEntity[v], v)
           /\ Decided(PlaceEntity[v]) => (Readable("venue", v) <=> RoleAllows("venue", PlaceEntity[v], v))
<1>1. ResolveTargetContext(BoundTo("GET", "venue", v)) = Target(PlaceEntity[v], v)
  BY BoundToPlace DEF Entity, Venue
<1>2. BoundTo("GET", "venue", v).path = "venue" /\ BoundTo("GET", "venue", v).method = "GET"
  BY DEF BoundTo
<1>3. QED
  BY <1>1, <1>2, ScopedDecision DEF Readable, ListedPaths

LEMMA VenueListReadable ==
    ASSUME AuthInv, \A e : Decided(e)
    PROVE  LET readable == {v \in places \intersect AllVenues : Readable("venue", v)}
               listed == IF MayList("venue", <<>>) THEN VenueList ELSE {}
           IN  /\ readable \subseteq listed
               /\ \A v \in listed \ readable : \E r \in EntityRoles :
                     Allows(r, "venue") /\ r.entity # PlaceEntity[v] /\ v \in AllowedVenues(r.entity)
<1>1. MayList("venue", <<>>) <=> \E r \in grants : Allows(r, "venue")
  <2>1. DOMAIN <<>> = {}
    OBVIOUS
  <2>2. QED
    BY <2>1, UnscopedDecision DEF ListedPaths
<1>2. VenueList \subseteq places \intersect AllVenues
  BY AllowedVenuesOf, RolesArePlaced DEF VenueList, VenueRoles
<1>3. ASSUME NEW v \in places \intersect AllVenues
      PROVE  /\ RoleAllows("venue", PlaceEntity[v], v) => v \in VenueList
             /\ v \in VenueList /\ ~RoleAllows("venue", PlaceEntity[v], v) =>
                  \E r \in EntityRoles :
                     Allows(r, "venue") /\ r.entity # PlaceEntity[v] /\ v \in AllowedVenues(r.entity)
  <2>1. v \in AllowedVenues(PlaceEntity[v])
    BY AllowedVenuesOf DEF VenuesOf
  <2>2. v # None
    BY AuthorizationAssumption
  <2>3. v \in VenueList <=>
          /\ \/ \E r \in grants : r.venue # None /\ Allows(r, "venue") /\ v = r.venue
             \/ \E r \in grants : r.venue = None /\ Allows(r, "venue") /\ v \in AllowedVenues(r.entity)
          /\ ~\E r \in grants : r.venue # None /\ ~Allows(r, "venue") /\ v = r.venue
    BY DEF VenueList, VenueRoles, EntityRoles
  <2>4. RoleAllows("venue", PlaceEntity[v], v) => v \in VenueList
    BY <2>1, <2>2, <2>3, RoleAllowsVenue
  <2>5. ASSUME v \in VenueList, ~RoleAllows("venue", PlaceEntity[v], v)
        PROVE  \E r \in EntityRoles :
                  Allows(r, "venue") /\ r.entity # PlaceEntity[v] /\ v \in AllowedVenues(r.entity)
    <3>1. \A r \in grants : r.venue = v => Allows(r, "venue")
      BY <2>2, <2>3, <2>5
    <3>2. \A r \in grants : Allows(r, "venue") =>
             r.venue # v /\ ~(r.venue = None /\ r.entity = PlaceEntity[v])
      BY <2>5, <3>1, RoleAllowsVenue
    <3>3. PICK r \in grants : r.venue = None /\ Allows(r, "venue") /\ v \in AllowedVenues(r.entity)
      BY <2>3, <2>5, <3>2
    <3>4. QED
      BY <3>2, <3>3 DEF EntityRoles, VenueRoles
  <2>6. QED
    BY <2>4, <2>5
<1>4. \A v \in places \intersect AllVenues : Readable("venue", v) <=> RoleAllows("venue", PlaceEntity[v], v)
  BY ReadableVenue
<1>5. QED
  BY <1>1, <1>2, <1>3, <1>4, RoleAllowsSome

\* RESTAPI_operators_list_handler.
LEMMA OperatorEntityOf ==
    ASSUME NEW o \in OperatorIds
    PROVE  /\ OperatorEntity(o) \in AllPlaces \ AllVenues /\ OperatorOf[OperatorEntity(o)] = o
           /\ \A e \in AllPlaces \ AllVenues : OperatorOf[e] = o => e = OperatorEntity(o)
<1>1. PICK e \in DOMAIN OperatorOf : OperatorOf[e] = o /\ o # None
  BY DEF OperatorIds
<1>2. OperatorEntity(o) \in DOMAIN OperatorOf /\ OperatorOf[OperatorEntity(o)] = o
  BY <1>1 DEF OperatorEntity
<1>3. QED
  BY <1>1, <1>2, ListingsAssumption, AuthorizationAssumption

LEMMA OperatorListReadable ==
    ASSUME AuthInv
    PROVE  (IF MayList("operator", <<>>) THEN OperatorList ELSE {})
             = {o \in OperatorIds : OperatorEntity(o) \in places /\ Readable("operator", o)}
<1>1. MayList("operator", <<>>) <=> \E r \in grants : Allows(r, "operator")
  <2>1. DOMAIN <<>> = {}
    OBVIOUS
  <2>2. QED
    BY <2>1, UnscopedDecision DEF ListedPaths
<1>2. ASSUME NEW o \in OperatorIds
      PROVE  Readable("operator", o) <=> RoleAllows("operator", OperatorEntity(o), None)
  <2> DEFINE req == BoundTo("GET", "operator", o)
  <2>1. req.path = "operator" /\ req.method = "GET" /\ req.id = o
    BY DEF BoundTo
  <2>2. Bound(req)
    BY <2>1, AuthorizationAssumption DEF Bound
  <2>3. BoundTarget("operator", o) = Target(OperatorEntity(o), None)
    BY DEF BoundTarget, OperatorTarget, PlacedPaths, OperatorPaths
  <2>4. Target(OperatorEntity(o), None).found
    BY DEF Target
  <2> HIDE DEF req
  <2>5. ResolveTargetContext(req) = Target(OperatorEntity(o), None)
    BY <2>1, <2>2, <2>3, <2>4 DEF ResolveTargetContext
  <2>6. RoleIsAuthorized(req) <=> RoleAllows("operator", OperatorEntity(o), None)
    BY <2>1, <2>5, ScopedDecision DEF ListedPaths
  <2>7. QED
    BY <2>6 DEF Readable, req
<1>3. OperatorList \subseteq OperatorIds
  <2>1. ASSUME NEW r \in grants, OperatorOf[r.entity] # None PROVE OperatorOf[r.entity] \in OperatorIds
    BY <2>1, RolesArePlaced, AuthorizationAssumption DEF OperatorIds
  <2>2. QED
    BY <2>1 DEF OperatorList, EntityRoles
<1>4. ASSUME NEW o \in OperatorIds
      PROVE  o \in OperatorList <=>
               OperatorEntity(o) \in places /\ RoleAllows("operator", OperatorEntity(o), None)
  <2>1. o # None
    BY DEF OperatorIds
  <2>2. o \in OperatorList <=> \E r \in EntityRoles : Allows(r, "operator") /\ o = OperatorOf[r.entity]
    BY <2>1 DEF OperatorList
  <2>3. \A r \in EntityRoles : r.entity \in places /\ r.entity \in AllPlaces \ AllVenues
    BY RolesArePlaced DEF EntityRoles, VenueRoles
  <2>4. QED
    BY <2>2, <2>3, RoleAllowsEntity, OperatorEntityOf
<1>5. QED
  BY <1>1, <1>2, <1>3, <1>4, RoleAllowsSome

\* RESTAPI_inventory_list_handler: where a tag is and whether it is in scope.
LEMMA TagInScope ==
    ASSUME AuthInv, NEW t, Exists("inventory", t)
    PROVE  LET entity == Tag(t).entity
               venue == Tag(t).venue
           IN  /\ t \in Tags
               /\ entity \in (places \ AllVenues) \union {None}
               /\ venue \in (places \intersect AllVenues) \union {None}
               /\ InScope(t) <=>
                    \/ venue # None /\ RoleAllows("inventory", PlaceEntity[venue], venue)
                    \/ entity # None /\ RoleAllows("inventory", entity, None)
               /\ (entity # None \/ venue # None) /\ Readable("inventory", t) => InScope(t)
               /\ OnePlace(t) /\ (venue # None => Decided(PlaceEntity[venue])) =>
                    (InScope(t) <=> Readable("inventory", t))
<1> DEFINE k == <<"inventory", t>>
<1>1. k \in DOMAIN PlaceOfRow /\ Exists(k[1], k[2]) /\ k[1] = "inventory" /\ k[2] = t
  BY DEF Exists
<1>2. PICK entity, venue, operator :
        entity = PlaceOfRow[k].entity /\ venue = PlaceOfRow[k].venue
          /\ operator = PlaceOfRow[k].operator
  OBVIOUS
<1>3. Tag(t).entity = entity /\ Tag(t).venue = venue
  BY <1>2 DEF Tag
<1>4. "inventory" \in RecordPaths /\ "inventory" \notin OperatorPaths \union PlacedPaths
  BY DEF RecordPaths, OperatorPaths, PlacedPaths
<1> HIDE DEF k
<1>5. /\ entity \in (places \ AllVenues) \union {None}
      /\ venue \in (places \intersect AllVenues) \union {None}
      /\ k[2] \notin {None, "0"}
      /\ BoundTarget("inventory", t) =
           IF venue # None
           THEN Target(IF entity = None THEN PlaceEntity[venue] ELSE entity, venue)
           ELSE IF entity # None THEN Target(entity, None) ELSE OperatorTarget(operator)
  BY <1>1, <1>2, <1>4, RecordTarget
<1>6. OnePlace(t) <=> (entity = None) # (venue = None)
  BY <1>3 DEF OnePlace
<1>7. t \in Tags
  BY <1>1 DEF Tags
<1>8. venue \in TagVenues <=> venue # None /\ RoleAllows("inventory", PlaceEntity[venue], venue)
  <2>1. CASE venue = None
    <3>1. \A e : None \notin VenuesOf(e)
      BY AuthorizationAssumption DEF VenuesOf
    <3>2. QED
      BY <2>1, <3>1 DEF TagVenues, VenueRoles
  <2>2. CASE venue # None
    <3>1. \A e : venue \in VenuesOf(e) <=> PlaceEntity[venue] = e
      BY <1>5, <2>2 DEF VenuesOf
    <3>2. venue \in TagVenues <=>
            /\ \/ \E r \in grants : r.venue # None /\ Allows(r, "inventory") /\ venue = r.venue
               \/ \E r \in grants : r.venue = None /\ Allows(r, "inventory") /\ venue \in VenuesOf(r.entity)
            /\ ~\E r \in grants : r.venue # None /\ ~Allows(r, "inventory") /\ venue = r.venue
      BY DEF TagVenues, AllowedEntities, EntityRoles, VenueRoles
    <3>3. QED
      BY <1>5, <2>2, <3>1, <3>2, RoleAllowsVenue
  <2>3. QED
    BY <2>1, <2>2
<1>9. entity \in AllowedEntities <=> entity # None /\ RoleAllows("inventory", entity, None)
  <2>1. \A r \in EntityRoles : r.entity # None
    BY RolesArePlaced, AuthorizationAssumption DEF EntityRoles
  <2>2. QED
    BY <2>1, RoleAllowsEntity DEF AllowedEntities
<1>10. /\ entity # None \/ venue # None =>
            (Readable("inventory", t) =>
               RoleAllows("inventory", IF entity = None THEN PlaceEntity[venue] ELSE entity, venue))
       /\ venue # None /\ entity = None /\ Decided(PlaceEntity[venue]) =>
            (Readable("inventory", t) <=> RoleAllows("inventory", PlaceEntity[venue], venue))
       /\ venue = None /\ entity # None =>
            (Readable("inventory", t) <=> RoleAllows("inventory", entity, None))
  <2> DEFINE req == BoundTo("GET", "inventory", t)
  <2>1. /\ req.path = "inventory" /\ req.method = "GET"
        /\ ResolveTargetContext(req) = BoundTarget("inventory", t)
    BY <1>1, <1>4, <1>5, BoundScope
  <2> HIDE DEF req
  <2>2. "inventory" \in ListedPaths
    BY DEF ListedPaths
  <2>3. PICK e : e = IF entity = None THEN PlaceEntity[venue] ELSE entity
    OBVIOUS
  <2>4. CASE venue # None
    <3>1. ResolveTargetContext(req) = Target(e, venue)
      BY <1>5, <2>1, <2>3, <2>4
    <3>2. /\ RoleIsAuthorized(req) => RoleAllows("inventory", e, venue)
          /\ e = PlaceEntity[venue] /\ Decided(e) =>
               (RoleIsAuthorized(req) <=> RoleAllows("inventory", e, venue))
      BY <1>5, <2>1, <2>2, <3>1, ScopedDecision
    <3>3. QED
      BY <2>3, <2>4, <3>2 DEF Readable, req
  <2>5. CASE venue = None /\ entity # None
    <3>1. ResolveTargetContext(req) = Target(entity, None)
      BY <1>5, <2>1, <2>5
    <3>2. RoleIsAuthorized(req) <=> RoleAllows("inventory", entity, None)
      BY <2>1, <2>2, <3>1, ScopedDecision
    <3>3. QED
      BY <2>5, <3>2 DEF Readable, req
  <2>6. QED
    BY <2>4, <2>5
<1>11. InScope(t) <=>
         \/ venue # None /\ RoleAllows("inventory", PlaceEntity[venue], venue)
         \/ entity # None /\ RoleAllows("inventory", entity, None)
  BY <1>3, <1>8, <1>9 DEF InScope
<1>12. (entity # None \/ venue # None) /\ Readable("inventory", t) => InScope(t)
  <2>1. venue # None /\ RoleAllows("inventory", entity, venue) =>
          RoleAllows("inventory", PlaceEntity[venue], venue) \/ RoleAllows("inventory", entity, None)
    BY DEF RoleAllows
  <2>2. QED
    BY <1>10, <1>11, <2>1
<1>13. OnePlace(t) /\ (venue # None => Decided(PlaceEntity[venue])) =>
         (InScope(t) <=> Readable("inventory", t))
  BY <1>6, <1>10, <1>11
<1>14. QED
  BY <1>3, <1>5, <1>7, <1>11, <1>12, <1>13

\* A query that names a scope.
LEMMA ListAbout ==
    ASSUME NEW name, NEW id, NEW query, DOMAIN query = {name}, query[name] = id,
           query = [x \in DOMAIN query |-> query[x]]
    PROVE  MayList("inventory", query) <=> RoleIsAuthorized(About("GET", "inventory", name, id))
<1>1. query = [x \in {name} |-> id]
  OBVIOUS
<1>2. QED
  BY <1>1 DEF MayList, About

LEMMA QueryOfTag ==
    ASSUME AuthInv, \A e : Decided(e), NEW query \in Queries, NEW t, t \in Selected(query),
           Exists("inventory", t), InScope(t), OnePlace(t) \/ query = <<>>
    PROVE  MayList("inventory", query) /\ QueryInScope(query)
<1>1. PICK entity, venue : entity = Tag(t).entity /\ venue = Tag(t).venue
  OBVIOUS
<1>2. /\ entity \in (places \ AllVenues) \union {None}
      /\ venue \in (places \intersect AllVenues) \union {None}
      /\ venue = None \/ entity = None \/ query = <<>>
      /\ \/ venue # None /\ RoleAllows("inventory", PlaceEntity[venue], venue)
         \/ entity # None /\ RoleAllows("inventory", entity, None)
  BY <1>1, TagInScope DEF OnePlace
<1>3. "inventory" \in RecordPaths /\ "inventory" \in ListedPaths
  BY DEF RecordPaths, ListedPaths
<1>4. \E r \in grants : Allows(r, "inventory")
  BY <1>2, RoleAllowsSome
<1>5. InScope(t) <=> entity \in AllowedEntities \/ venue \in TagVenues
  BY <1>1 DEF InScope
<1>6. None \notin AllowedEntities /\ None \notin TagVenues
  <2>1. \A r \in grants : r.entity # None
    BY RolesArePlaced, AuthorizationAssumption
  <2>2. \A e : None \notin VenuesOf(e)
    BY AuthorizationAssumption DEF VenuesOf
  <2>3. QED
    BY <2>1, <2>2 DEF AllowedEntities, TagVenues, EntityRoles, VenueRoles
<1>7. CASE query = <<>>
  <2>1. DOMAIN query = {}
    BY <1>7
  <2>2. MayList("inventory", query)
    BY <1>3, <1>4, <2>1, UnscopedDecision
  <2>3. QED
    BY <2>1, <2>2 DEF QueryInScope
<1>8. CASE \E e \in AllPlaces \ AllVenues : query = [entity |-> e]
  <2>1. PICK e \in AllPlaces \ AllVenues : query = [entity |-> e]
    BY <1>8
  <2>2. /\ DOMAIN query = {"entity"} /\ query["entity"] = e
        /\ query = [x \in DOMAIN query |-> query[x]]
    BY <2>1
  <2>3. entity = e
    BY <1>1, <2>2 DEF Selected
  <2>4. e # None /\ venue = None /\ e \in places \ AllVenues
    BY <1>2, <2>1, <2>2, <2>3, AuthorizationAssumption
  <2> DEFINE req == About("GET", "inventory", "entity", e)
  <2>5. /\ req.path = "inventory" /\ req.method = "GET"
        /\ ResolveTargetContext(req) = Target(e, None)
    BY <1>3, <2>4, AboutScope, AboutEntity
  <2> HIDE DEF req
  <2>6. RoleIsAuthorized(req)
    BY <1>2, <1>3, <2>3, <2>4, <2>5, ScopedDecision
  <2>7. MayList("inventory", query)
    BY <2>2, <2>6, ListAbout DEF req
  <2>8. e \in AllowedEntities
    BY <1>5, <1>6, <2>3, <2>4
  <2>9. QED
    BY <2>2, <2>7, <2>8 DEF QueryInScope
<1>9. CASE \E v \in AllVenues : query = [venue |-> v]
  <2>1. PICK v \in AllVenues : query = [venue |-> v]
    BY <1>9
  <2>2. /\ DOMAIN query = {"venue"} /\ query["venue"] = v
        /\ query = [x \in DOMAIN query |-> query[x]]
    BY <2>1
  <2>3. venue = v
    BY <1>1, <2>2 DEF Selected
  <2>4. v # None /\ entity = None /\ v \in places \intersect AllVenues
    BY <1>2, <2>1, <2>2, <2>3, AuthorizationAssumption
  <2> DEFINE req == About("GET", "inventory", "venue", v)
  <2>5. /\ req.path = "inventory" /\ req.method = "GET"
        /\ ResolveTargetContext(req) = Target(PlaceEntity[v], v)
    BY <1>3, <2>4, AboutScope, AboutVenue
  <2> HIDE DEF req
  <2>6. RoleIsAuthorized(req)
    BY <1>2, <1>3, <2>3, <2>4, <2>5, ScopedDecision
  <2>7. MayList("inventory", query)
    BY <2>2, <2>6, ListAbout DEF req
  <2>8. v \in TagVenues
    BY <1>5, <1>6, <2>3, <2>4
  <2>9. QED
    BY <2>2, <2>7, <2>8 DEF QueryInScope
<1>10. CASE \E o \in OperatorIds : query = [operatorId |-> o]
  <2>1. PICK o \in OperatorIds : query = [operatorId |-> o]
    BY <1>10
  <2>2. /\ DOMAIN query = {"operatorId"} /\ query["operatorId"] = o
        /\ query = [x \in DOMAIN query |-> query[x]]
    BY <2>1
  <2>3. entity = OperatorEntity(o) /\ QueriedOperator(o) = OperatorEntity(o)
    BY <1>1, <2>2 DEF Selected, QueriedOperator
  <2>4. entity # None /\ venue = None
    BY <1>2, <2>2, <2>3, OperatorEntityOf, AuthorizationAssumption
  <2> DEFINE req == About("GET", "inventory", "operatorId", o)
  <2>5. /\ req.path = "inventory" /\ req.method = "GET"
        /\ ResolveTargetContext(req) = Target(entity, None)
    BY <1>3, <2>3, AboutScope, AboutOperator DEF OperatorTarget
  <2> HIDE DEF req
  <2>6. RoleIsAuthorized(req)
    BY <1>2, <1>3, <2>4, <2>5, ScopedDecision
  <2>7. MayList("inventory", query)
    BY <2>2, <2>6, ListAbout DEF req
  <2>8. QueriedOperator(o) \in AllowedEntities
    BY <1>5, <1>6, <2>3, <2>4
  <2>9. QED
    BY <2>2, <2>7, <2>8 DEF QueryInScope
<1>11. CASE query = [unassigned |-> "true"]
  <2>1. DOMAIN query = {"unassigned"}
    BY <1>11
  <2>2. entity = None /\ venue = None
    BY <1>1, <2>1 DEF Selected
  <2>3. QED
    BY <1>2, <2>2
<1>12. CASE \E u \in Tags : query = [select |-> {u}]
  <2>1. DOMAIN query = {"select"}
    BY <1>12
  <2>2. MayList("inventory", query)
    BY <1>3, <1>4, <2>1, UnscopedDecision
  <2>3. QED
    BY <2>1, <2>2 DEF QueryInScope
<1>13. QED
  BY <1>7, <1>8, <1>9, <1>10, <1>11, <1>12 DEF Queries

\* What the lists of venues, operators and inventory show and what a GET of the single row
\* lets the user read, for every arrangement of the venues, every set of records, roles
\* and policies: how far each list handler and RoleIsAuthorized come to the same role.
THEOREM ListsShowReadableTheorem ==
    AuthInit /\ [][AuthNext]_authVars => []ListsShowReadable
<1>1. AuthInv => ListsShowReadable
  <2> SUFFICES ASSUME AuthInv, Finite PROVE ListsShowReadable
    BY DEF ListsShowReadable
  <2>1. \A e : Decided(e)
    BY DEF Decided, Finite
  <2> DEFINE placed == {t \in Tags : Exists("inventory", t) /\ {Tag(t).entity, Tag(t).venue} # {None}}
             readable == {t \in placed : Readable("inventory", t)}
             single == {t \in Tags : OnePlace(t)}
             listed(query) == IF MayList("inventory", query) THEN InventoryList(query) ELSE {}
  <2>2. \A t : Exists("inventory", t) => t \in Tags
    BY TagInScope
  <2>3. \A t : {Tag(t).entity, Tag(t).venue} # {None} <=> Tag(t).entity # None \/ Tag(t).venue # None
    OBVIOUS
  <2>4. ASSUME NEW query \in Queries
        PROVE  listed(query) \intersect single = Selected(query) \intersect readable \intersect single
    <3>1. \A t \in Selected(query) : Exists("inventory", t) /\ OnePlace(t) =>
             /\ InScope(t) => MayList("inventory", query) /\ QueryInScope(query)
             /\ InScope(t) <=> Readable("inventory", t)
             /\ t \in placed
      BY <2>1, <2>2, <2>3, QueryOfTag, TagInScope DEF OnePlace
    <3>2. \A t : t \in listed(query) <=> /\ MayList("inventory", query) /\ QueryInScope(query)
                                         /\ t \in Selected(query) /\ Exists("inventory", t) /\ InScope(t)
      BY DEF InventoryList
    <3> HIDE DEF listed
    <3>3. QED
      BY <3>1, <3>2
  <2>5. readable \subseteq listed(<<>>)
    <3> SUFFICES ASSUME NEW t \in readable PROVE t \in listed(<<>>)
      OBVIOUS
    <3>1. t \in Tags /\ Exists("inventory", t) /\ InScope(t)
      BY <2>3, TagInScope
    <3>2. <<>> \in Queries /\ DOMAIN <<>> = {}
      BY DEF Queries
    <3>3. t \in Selected(<<>>)
      BY <3>1, <3>2 DEF Selected
    <3>4. MayList("inventory", <<>>) /\ QueryInScope(<<>>)
      BY <2>1, <3>1, <3>2, <3>3, QueryOfTag
    <3>5. QED
      BY <3>1, <3>3, <3>4 DEF InventoryList
  <2> HIDE DEF placed, readable, single, listed
  <2>6. QED
    BY <2>1, <2>4, <2>5, VenueListReadable, OperatorListReadable DEF ListsShowReadable, placed, readable, single, listed
<1>2. QED
  BY <1>1, AuthInvAlways, PTL

-----------------------------------------------------------------------------
(* The tree.                                                               *)
(***************************************************************************)
LEMMA AncestorsOf ==
    ASSUME NEW v \in AllVenues
    PROVE  Line(v) \subseteq AllVenues
<1>1. \A q \in AllVenues : ParentVenues[q] \subseteq AllVenues
  BY ListingsAssumption DEF ParentVenues
<1>2. DOMAIN ParentVenues = AllVenues
  BY DEF ParentVenues
<1>3. Ancestors(v) \subseteq AllVenues
  BY <1>1, <1>2, ReachedIsLeast DEF Ancestors
<1>4. QED
  BY <1>3 DEF Line

\* What is added with an entity is below it.
LEMMA WithDescendantsOf ==
    ASSUME NEW e, NEW shown
    PROVE  /\ WithDescendants(VenuesOf(e), shown) \subseteq AllowedVenues(e)
           /\ VenuesOf(e) \subseteq shown \union WithDescendants(VenuesOf(e), shown)
<1> DEFINE next == [v \in places \intersect AllVenues |-> ChildVenues[v] \ shown]
<1>1. /\ DOMAIN next = places \intersect AllVenues
      /\ \A q \in places \intersect AllVenues :
            next[q] = ChildVenues[q] \ shown /\ next[q] \subseteq places \intersect AllVenues
  BY DEF ChildVenues
<1>2. VenuesOf(e) \ shown \in SUBSET (places \intersect AllVenues)
  BY DEF VenuesOf
<1>3. /\ AllowedVenues(e) \in SUBSET (places \intersect AllVenues)
      /\ VenuesOf(e) \ shown \subseteq AllowedVenues(e)
      /\ \A q \in AllowedVenues(e) : ChildVenues[q] \subseteq AllowedVenues(e)
  BY AllowedVenuesOf
<1>4. WithDescendants(VenuesOf(e), shown) = Reached(VenuesOf(e) \ shown, next)
  BY DEF WithDescendants
<1> HIDE DEF next
<1>5. \A q \in AllowedVenues(e) : next[q] \subseteq AllowedVenues(e)
  BY <1>1, <1>3
<1>6. QED
  BY <1>1, <1>2, <1>3, <1>4, <1>5, ReachedIsLeast

\* The tree of what is shown has all of it but venues below missing ones: entities below
\* entities first, then venues.
LEMMA TreeHasAll ==
    ASSUME NEW shown, shown.entities \subseteq AllPlaces \ AllVenues, shown.venues \subseteq AllVenues
    PROVE  LET missing == (shown.entities \union shown.venues) \ Tree(shown)
           IN  \A p \in missing : p \in AllVenues /\ PlaceParent[p] \in missing
<1> DEFINE all == shown.entities \union shown.venues
           next == [p \in all |-> Children(shown, p)]
<1>1. Roots(shown) \in SUBSET all
  BY DEF Roots
<1>2. DOMAIN next = all /\ \A q \in all : next[q] = Children(shown, q) /\ next[q] \subseteq all
  BY DEF Children
<1>3. Tree(shown) = Reached(Roots(shown), next)
  BY DEF Tree
<1> HIDE DEF next
<1>4. /\ Roots(shown) \subseteq Tree(shown) /\ Tree(shown) \subseteq all
      /\ \A q \in Tree(shown) : Children(shown, q) \subseteq Tree(shown)
  BY <1>1, <1>2, <1>3, ReachedIsLeast
<1> HIDE DEF all
<1>5. shown.entities \subseteq Tree(shown)
  <2> DEFINE missing == shown.entities \ Tree(shown)
  <2> SUFFICES ASSUME missing # {} PROVE FALSE
    OBVIOUS
  <2>1. PICK e \in missing : PlaceParent[e] \notin missing
    BY TreeAssumption
  <2>2. PlaceParent[e] \in shown.entities
    BY <1>4, <2>1 DEF Roots
  <2>3. PlaceParent[e] \in Tree(shown) /\ PlaceParent[e] \notin AllVenues
    BY <2>1, <2>2
  <2>4. e \in Children(shown, PlaceParent[e])
    BY <2>1, <2>3 DEF Children
  <2>5. QED
    BY <1>4, <2>1, <2>3, <2>4
<1>6. ASSUME NEW v \in shown.venues, v \notin Tree(shown)
      PROVE  PlaceParent[v] \in shown.venues /\ PlaceParent[v] \notin Tree(shown)
  <2>1. v \notin Roots(shown) /\ v \in AllVenues
    BY <1>4, <1>6
  <2>2. CASE PlaceParent[v] # None
    <3>1. PlaceParent[v] \in shown.venues
      BY <2>1, <2>2 DEF Roots
    <3>2. PlaceParent[v] \in AllVenues /\ v \in Children(shown, PlaceParent[v])
      BY <3>1 DEF Children
    <3>3. QED
      BY <1>4, <1>6, <3>1, <3>2
  <2>3. CASE PlaceParent[v] = None
    <3>1. PlaceEntity[v] \in shown.entities
      BY <2>1, <2>3 DEF Roots
    <3>2. v \in Children(shown, PlaceEntity[v])
      BY <2>3, <3>1 DEF Children
    <3>3. QED
      BY <1>4, <1>5, <1>6, <3>1, <3>2
  <2>4. QED
    BY <2>2, <2>3
<1>7. QED
  BY <1>5, <1>6

\* What the handler has come to, of the roles it has looked at.
Looked == grants \ left
Reading(r) == r.venue # None /\ Allows(r, "venue")
Refusing(r) == r.venue # None /\ ~Allows(r, "venue")
Opening(r) == r.venue = None /\ Allows(r, "entity")
OnLine(r, e) == Reading(r) /\ \E w \in Line(r.venue) \intersect places : PlaceEntity[w] = e

SeenInv ==
    asked =>
        /\ left \subseteq grants
        /\ seen \in [entities : SUBSET (AllPlaces \ AllVenues), venues : SUBSET AllVenues,
                     denied : SUBSET AllVenues]
        /\ seen.denied = {r.venue : r \in {r \in Looked : Refusing(r)}}
        /\ \A r \in Looked : Reading(r) => r.venue \in seen.venues
        /\ \A v \in seen.venues :
              \/ \E r \in Looked : Reading(r) /\ v \in Line(r.venue)
              \/ \E r \in Looked : Opening(r) /\ v \in AllowedVenues(r.entity)
        /\ \A e \in seen.entities :
              \/ \E r \in Looked : OnLine(r, e)
              \/ \E r \in Looked : Opening(r) /\ r.entity = e
        /\ \A r \in Looked : Opening(r) =>
              \/ VenuesOf(r.entity) \subseteq seen.venues
              \/ \E s \in Looked : OnLine(s, r.entity)

\* The handler looks at one more role.
LEMMA LookAtInv ==
    ASSUME AuthInv, SeenInv, asked, NEW r \in left, LookAt(r), UNCHANGED authVars
    PROVE  SeenInv'
<1>1. /\ left \subseteq grants /\ r \in grants
      /\ seen \in [entities : SUBSET (AllPlaces \ AllVenues), venues : SUBSET AllVenues,
                   denied : SUBSET AllVenues]
  BY DEF SeenInv
<1>2. /\ asked' /\ left' = left \ {r} /\ left' \subseteq grants'
      /\ places' = places /\ grants' = grants
      /\ Looked' = Looked \union {r} /\ r \notin Looked
  BY <1>1 DEF LookAt, authVars, Looked
<1>3. /\ \A s : Reading(s)' <=> Reading(s)
      /\ \A s : Refusing(s)' <=> Refusing(s)
      /\ \A s : Opening(s)' <=> Opening(s)
      /\ \A e : VenuesOf(e)' = VenuesOf(e)
      /\ \A e : AllowedVenues(e)' = AllowedVenues(e)
      /\ \A v : Line(v)' = Line(v)
      /\ \A s, e : OnLine(s, e)' <=> OnLine(s, e)
  <2>1. ParentVenues' = ParentVenues /\ ChildVenues' = ChildVenues
    BY <1>2 DEF ParentVenues, ChildVenues
  <2>2. \A v : Line(v)' = Line(v)
    BY <2>1 DEF Line, Ancestors, Reached
  <2>3. \A e : AllowedVenues(e)' = AllowedVenues(e)
    BY <1>2, <2>1 DEF AllowedVenues, VenuesOf, Reached
  <2>4. QED
    BY <1>2, <2>2, <2>3 DEF Reading, Refusing, Opening, OnLine, Allows, VenuesOf
<1>4. /\ r.entity \in AllPlaces \ AllVenues
      /\ r.venue # None => r.venue \in AllVenues /\ r.entity = PlaceEntity[r.venue]
  BY <1>1, RolesArePlaced
<1> DEFINE Denied == seen'.denied = {s.venue : s \in {s \in Looked \union {r} : Refusing(s)}}
           Typed == seen' \in [entities : SUBSET (AllPlaces \ AllVenues), venues : SUBSET AllVenues,
                               denied : SUBSET AllVenues]
           Reads == \A s \in Looked \union {r} : Reading(s) => s.venue \in seen'.venues
           Venues1 == \A v \in seen'.venues :
              \/ \E s \in Looked \union {r} : Reading(s) /\ v \in Line(s.venue)
              \/ \E s \in Looked \union {r} : Opening(s) /\ v \in AllowedVenues(s.entity)
           Entities1 == \A e \in seen'.entities :
              \/ \E s \in Looked \union {r} : OnLine(s, e)
              \/ \E s \in Looked \union {r} : Opening(s) /\ s.entity = e
           Whole == \A q \in Looked \union {r} : Opening(q) =>
              \/ VenuesOf(q.entity) \subseteq seen'.venues
              \/ \E s \in Looked \union {r} : OnLine(s, q.entity)
<1>5. SUFFICES Denied /\ Typed /\ Reads /\ Venues1 /\ Entities1 /\ Whole
  BY <1>2, <1>3 DEF SeenInv
<1>6. /\ seen.denied = {s.venue : s \in {s \in Looked : Refusing(s)}}
      /\ \A s \in Looked : Reading(s) => s.venue \in seen.venues
      /\ \A v \in seen.venues :
            \/ \E s \in Looked : Reading(s) /\ v \in Line(s.venue)
            \/ \E s \in Looked : Opening(s) /\ v \in AllowedVenues(s.entity)
      /\ \A e \in seen.entities :
            \/ \E s \in Looked : OnLine(s, e)
            \/ \E s \in Looked : Opening(s) /\ s.entity = e
      /\ \A q \in Looked : Opening(q) =>
            \/ VenuesOf(q.entity) \subseteq seen.venues
            \/ \E s \in Looked : OnLine(s, q.entity)
  BY DEF SeenInv
<1>7. CASE AddVenueAncestors(r)
  <2>1. Reading(r) /\ ~Refusing(r) /\ ~Opening(r) /\ r.venue \in AllVenues
    BY <1>4, <1>7 DEF AddVenueAncestors, Reading, Refusing, Opening
  <2> DEFINE line == Line(r.venue)
             above == {PlaceEntity[v] : v \in line \intersect places}
  <2>2. r.venue \in line /\ line \subseteq AllVenues
    BY <2>1, AncestorsOf DEF Line
  <2>3. seen' = [seen EXCEPT !.venues = seen.venues \union line,
                             !.entities = seen.entities \union above]
    BY <1>7 DEF AddVenueAncestors
  <2>4. above \subseteq AllPlaces \ AllVenues
    BY <2>2, AuthorizationAssumption
  <2>5. \A e \in above : OnLine(r, e)
    BY <2>1 DEF OnLine
  <2>6. \A v \in line : v \in Line(r.venue)
    OBVIOUS
  <2> HIDE DEF line, above
  <2>7. /\ seen'.denied = seen.denied /\ seen'.venues = seen.venues \union line
        /\ seen'.entities = seen.entities \union above
    BY <1>1, <2>3
  <2>8. Denied
    BY <1>6, <2>1, <2>7
  <2>9. Typed
    BY <1>1, <2>2, <2>3, <2>4
  <2>10. Reads
    BY <1>6, <2>2, <2>7
  <2>11. Venues1
    BY <1>6, <2>1, <2>6, <2>7
  <2>12. Entities1
    BY <1>6, <2>5, <2>7
  <2>13. Whole
    BY <1>6, <2>1, <2>7
  <2>14. QED
    BY <2>8, <2>9, <2>10, <2>11, <2>12, <2>13
<1>8. CASE DenyVenue(r)
  <2>1. ~Reading(r) /\ Refusing(r) /\ ~Opening(r) /\ r.venue \in AllVenues
    BY <1>4, <1>8 DEF DenyVenue, Reading, Refusing, Opening
  <2>2. seen' = [seen EXCEPT !.denied = seen.denied \union {r.venue}]
    BY <1>8 DEF DenyVenue
  <2>3. /\ seen'.denied = seen.denied \union {r.venue} /\ seen'.venues = seen.venues
        /\ seen'.entities = seen.entities
    BY <1>1, <2>2
  <2>4. Denied
    BY <1>6, <2>1, <2>3
  <2>5. Typed
    BY <1>1, <2>1, <2>2
  <2>6. Reads /\ Venues1 /\ Entities1 /\ Whole
    BY <1>6, <2>1, <2>3
  <2>7. QED
    BY <2>4, <2>5, <2>6
<1>9. CASE AddEntityAndDescendants(r)
  <2>1. ~Reading(r) /\ ~Refusing(r) /\ Opening(r)
    BY <1>9 DEF AddEntityAndDescendants, Reading, Refusing, Opening
  <2> DEFINE new == WithDescendants(VenuesOf(r.entity), seen.venues)
  <2>2. seen' = [seen EXCEPT !.entities = seen.entities \union {r.entity},
                             !.venues = seen.venues \union new]
    BY <1>9 DEF AddEntityAndDescendants
  <2>3. new \subseteq AllowedVenues(r.entity) /\ VenuesOf(r.entity) \subseteq seen.venues \union new
    BY WithDescendantsOf
  <2> HIDE DEF new
  <2>4. /\ seen'.denied = seen.denied /\ seen'.venues = seen.venues \union new
        /\ seen'.entities = seen.entities \union {r.entity}
    BY <1>1, <2>2
  <2>5. \A v \in new : v \in AllVenues /\ v \in AllowedVenues(r.entity)
    BY <2>3, AllowedVenuesOf
  <2>6. Denied
    BY <1>6, <2>1, <2>4
  <2>7. Typed
    BY <1>1, <1>4, <2>2, <2>5
  <2>8. Reads
    BY <1>6, <2>1, <2>4
  <2>9. Venues1
    BY <1>6, <2>1, <2>4, <2>5
  <2>10. Entities1
    BY <1>6, <2>1, <2>4
  <2>11. Whole
    BY <1>6, <2>1, <2>3, <2>4
  <2>12. QED
    BY <2>6, <2>7, <2>8, <2>9, <2>10, <2>11
<1>10. CASE SkipRole(r)
  <2>1. ~Reading(r) /\ ~Refusing(r) /\ seen' = seen /\ (Opening(r) => r.entity \in seen.entities)
    BY <1>10 DEF SkipRole, Reading, Refusing, Opening
  <2>2. Denied /\ Typed /\ Reads /\ Venues1 /\ Entities1
    BY <1>1, <1>6, <2>1
  <2>3. \A s \in Looked : Opening(r) /\ Opening(s) => s.entity # r.entity
    BY <1>1, <1>2, OneRole DEF Opening, Looked
  <2>4. Whole
    BY <1>6, <2>1, <2>3
  <2>5. QED
    BY <2>2, <2>4
<1>11. QED
  BY <1>7, <1>8, <1>9, <1>10 DEF LookAt

LEMMA TreeStepInv ==
    AuthInv /\ SeenInv /\ [TreeNext]_<<authVars, treeVars>> => AuthInv' /\ SeenInv'
<1> SUFFICES ASSUME AuthInv, SeenInv, [TreeNext]_<<authVars, treeVars>>
             PROVE  AuthInv' /\ SeenInv'
  OBVIOUS
<1>1. AuthInv'
  BY AuthStepInv DEF TreeNext
<1>2. ASSUME ~asked' PROVE SeenInv'
  BY <1>2 DEF SeenInv
<1>3. CASE EntityListGet /\ UNCHANGED authVars
  <2>1. /\ asked' /\ left' = grants /\ grants' = grants /\ seen' = NothingSeen
        /\ Looked' = {}
    BY <1>3 DEF EntityListGet, authVars, Looked
  <2>2. /\ seen'.denied = {} /\ seen'.venues = {} /\ seen'.entities = {}
        /\ seen' \in [entities : SUBSET (AllPlaces \ AllVenues), venues : SUBSET AllVenues,
                      denied : SUBSET AllVenues]
    BY <2>1 DEF NothingSeen
  <2>3. QED
    BY <1>1, <2>1, <2>2 DEF SeenInv
<1>4. CASE UNCHANGED <<authVars, treeVars>>
  <2>1. UNCHANGED <<places, grants, asked, left, seen>>
    BY <1>4 DEF authVars, treeVars
  <2>2. ParentVenues' = ParentVenues /\ ChildVenues' = ChildVenues /\ Looked' = Looked
    BY <2>1 DEF ParentVenues, ChildVenues, Looked
  <2>3. \A v : Line(v)' = Line(v)
    BY <2>2 DEF Line, Ancestors, Reached
  <2>4. \A e : AllowedVenues(e)' = AllowedVenues(e) /\ VenuesOf(e)' = VenuesOf(e)
    BY <2>1, <2>2 DEF AllowedVenues, VenuesOf, Reached
  <2>5. \A r, e : /\ Reading(r)' <=> Reading(r)
                  /\ Refusing(r)' <=> Refusing(r)
                  /\ Opening(r)' <=> Opening(r)
                  /\ OnLine(r, e)' <=> OnLine(r, e)
    BY <2>1, <2>3 DEF Reading, Refusing, Opening, OnLine, Allows
  <2>6. QED
    BY <1>1, <2>1, <2>2, <2>3, <2>4, <2>5 DEF SeenInv
<1>5. ASSUME NEW r \in left, LookAt(r), UNCHANGED authVars PROVE SeenInv'
  <2>1. CASE asked
    BY <1>5, <2>1, LookAtInv
  <2>2. CASE ~asked
    BY <1>2, <1>5, <2>2 DEF LookAt
  <2>3. QED
    BY <2>1, <2>2
<1>6. CASE ~asked /\ AuthNext /\ UNCHANGED treeVars
  BY <1>1, <1>2, <1>6 DEF treeVars
<1>7. CASE ListReturned
  BY <1>1, <1>2, <1>7 DEF ListReturned
<1>8. ASSUME NEW r \in left, AncestorsEndless(r) PROVE SeenInv'
  BY <1>2, <1>8 DEF AncestorsEndless
<1>9. QED
  BY <1>1, <1>3, <1>4, <1>5, <1>6, <1>7, <1>8 DEF TreeNext

\* The devices of a place are shown as the tags of the place are read.
LEMMA DevicesShownReadable ==
    ASSUME AuthInv, NEW t, Exists("inventory", t), OnePlace(t),
           ~Endless(Entity(Or(Tag(t).venue, Tag(t).entity)))
    PROVE  DevicesShown(Or(Tag(t).venue, Tag(t).entity)) <=> Readable("inventory", t)
<1>1. PICK entity, venue : entity = Tag(t).entity /\ venue = Tag(t).venue
  OBVIOUS
<1>2. (entity = None) # (venue = None)
  BY <1>1 DEF OnePlace
<1>3. venue # None => Entity(Or(venue, entity)) = PlaceEntity[venue] /\ venue \in AllVenues
  BY <1>1, TagInScope DEF Or, Entity
<1>4. venue # None => Decided(PlaceEntity[venue])
  BY <1>1, <1>3 DEF Decided
<1>5. /\ entity \in (places \ AllVenues) \union {None}
      /\ venue \in (places \intersect AllVenues) \union {None}
      /\ Readable("inventory", t) <=>
           \/ venue # None /\ RoleAllows("inventory", PlaceEntity[venue], venue)
           \/ entity # None /\ RoleAllows("inventory", entity, None)
  BY <1>1, <1>4, TagInScope
<1>6. \A r \in grants : r.venue # None => r.venue \in AllVenues
  BY RolesArePlaced
<1>7. CASE venue # None
  <2>1. Or(venue, entity) = venue /\ Entity(venue) = PlaceEntity[venue] /\ entity = None
    BY <1>2, <1>5, <1>7 DEF Or, Entity
  <2>2. DevicesShown(venue) <=> RoleAllows("inventory", PlaceEntity[venue], venue)
    BY <1>7, <2>1 DEF DevicesShown, RoleAllows, VenueRoles, EntityRoles
  <2>3. QED
    BY <1>1, <1>5, <1>7, <2>1, <2>2
<1>8. CASE venue = None
  <2>1. Or(venue, entity) = entity /\ Entity(entity) = entity /\ entity # None /\ entity \notin AllVenues
    BY <1>2, <1>5, <1>8, AuthorizationAssumption DEF Or, Entity
  <2>2. DevicesShown(entity) <=> RoleAllows("inventory", entity, None)
    BY <1>6, <2>1 DEF DevicesShown, RoleAllows, VenueRoles, EntityRoles
  <2>3. QED
    BY <1>1, <1>5, <1>8, <2>1, <2>2
<1>9. QED
  BY <1>7, <1>8

\* What the tree shows of what the roles of the user open, in whatever order the handler
\* comes to the roles, for every arrangement of the venues, circles and venues of another
\* entity than their parent's included, and every set of roles and policies.
THEOREM TreeShowsSeenTheorem == TreeSpec => []TreeShowsSeen
<1>1. AuthInv /\ SeenInv => TreeShowsSeen
  <2> SUFFICES ASSUME AuthInv, SeenInv, Answered PROVE TreeShowsSeen
    BY DEF TreeShowsSeen
  <2>1. Looked = grants
    BY DEF Answered, Looked
  <2>2. /\ seen \in [entities : SUBSET (AllPlaces \ AllVenues), venues : SUBSET AllVenues,
                     denied : SUBSET AllVenues]
        /\ seen.denied = {r.venue : r \in {r \in grants : Refusing(r)}}
        /\ \A r \in grants : Reading(r) => r.venue \in seen.venues
        /\ \A v \in seen.venues :
              \/ \E r \in grants : Reading(r) /\ v \in Line(r.venue)
              \/ \E r \in grants : Opening(r) /\ v \in AllowedVenues(r.entity)
        /\ \A r \in grants : Opening(r) =>
              \/ VenuesOf(r.entity) \subseteq seen.venues
              \/ \E s \in grants : OnLine(s, r.entity)
    BY <2>1 DEF SeenInv, Answered
  <2> DEFINE reads == {r.venue : r \in {r \in VenueRoles : Allows(r, "venue")}}
             refused == {r.venue : r \in {r \in VenueRoles : ~Allows(r, "venue")}}
             opened == {r \in EntityRoles : Allows(r, "entity")}
             missing == (Visible.entities \union Visible.venues) \ Tree(Visible)
  <2>3. /\ \A w : w \in reads <=> \E r \in grants : Reading(r) /\ w = r.venue
        /\ \A w : w \in refused <=> \E r \in grants : Refusing(r) /\ w = r.venue
        /\ \A r : r \in opened <=> r \in grants /\ Opening(r)
    BY DEF VenueRoles, EntityRoles, Reading, Refusing, Opening
  <2>4. seen.denied = refused
    BY <2>2, <2>3
  <2>5. /\ Visible.entities = seen.entities \intersect places
        /\ Visible.venues = (seen.venues \ refused) \intersect places
    BY <2>4 DEF Visible
  <2>6. \A p \in missing : p \in AllVenues /\ PlaceParent[p] \in missing
    <3>1. Visible.entities \subseteq AllPlaces \ AllVenues /\ Visible.venues \subseteq AllVenues
      BY <2>2, <2>5
    <3>2. QED
      BY <3>1, TreeHasAll
  <2> HIDE DEF reads, refused, opened, missing
  <2>7. reads \subseteq Visible.venues
    <3> SUFFICES ASSUME NEW r \in grants, Reading(r) PROVE r.venue \in Visible.venues
      BY <2>3
    <3>1. r.venue \in places
      BY RolesArePlaced DEF Reading
    <3>2. r.venue \notin refused
      BY <2>3, OneRole DEF Reading, Refusing
    <3>3. QED
      BY <2>2, <2>5, <3>1, <3>2
  <2>8. ASSUME NEW v \in Visible.venues
        PROVE  \/ Readable("venue", v) \/ Endless(PlaceEntity[v])
               \/ \E w \in reads : v \in Ancestors(w)
               \/ \E r \in opened : /\ v \in AllowedVenues(r.entity)
                                    /\ ~Allows(r, "venue") \/ r.entity # PlaceEntity[v]
    <3>1. v \in seen.venues /\ v \in AllVenues /\ v \in places /\ v \notin refused
      BY <2>2, <2>5, <2>8
    <3>2. \A r \in grants : r.venue = v => Allows(r, "venue")
      BY <2>3, <3>1, AuthorizationAssumption DEF Refusing
    <3>3. ~Endless(PlaceEntity[v]) =>
            (Readable("venue", v) <=>
               \E r \in grants : /\ Allows(r, "venue")
                                 /\ r.venue = v \/ (r.venue = None /\ r.entity = PlaceEntity[v]))
      BY <3>1, <3>2, ReadableVenue, RoleAllowsVenue DEF Decided
    <3>4. CASE \E r \in grants : Reading(r) /\ v \in Line(r.venue)
      <4>1. PICK r \in grants : Reading(r) /\ v \in Line(r.venue)
        BY <3>4
      <4>2. r.venue \in reads /\ (v = r.venue \/ v \in Ancestors(r.venue))
        BY <2>3, <4>1 DEF Line
      <4>3. QED
        BY <3>3, <4>1, <4>2 DEF Reading
    <3>5. CASE \E r \in grants : Opening(r) /\ v \in AllowedVenues(r.entity)
      <4>1. PICK r \in grants : Opening(r) /\ v \in AllowedVenues(r.entity)
        BY <3>5
      <4>2. r \in opened
        BY <2>3, <4>1
      <4>3. QED
        BY <3>3, <4>1, <4>2 DEF Opening
    <3>6. QED
      BY <2>2, <3>1, <3>4, <3>5
  <2>9. ASSUME NEW r \in opened, \A w \in reads : \A v \in Line(w) \intersect places : PlaceEntity[v] # r.entity
        PROVE  VenuesOf(r.entity) \ refused \subseteq Visible.venues
    <3>1. ~\E s \in grants : OnLine(s, r.entity)
      BY <2>3, <2>9 DEF OnLine
    <3>2. VenuesOf(r.entity) \subseteq seen.venues
      BY <2>2, <2>3, <3>1
    <3>3. VenuesOf(r.entity) \subseteq places
      BY DEF VenuesOf
    <3>4. QED
      BY <2>5, <3>2, <3>3
  <2>10. ASSUME NEW t \in Tags, NEW place, place = Or(Tag(t).venue, Tag(t).entity),
                Exists("inventory", t), OnePlace(t), ~Endless(Entity(place))
         PROVE  DevicesShown(place) <=> Readable("inventory", t)
    BY <2>10, DevicesShownReadable
  <2>11. QED
    BY <2>6, <2>7, <2>8, <2>9, <2>10 DEF TreeShowsSeen, reads, refused, opened, missing
<1>2. AuthInit /\ TreeInit => AuthInv /\ SeenInv
  BY DEF AuthInit, AuthInv, AuthTypeOK, GrantsPlaced, OneGrant, MadeWithRole, TreeInit, SeenInv
<1>3. QED
  BY <1>1, <1>2, TreeStepInv, PTL DEF TreeSpec
=============================================================================
