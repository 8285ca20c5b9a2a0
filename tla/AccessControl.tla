--------------------------- MODULE AccessControl ---------------------------
(***************************************************************************)
(* Management roles and policies, and the cache every request is           *)
(* authorized from (AuthCache, framework/RESTAPI_Handler).                 *)
(*                                                                         *)
(* A role gives one user a policy on one scope, an entity or a venue of    *)
(* it.  The cache holds the roles of a user and the contents of a policy   *)
(* as they were read from the tables; it has no expiry, every handler that *)
(* changes a table clears it afterwards.  Handlers run on threads: reading *)
(* a table, filling the cache, writing a table and clearing the cache are  *)
(* separate steps.                                                         *)
(***************************************************************************)
EXTENDS Naturals, FiniteSets

CONSTANTS Threads, Users, Scopes, PolicyIds, RoleIds,
          Venues,        \* the scopes that are a venue of an entity, the others are entities
          Contents,      \* what a policy may grant
          NoId           \* the empty string: a role without a policy

ASSUME AccessControlAssumption ==
    /\ NoId \notin PolicyIds \union Contents
    /\ Venues \subseteq Scopes

VARIABLES
    live,            \* the scopes that exist: entities, and venues in their entity
    policies,        \* PolicyDB: the contents of each policy, NoId if there is none
    roles,           \* RolesDB
    cachedRoles,     \* AuthCache::Cache_: the roles of each user, {} if not cached
    cachedPolicies,  \* AuthCache::Policies_
    job              \* what each handler is about to do

tables == <<live, policies, roles>>
cache  == <<cachedRoles, cachedPolicies>>
vars   == <<tables, cache, job>>

Role == [id : RoleIds, user : Users, scope : Scopes, policy : PolicyIds \union {NoId}]
Idle == [step |-> "idle"]

TypeOK ==
    /\ live \in SUBSET Scopes
    /\ policies \in [PolicyIds -> Contents \union {NoId}]
    /\ roles \in SUBSET Role
    /\ cachedRoles \in [Users -> SUBSET Role]
    /\ cachedPolicies \in [PolicyIds -> Contents \union {NoId}]
    /\ \A p \in Threads :
         \/ job[p].step \in {"idle", "fillPolicy", "putPolicy", "parentRole", "clear",
                             "deleteScope"}
         \/ job[p].step \in {"fillRoles", "fillParent"} /\ job[p].read \in SUBSET Role
         \/ job[p].step = "find" /\ job[p].scopes \in SUBSET Scopes
         \/ job[p].step \in {"store", "update", "delete", "autoStore"} /\ job[p].row \in Role

Init ==
    /\ live \in SUBSET Scopes
    /\ policies = [q \in PolicyIds |-> NoId]
    /\ roles = {}
    /\ cachedRoles = [u \in Users |-> {}]
    /\ cachedPolicies = [q \in PolicyIds |-> NoId]
    /\ job = [p \in Threads |-> Idle]

RolesOf(u) == {r \in roles : r.user = u}
Key(r) == <<r.id, r.user, r.scope>>

\* Identifiers that no row, cache entry or handler has any more are as good as new.
InJob(j) ==
    UNION {IF "row" \in DOMAIN j THEN {j.row.id} ELSE {},
           IF "created" \in DOMAIN j THEN j.created ELSE {},
           IF "read" \in DOMAIN j /\ "user" \in DOMAIN j THEN {r.id : r \in j.read} ELSE {}}
Unused == RoleIds \ ((UNION {InJob(job[p]) : p \in Threads}) \union {r.id : r \in roles}
                       \union UNION {{r.id : r \in cachedRoles[u]} : u \in Users})
NewId == CHOOSE id \in Unused : TRUE

Start(p, j) ==
    /\ job[p] = Idle
    /\ job' = [job EXCEPT ![p] = j]
    /\ UNCHANGED <<tables, cache>>

Then(p, j) == job' = [job EXCEPT ![p] = j] /\ UNCHANGED cache

ClearThen(j) == [step |-> "clear", then |-> j]

(***************************************************************************)
(* Authorizing a request: FindAllUserRoles reads the table on a miss and   *)
(* stores what it read when there is any; policies likewise.               *)
(***************************************************************************)
FindAllUserRoles(p, u) ==
    /\ cachedRoles[u] = {}
    /\ RolesOf(u) # {}
    /\ Start(p, [step |-> "fillRoles", user |-> u, read |-> RolesOf(u)])

SetUserRoles(p) ==
    /\ job[p].step = "fillRoles"
    /\ cachedRoles' = [cachedRoles EXCEPT ![job[p].user] = job[p].read]
    /\ job' = [job EXCEPT ![p] = Idle]
    /\ UNCHANGED <<tables, cachedPolicies>>

CheckRolePolicy(p, q) ==
    /\ cachedPolicies[q] = NoId
    /\ policies[q] # NoId
    /\ \E r \in roles \union UNION {cachedRoles[u] : u \in Users} : r.policy = q
    /\ Start(p, [step |-> "fillPolicy", policy |-> q, read |-> policies[q]])

SetPolicy(p) ==
    /\ job[p].step = "fillPolicy"
    /\ cachedPolicies' = [cachedPolicies EXCEPT ![job[p].policy] = job[p].read]
    /\ job' = [job EXCEPT ![p] = Idle]
    /\ UNCHANGED <<tables, cachedRoles>>

Clear(p) ==
    /\ job[p].step = "clear"
    /\ cachedRoles' = [u \in Users |-> {}]
    /\ cachedPolicies' = [q \in PolicyIds |-> NoId]
    /\ job' = [job EXCEPT ![p] = job[p].then]
    /\ UNCHANGED tables

(***************************************************************************)
(* POST /managementRole: one role per scope of the request, an existing    *)
(* one is given the new policy.  When a statement fails the roles created  *)
(* so far are deleted; neither are updates undone nor is the cache cleared.*)
(***************************************************************************)
RolePost(p, u, scopes, q) ==
    /\ scopes # {} /\ scopes \subseteq live
    /\ q # NoId => policies[q] # NoId
    /\ Start(p, [step |-> "find", user |-> u, scopes |-> scopes, policy |-> q,
                 created |-> {}])

\* A mutation: an existing role of the scope is not looked for.
FindNoRole(u, s) == {}

\* The roles of the user on the scope, from the cache if it has any of the user.
FindExactExistingRole(u, s) ==
    {r \in IF cachedRoles[u] # {} THEN cachedRoles[u] ELSE RolesOf(u) : r.scope = s}

RolePostFind(p) ==
    LET j == job[p]
    IN  /\ j.step = "find"
        /\ \E s \in j.scopes :
             LET found == FindExactExistingRole(j.user, s)
                 store(row, created) ==
                   Then(p, [step |-> "store", user |-> j.user, scopes |-> j.scopes \ {s},
                            policy |-> j.policy, created |-> created, row |-> row])
             IN  \/ \E r \in found : store([r EXCEPT !.policy = j.policy], j.created)
                 \/ /\ found = {} /\ Unused # {}
                    /\ store([id |-> NewId, user |-> j.user, scope |-> s,
                              policy |-> j.policy], j.created \union {NewId})
        /\ UNCHANGED tables

\* UPDATE writes the whole record, and nothing when the row is gone.
UpdateRecord(row) == {IF r.id = row.id THEN row ELSE r : r \in roles}

RolePostStore(p) ==
    LET j == job[p]
    IN  /\ j.step = "store"
        /\ roles' = IF j.row.id \in j.created THEN roles \union {j.row}
                    ELSE UpdateRecord(j.row)
        /\ Then(p, IF j.scopes = {} THEN ClearThen(Idle)
                   ELSE [step |-> "find", user |-> j.user, scopes |-> j.scopes,
                         policy |-> j.policy, created |-> j.created])
        /\ UNCHANGED <<live, policies>>

RolePostFails(p) ==
    /\ job[p].step = "store"
    /\ roles' = {r \in roles : r.id \notin job[p].created}
    /\ Then(p, Idle)
    /\ UNCHANGED <<live, policies>>

(***************************************************************************)
(* PUT /managementRole changes the policy only; a body that names another  *)
(* user or scope is refused.                                               *)
(***************************************************************************)
\* A mutation: the scope of the body is taken over.
RolePutMoves(p, r, s, q) ==
    /\ q # NoId => policies[q] # NoId
    /\ Start(p, [step |-> "update", row |-> [r EXCEPT !.policy = q, !.scope = s]])

RolePut(p, r, s, q) ==
    /\ s = r.scope
    /\ s \in Venues => s \in live
    /\ q # NoId => policies[q] # NoId
    /\ Start(p, [step |-> "update", row |-> [r EXCEPT !.policy = q]])

RolePutStore(p) ==
    /\ job[p].step = "update"
    /\ roles' = UpdateRecord(job[p].row)
    /\ Then(p, ClearThen(Idle))
    /\ UNCHANGED <<live, policies>>

RoleDelete(p, r) == Start(p, [step |-> "delete", row |-> r])

\* A mutation: the cache is left as it is.
RoleDeleteKeepsCache(p) ==
    /\ job[p].step = "delete"
    /\ roles' = {r \in roles : r.id # job[p].row.id}
    /\ Then(p, Idle)
    /\ UNCHANGED <<live, policies>>

RoleDeleteStore(p) ==
    /\ job[p].step = "delete"
    /\ roles' = {r \in roles : r.id # job[p].row.id}
    /\ Then(p, ClearThen(Idle))
    /\ UNCHANGED <<live, policies>>

(***************************************************************************)
(* Policies.  Only root changes them.                                      *)
(***************************************************************************)
PolicyPost(p, q, c) ==
    /\ job[p] = Idle
    /\ policies[q] = NoId /\ \A r \in roles : r.policy # q
    /\ policies' = [policies EXCEPT ![q] = c]
    /\ Then(p, ClearThen(Idle))
    /\ UNCHANGED <<live, roles>>

PolicyPut(p, q, c) ==
    /\ policies[q] # NoId
    /\ Start(p, [step |-> "putPolicy", policy |-> q, contents |-> c])

\* A mutation: the cache is left as it is.
PolicyPutKeepsCache(p) ==
    /\ job[p].step = "putPolicy"
    /\ policies' = [policies EXCEPT ![job[p].policy] =
                      IF @ = NoId THEN NoId ELSE job[p].contents]
    /\ Then(p, Idle)
    /\ UNCHANGED <<live, roles>>

PolicyPutStore(p) ==
    /\ job[p].step = "putPolicy"
    /\ policies' = [policies EXCEPT ![job[p].policy] =
                      IF @ = NoId THEN NoId ELSE job[p].contents]
    /\ Then(p, ClearThen(Idle))
    /\ UNCHANGED <<live, roles>>

\* Whether a role refers to the policy is not looked at.
PolicyDelete(p, q) ==
    /\ job[p] = Idle
    /\ policies[q] # NoId
    /\ policies' = [policies EXCEPT ![q] = NoId]
    /\ Then(p, ClearThen(Idle))
    /\ UNCHANGED <<live, roles>>

\* A failed UPDATE or DELETE is answered with an error and nothing else.
StatementFails(p) ==
    /\ job[p].step \in {"update", "delete", "putPolicy"}
    /\ Then(p, Idle)
    /\ UNCHANGED tables

(***************************************************************************)
(* A venue or an entity is created by a user who is not root: the user's   *)
(* role on the parent, if there is one, is repeated on it.                 *)
(***************************************************************************)
ScopePost(p, u, parent, s) ==
    /\ job[p] = Idle
    /\ parent \in live /\ s \notin live
    /\ \A r \in roles \union UNION {cachedRoles[v] : v \in Users} : r.scope # s
    /\ live' = live \union {s}
    /\ Then(p, [step |-> "parentRole", user |-> u, parent |-> parent, scope |-> s])
    /\ UNCHANGED <<policies, roles>>

\* What AutoCreateCreatorRole does next when it knows these roles of the user.
CreatorRole(j, known) ==
    {[step |-> "autoStore", scope |-> j.scope,
      row |-> [id |-> NewId, user |-> j.user, scope |-> j.scope, policy |-> r.policy]]
       : r \in {r \in known : r.scope = j.parent}}

FindExistingRole(p) ==
    LET j == job[p]
    IN  /\ j.step = "parentRole"
        /\ Unused # {}
        /\ IF cachedRoles[j.user] # {}
           THEN LET next == CreatorRole(j, cachedRoles[j.user])
                IN  \E n \in (IF next = {} THEN {Idle} ELSE next) : Then(p, n)
           ELSE Then(p, IF RolesOf(j.user) = {} THEN Idle
                        ELSE [step |-> "fillParent", user |-> j.user, scope |-> j.scope,
                              parent |-> j.parent, read |-> RolesOf(j.user)])
        /\ UNCHANGED tables

\* The roles it read from the table go into the cache first.
FillParentRoles(p) ==
    LET j    == job[p]
        next == CreatorRole(j, j.read)
    IN  /\ j.step = "fillParent"
        /\ Unused # {}
        /\ cachedRoles' = [cachedRoles EXCEPT ![j.user] = j.read]
        /\ \E n \in (IF next = {} THEN {Idle} ELSE next) : job' = [job EXCEPT ![p] = n]
        /\ UNCHANGED <<tables, cachedPolicies>>

AutoCreateCreatorRole(p) ==
    /\ job[p].step = "autoStore"
    /\ roles' = roles \union {job[p].row}
    /\ Then(p, ClearThen(Idle))
    /\ UNCHANGED <<live, policies>>

\* When the role cannot be stored the new venue or entity is deleted again.
AutoCreateFails(p) ==
    /\ job[p].step = "autoStore"
    /\ live' = live \ {job[p].scope}
    /\ Then(p, Idle)
    /\ UNCHANGED <<policies, roles>>

\* DELETE of a venue or an entity removes its roles, also those left on the scopes of
\* moved venues it had a part in, clears the cache, then removes its row.
ScopeDelete(p, s) ==
    /\ job[p] = Idle
    /\ s \in live
    /\ \E moved \in SUBSET (Venues \ live) :
         roles' = {r \in roles : r.scope \notin {s} \union moved}
    /\ Then(p, ClearThen([step |-> "deleteScope", scope |-> s]))
    /\ UNCHANGED <<live, policies>>

ScopeDeleteRow(p) ==
    /\ job[p].step = "deleteScope"
    /\ live' = live \ {job[p].scope}
    /\ Then(p, Idle)
    /\ UNCHANGED <<policies, roles>>

\* The entity of an operator goes with the operator, its roles stay.
OperatorDelete(p, s) ==
    /\ job[p] = Idle
    /\ s \in live \ Venues
    /\ live' = live \ {s}
    /\ UNCHANGED <<policies, roles, cache, job>>

\* A venue moved to another entity is another scope; the roles stay on the old one.
VenuePut(p, s, t) ==
    /\ job[p] = Idle
    /\ s \in live \intersect Venues /\ t \in Venues \ live
    /\ live' = (live \ {s}) \union {t}
    /\ UNCHANGED <<policies, roles, cache, job>>

Request(p) ==
    \/ \E u \in Users : FindAllUserRoles(p, u)
    \/ \E q \in PolicyIds : CheckRolePolicy(p, q) \/ PolicyDelete(p, q)
    \/ \E u \in Users, ss \in SUBSET Scopes, q \in PolicyIds \union {NoId} :
          RolePost(p, u, ss, q)
    \/ \E r \in roles, s \in Scopes, q \in PolicyIds \union {NoId} : RolePut(p, r, s, q)
    \/ \E r \in roles : RoleDelete(p, r)
    \/ \E q \in PolicyIds, c \in Contents : PolicyPost(p, q, c) \/ PolicyPut(p, q, c)
    \/ \E u \in Users, parent, s \in Scopes : ScopePost(p, u, parent, s)
    \/ \E s \in Scopes : ScopeDelete(p, s) \/ OperatorDelete(p, s)
    \/ \E s, t \in Venues : VenuePut(p, s, t)

Step(p) ==
    \/ SetUserRoles(p) \/ SetPolicy(p) \/ Clear(p)
    \/ RolePostFind(p) \/ RolePostStore(p) \/ RolePostFails(p)
    \/ RolePutStore(p) \/ RoleDeleteStore(p) \/ PolicyPutStore(p) \/ StatementFails(p)
    \/ FindExistingRole(p) \/ FillParentRoles(p) \/ AutoCreateCreatorRole(p)
    \/ AutoCreateFails(p) \/ ScopeDeleteRow(p)

Next == \E p \in Threads : Request(p) \/ Step(p)

Spec == Init /\ [][Next]_vars

-----------------------------------------------------------------------------
(***************************************************************************)
(* A user has one role per scope (rbac_resource_matrix_test.go:87),        *)
(* although the existing role is looked up in the cache.                   *)
(***************************************************************************)
OneRolePerScope ==
    \A r, s \in roles : r.user = s.user /\ r.scope = s.scope => r = s

(***************************************************************************)
(* Between requests the cache names exactly the roles a cached user has,   *)
(* also after a batch that failed half way: a deleted role authorizes      *)
(* nothing any more.                                                       *)
(***************************************************************************)
Quiet == \A p \in Threads : job[p] = Idle

CachedRolesExist ==
    Quiet => \A u \in Users : cachedRoles[u] # {} =>
                {Key(r) : r \in cachedRoles[u]} = {Key(r) : r \in RolesOf(u)}

\* Between requests a cached policy grants what the stored policy grants.
CachedPoliciesCurrent ==
    Quiet => \A q \in PolicyIds : cachedPolicies[q] \in {NoId, policies[q]}

(***************************************************************************)
(* A role never changes hands or scope, whatever concurrent requests write *)
(* back from copies they read or cached earlier.                           *)
(***************************************************************************)
RolesKeepScope ==
    [][\A r \in roles, s \in roles' : r.id = s.id => Key(r) = Key(s)]_vars

=============================================================================
