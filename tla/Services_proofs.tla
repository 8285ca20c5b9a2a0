--------------------------- MODULE Services_proofs ---------------------------
(***************************************************************************)
(* Theorems about what runs beside the request handlers: the caches of     *)
(* credentials, the refresh of the RADIUS endpoints, and the discovery of  *)
(* devices.                                                                *)
(***************************************************************************)
EXTENDS TokenCache, RadiusEndpoints, Discovery, FiniteSetTheorems, TLAPS

-----------------------------------------------------------------------------
(* TokenCache: a consumed removal keeps a credential out of the caches,    *)
(* for every set of credentials and threads.                               *)
(***************************************************************************)

ThreadStates ==
    [pc : {"idle", "ask", "told"}, credential : Credentials \union {"none"}, sub : BOOLEAN,
     answer : {"none", "timeout", "ok", "no"}, verdict : {"none", "granted", "denied"}]

TokenTypeOK ==
    /\ revoked \in SUBSET Credentials /\ past \in SUBSET Credentials
    /\ cached \in SUBSET Credentials /\ removals \in SUBSET Credentials
    /\ removed \in SUBSET Credentials /\ raced \in SUBSET Credentials
    /\ thread \in [Threads -> ThreadStates]
    /\ \A t \in Threads : thread[t].pc # "idle" => thread[t].credential \in Credentials

\* Only a revoked credential is announced, so a consumed removal is of a revoked one.
RemovalsRevoked == removals \subseteq revoked /\ removed \subseteq revoked

\* A thread that brings back the answer "ok" for a credential whose removal was
\* consumed since the answer was given, was fetching it then.
AnswersRaced ==
    \A t \in Threads :
        thread[t].pc = "told" /\ thread[t].answer = "ok" /\ thread[t].credential \in removed
            => thread[t].credential \in raced

TokenInv == TokenTypeOK /\ RemovalsRevoked /\ AnswersRaced /\ RemovedStaysOut

LEMMA TokenInitInv == TokenInit => TokenInv
BY DEF TokenInit, TokenInv, TokenTypeOK, RemovalsRevoked, AnswersRaced, RemovedStaysOut,
       Idle, ThreadStates

\* A step that moves only thread t, and does not bring back an "ok", keeps all that
\* is said about threads.
LEMMA ThreadMoves ==
    ASSUME TokenInv, NEW t \in Threads, NEW s \in ThreadStates,
           s.pc # "idle" => s.credential \in Credentials,
           s.pc = "told" /\ s.answer = "ok" => s.credential \notin removed,
           thread' = [thread EXCEPT ![t] = s],
           cached' \subseteq cached,
           UNCHANGED <<revoked, past, removals, removed, raced>>
    PROVE  TokenInv'
<1>1. TokenTypeOK'
  BY DEF TokenInv, TokenTypeOK
<1>2. RemovalsRevoked'
  BY DEF TokenInv, RemovalsRevoked
<1>3. AnswersRaced'
  BY DEF TokenInv, TokenTypeOK, AnswersRaced
<1>4. RemovedStaysOut'
  BY DEF TokenInv, RemovedStaysOut
<1>5. QED
  BY <1>1, <1>2, <1>3, <1>4 DEF TokenInv

LEMMA CallInv ==
    ASSUME TokenInv, NEW t \in Threads, NEW c \in Credentials,
           IsAuthorized(t, c) \/ IsValidApiKey(t, c)
    PROVE  TokenInv'
<1>1. Asking(c, FALSE) \in ThreadStates /\ Asking(c, FALSE).credential = c
      /\ Asking(c, FALSE).pc = "ask"
  BY DEF Asking, ThreadStates
<1>2. \A v \in {"granted", "denied"} : Finished(v) \in ThreadStates /\ Finished(v).pc = "idle"
  BY DEF Finished, Idle, ThreadStates
<1>3. PICK s \in {Asking(c, FALSE), Finished("granted"), Finished("denied")} :
          thread' = [thread EXCEPT ![t] = s]
  BY DEF IsAuthorized, IsValidApiKey
<1>4. cached' \subseteq cached /\ UNCHANGED <<revoked, past, removals, removed, raced>>
  BY DEF IsAuthorized, IsValidApiKey
<1>5. QED
  BY <1>1, <1>2, <1>3, <1>4, ThreadMoves

LEMMA AskInv ==
    ASSUME TokenInv, NEW t \in Threads, Ask(t)
    PROVE  TokenInv'
<1>1. PICK a \in {"timeout", IF Knows(thread[t].credential, thread[t].sub) THEN "ok" ELSE "no"} :
          thread' = [thread EXCEPT ![t].pc = "told", ![t].answer = a]
  BY DEF Ask
<1> DEFINE s == [thread[t] EXCEPT !.pc = "told", !.answer = a]
<1>2. thread[t] \in ThreadStates /\ thread[t].credential \in Credentials
  BY DEF Ask, TokenInv, TokenTypeOK
<1>3. s \in ThreadStates /\ s.credential = thread[t].credential /\ s.answer = a
  BY <1>1, <1>2 DEF ThreadStates
<1>4. thread' = [thread EXCEPT ![t] = s]
  BY <1>1
<1>5. a = "ok" => thread[t].credential \notin removed
  BY <1>1 DEF Knows, TokenInv, RemovalsRevoked
<1>6. cached' \subseteq cached /\ UNCHANGED <<revoked, past, removals, removed, raced>>
  BY DEF Ask
<1> HIDE DEF s
<1>7. QED
  BY <1>2, <1>3, <1>4, <1>5, <1>6, ThreadMoves

LEMMA ToldInv ==
    ASSUME TokenInv, NEW t \in Threads, Told(t)
    PROVE  TokenInv'
<1> DEFINE c == thread[t].credential
<1>1. c \in Credentials /\ thread[t] \in ThreadStates /\ thread[t].pc = "told"
  BY DEF Told, TokenInv, TokenTypeOK
<1>2. Asking(c, TRUE) \in ThreadStates /\ Asking(c, TRUE).pc = "ask"
      /\ Asking(c, TRUE).credential = c
  BY <1>1 DEF Asking, ThreadStates
<1>3. \A v \in {"granted", "denied"} : Finished(v) \in ThreadStates /\ Finished(v).pc = "idle"
  BY DEF Finished, Idle, ThreadStates
<1>4. UNCHANGED <<revoked, past, removals, removed, raced>>
  BY DEF Told
<1>5. CASE Accepted(c, thread[t].answer)
  <2>1. cached' = cached \union {c} /\ thread' = [thread EXCEPT ![t] = Finished("granted")]
    BY <1>5 DEF Told
  <2>2. c \in removed => c \in raced
    BY <1>1, <1>5 DEF Accepted, TokenInv, AnswersRaced
  <2>3. TokenTypeOK' /\ AnswersRaced'
    BY <1>1, <1>3, <1>4, <2>1 DEF TokenInv, TokenTypeOK, AnswersRaced
  <2>4. RemovalsRevoked' /\ RemovedStaysOut'
    BY <1>4, <2>1, <2>2 DEF TokenInv, RemovalsRevoked, RemovedStaysOut
  <2>5. QED
    BY <2>3, <2>4 DEF TokenInv
<1>6. CASE ~Accepted(c, thread[t].answer)
  <2>1. PICK s \in {Asking(c, TRUE), Finished("denied")} : thread' = [thread EXCEPT ![t] = s]
    BY <1>6 DEF Told
  <2>2. cached' = cached
    BY <1>6 DEF Told
  <2>3. QED
    BY <1>1, <1>2, <1>3, <1>4, <2>1, <2>2, ThreadMoves
<1>7. QED
  BY <1>5, <1>6

LEMMA RemoveTokenInv ==
    ASSUME TokenInv, NEW c \in Credentials, RemoveToken(c)
    PROVE  TokenInv'
<1>1. TokenTypeOK'
  BY DEF RemoveToken, WithoutCredential, TokenInv, TokenTypeOK
<1>2. RemovalsRevoked'
  BY DEF RemoveToken, TokenInv, RemovalsRevoked
<1>3. AnswersRaced'
  BY DEF RemoveToken, TokenInv, AnswersRaced
<1>4. RemovedStaysOut'
  BY DEF RemoveToken, WithoutCredential, TokenInv, RemovedStaysOut
<1>5. QED
  BY <1>1, <1>2, <1>3, <1>4 DEF TokenInv

LEMMA EnvironmentInv ==
    ASSUME TokenInv, NEW c \in Credentials,
           Revoke(c) \/ CacheExpires(c) \/ DatePasses(c)
    PROVE  TokenInv'
<1> USE DEF Revoke, CacheExpires, DatePasses, TokenInv
<1>1. TokenTypeOK'
  BY DEF TokenTypeOK
<1>2. RemovalsRevoked' /\ AnswersRaced' /\ RemovedStaysOut'
  BY DEF RemovalsRevoked, AnswersRaced, RemovedStaysOut
<1>3. QED
  BY <1>1, <1>2

(***************************************************************************)
(* Once RemovedCachedToken has handled the removal of a credential, the    *)
(* only way back into the cache is the answer a thread was already         *)
(* fetching: no later IsAuthorized or IsValidApiKey caches it again.       *)
(***************************************************************************)
THEOREM RemovedStaysOutTheorem == TokenSpec => []RemovedStaysOut
<1>1. TokenInv /\ [TokenNext]_tvars => TokenInv'
  <2> SUFFICES ASSUME TokenInv, [TokenNext]_tvars
               PROVE  TokenInv'
    OBVIOUS
  <2>1. ASSUME NEW t \in Threads, NEW c \in Credentials, IsAuthorized(t, c) \/ IsValidApiKey(t, c)
        PROVE  TokenInv'
    BY <2>1, CallInv
  <2>2. ASSUME NEW t \in Threads, Ask(t)
        PROVE  TokenInv'
    BY <2>2, AskInv
  <2>3. ASSUME NEW t \in Threads, Told(t)
        PROVE  TokenInv'
    BY <2>3, ToldInv
  <2>4. ASSUME NEW c \in Credentials, RemoveToken(c)
        PROVE  TokenInv'
    BY <2>4, RemoveTokenInv
  <2>5. ASSUME NEW c \in Credentials, Revoke(c) \/ CacheExpires(c) \/ DatePasses(c)
        PROVE  TokenInv'
    BY <2>5, EnvironmentInv
  <2>6. CASE AuthStop
    BY <2>6 DEF AuthStop, TokenInv, TokenTypeOK, RemovalsRevoked, AnswersRaced, RemovedStaysOut
  <2>7. CASE UNCHANGED tvars
    BY <2>7 DEF tvars, TokenInv, TokenTypeOK, RemovalsRevoked, AnswersRaced, RemovedStaysOut
  <2>8. QED
    BY <2>1, <2>2, <2>3, <2>4, <2>5, <2>6, <2>7 DEF TokenNext
<1>2. TokenInv => RemovedStaysOut
  BY DEF TokenInv
<1>3. QED
  BY TokenInitInv, <1>1, <1>2, PTL DEF TokenSpec

-----------------------------------------------------------------------------
(* RadiusEndpoints: the two times of the status file show a due update,    *)
(* for every set of endpoints, accounts and certificates.                  *)
(***************************************************************************)

Times == [update : Nat, change : Nat]

RadiusTypeOK ==
    /\ endpoints \in [DOMAIN endpoints ->
                        [type : EndpointTypes, index : Indexes,
                         account : CertIds \union OrionIds \union {Nothing}, version : Nat]]
    /\ certs \in [DOMAIN certs -> [account : AccountIds, version : Nat]]
    /\ issuing \in AccountIds \union {Nothing}
    /\ status \in Times
    /\ handler \in [at : {"idle", "changed", "read"}, seen : Times]
    /\ updater.at \in {"idle", "built", "accepted", "read"}
    /\ updater = [at |-> updater.at, seen |-> updater.seen, pools |-> updater.pools,
                  late |-> updater.late]
    /\ updater.late \in BOOLEAN
    /\ now \in Nat
    /\ blurred \in BOOLEAN

\* Whatever a record names was handed out, so a new identifier makes no endpoint
\* usable that was not.
NamesIssued ==
    /\ \A p \in DOMAIN endpoints :
        endpoints[p].type \in {"orion", "globalreach"} => endpoints[p].account \in issuedIds
    /\ \A c \in DOMAIN certs : certs[c].account \in issuedIds
    /\ DOMAIN certs \subseteq issuedIds
    /\ accounts \subseteq issuedIds /\ orions \subseteq issuedIds
    /\ issuing # Nothing => issuing \in issuedIds

\* The time a handler read is not after the one in the file, nor that after now.
TimesOrdered ==
    /\ status.update <= now
    /\ handler.at = "read" => handler.seen.update <= status.update

\* g holds every usable endpoint as it is now, and no deleted one.
Covers(g) ==
    /\ DOMAIN g \subseteq DOMAIN endpoints
    /\ \A p \in DOMAIN Pools : p \in DOMAIN g /\ g[p] = Pools[p]

\* What the updater is about to send is current unless a change came in since.
PoolsCurrent == updater.at = "built" /\ ~updater.late => Covers(updater.pools)

\* Until the gateway accepts, the file may be what shows the update is due; from
\* then until the file is saved, only what the gateway has counts.
Shown ==
    /\ ~blurred /\ handler.at = "idle" =>
        \/ Covers(gateway)
        \/ status.change > status.update /\ updater.at \in {"idle", "built"}
    /\ updater.at \in {"accepted", "read"} /\ ~updater.late => Covers(gateway)

RadiusInv == RadiusTypeOK /\ NamesIssued /\ TimesOrdered /\ PoolsCurrent /\ Shown

LEMMA RadiusInitInv == RadiusInit => RadiusInv
<1> SUFFICES ASSUME RadiusInit PROVE RadiusInv
  OBVIOUS
<1> USE DEF RadiusInit
<1>0. DOMAIN endpoints = {} /\ DOMAIN certs = {} /\ DOMAIN gateway = {}
  OBVIOUS
<1>1. RadiusTypeOK
  <2>1. \A S : <<>> \in [DOMAIN <<>> -> S]
    OBVIOUS
  <2>2. /\ endpoints \in [DOMAIN endpoints ->
                        [type : EndpointTypes, index : Indexes,
                         account : CertIds \union OrionIds \union {Nothing}, version : Nat]]
        /\ certs \in [DOMAIN certs -> [account : AccountIds, version : Nat]]
    BY ONLY <2>1, RadiusInit DEF RadiusInit
  <2>3. QED
    BY ONLY RadiusInit, <2>2 DEF RadiusInit, RadiusTypeOK, Times, NoStatus
<1>2. NamesIssued
  BY <1>0 DEF NamesIssued
<1>3. TimesOrdered
  BY DEF TimesOrdered, NoStatus
<1>4. Covers(gateway)
  BY <1>0 DEF Covers, Pools
<1>5. PoolsCurrent /\ Shown
  BY <1>4 DEF PoolsCurrent, Shown
<1>6. QED
  BY <1>1, <1>2, <1>3, <1>5 DEF RadiusInv

(***************************************************************************)
(* A step that leaves the endpoints alone, adds only identifiers not       *)
(* handed out before and changes no certificate makes no endpoint usable   *)
(* and changes no pool.                                                    *)
(***************************************************************************)
Quiet ==
    /\ endpoints' = endpoints
    /\ \A a \in accounts' : a \in issuedIds => a \in accounts
    /\ \A o \in orions' : o \in issuedIds => o \in orions
    /\ \A c \in DOMAIN certs' : c \in issuedIds => c \in DOMAIN certs /\ certs'[c] = certs[c]

LEMMA PoolsShrink ==
    ASSUME NamesIssued, Quiet
    PROVE  \A p \in DOMAIN Pools' : p \in DOMAIN Pools /\ Pools'[p] = Pools[p]
<1> SUFFICES ASSUME NEW p \in DOMAIN Pools'
             PROVE  p \in DOMAIN Pools /\ Pools'[p] = Pools[p]
  OBVIOUS
<1>1. p \in DOMAIN endpoints /\ Usable(p)'
  BY DEF Pools, Quiet
<1>2. CASE endpoints[p].type = "orion"
  BY <1>1, <1>2 DEF Usable, Pools, Quiet, NamesIssued
<1>3. CASE endpoints[p].type = "globalreach"
  <2> DEFINE c == endpoints[p].account
  <2>1. c \in DOMAIN certs' /\ certs'[c].account \in accounts'
    BY <1>1, <1>3 DEF Usable, Quiet
  <2>2. c \in DOMAIN certs /\ certs'[c] = certs[c]
    BY <1>1, <1>3, <2>1 DEF Quiet, NamesIssued
  <2>3. certs[c].account \in accounts
    BY <2>1, <2>2 DEF Quiet, NamesIssued
  <2>4. Usable(p)
    BY <1>3, <2>2, <2>3 DEF Usable
  <2>5. QED
    BY <1>1, <1>3, <2>2, <2>4 DEF Pools, Quiet
<1>4. CASE endpoints[p].type \notin {"orion", "globalreach"}
  BY <1>1, <1>4 DEF Usable, Pools, Quiet
<1>5. QED
  BY <1>2, <1>3, <1>4

LEMMA CoversKept ==
    ASSUME NamesIssued, Quiet
    PROVE  /\ gateway' = gateway /\ Covers(gateway) => Covers(gateway)'
           /\ updater'.pools = updater.pools /\ Covers(updater.pools) => Covers(updater.pools)'
<1>1. \A p \in DOMAIN Pools' : p \in DOMAIN Pools /\ Pools'[p] = Pools[p]
  BY PoolsShrink
<1>2. endpoints' = endpoints
  BY DEF Quiet
<1>3. QED
  BY <1>1, <1>2 DEF Covers

(***************************************************************************)
(* The records: what does not call ChangeConfiguration.                    *)
(***************************************************************************)
LEMMA RecordsOnly ==
    ASSUME RadiusInv, Quiet, RadiusTypeOK', NamesIssued',
           UNCHANGED <<status, handler, updater, gateway, now, blurred>>
    PROVE  RadiusInv'
<1>1. /\ Covers(gateway) => Covers(gateway)'
      /\ Covers(updater.pools) => Covers(updater.pools)'
  BY CoversKept DEF RadiusInv
<1>2. TimesOrdered' /\ PoolsCurrent' /\ Shown'
  BY <1>1 DEF RadiusInv, TimesOrdered, PoolsCurrent, Shown
<1>3. QED
  BY <1>2 DEF RadiusInv

LEMMA AccountsInv ==
    ASSUME RadiusInv, NEW a \in AccountIds,
           AccountPost(a) \/ AccountDelete(a) \/ CertificateAsked(a) \/ CertificateRefused
    PROVE  RadiusInv'
<1> USE DEF AccountPost, AccountDelete, CertificateAsked, CertificateRefused, Without
<1>1. RadiusTypeOK'
  BY DEF RadiusInv, RadiusTypeOK
<1>2. NamesIssued'
  BY DEF RadiusInv, RadiusTypeOK, NamesIssued
<1>3. Quiet
  BY DEF RadiusInv, RadiusTypeOK, NamesIssued, Quiet
<1>4. UNCHANGED <<status, handler, updater, gateway, now, blurred>>
  OBVIOUS
<1>5. QED
  BY <1>1, <1>2, <1>3, <1>4, RecordsOnly

LEMMA OrionsInv ==
    ASSUME RadiusInv, NEW o \in OrionIds, OrionPost(o) \/ OrionDelete(o)
    PROVE  RadiusInv'
<1> USE DEF OrionPost, OrionDelete
<1>1. RadiusTypeOK'
  BY DEF RadiusInv, RadiusTypeOK
<1>2. NamesIssued'
  BY DEF RadiusInv, RadiusTypeOK, NamesIssued
<1>3. Quiet
  BY DEF RadiusInv, RadiusTypeOK, NamesIssued, Quiet
<1>4. UNCHANGED <<status, handler, updater, gateway, now, blurred>>
  OBVIOUS
<1>5. QED
  BY <1>1, <1>2, <1>3, <1>4, RecordsOnly

LEMMA CertificatesInv ==
    ASSUME RadiusInv, NEW a \in AccountIds, NEW c \in CertIds,
           CertificateIssued(c) \/ CertificateDelete(a, c)
    PROVE  RadiusInv'
<1> USE DEF CertificateIssued, CertificateDelete, With, Without
<1>1. RadiusTypeOK'
  BY DEF RadiusInv, RadiusTypeOK
<1>2. NamesIssued'
  BY DEF RadiusInv, RadiusTypeOK, NamesIssued
<1>3. Quiet
  BY DEF RadiusInv, RadiusTypeOK, NamesIssued, Quiet
<1>4. UNCHANGED <<status, handler, updater, gateway, now, blurred>>
  OBVIOUS
<1>5. QED
  BY <1>1, <1>2, <1>3, <1>4, RecordsOnly

(***************************************************************************)
(* The changes: the handler is at work and the updater, if it is, is late. *)
(***************************************************************************)
LEMMA ChangesInv ==
    ASSUME RadiusInv, Changes, RadiusTypeOK', NamesIssued',
           UNCHANGED <<status, gateway, now, blurred>>
    PROVE  RadiusInv'
<1>1. handler'.at = "changed" /\ updater'.late = TRUE
  BY DEF RadiusInv, RadiusTypeOK, Changes
<1>2. TimesOrdered' /\ PoolsCurrent' /\ Shown'
  BY <1>1 DEF RadiusInv, TimesOrdered, PoolsCurrent, Shown
<1>3. QED
  BY <1>2 DEF RadiusInv

LEMMA EndpointPostInv ==
    ASSUME RadiusInv, NEW p \in EndpointIds, NEW type \in EndpointTypes, NEW index \in Indexes,
           NEW account \in CertIds \union OrionIds \union {Nothing},
           EndpointPost(p, type, index, account)
    PROVE  RadiusInv'
<1> USE DEF EndpointPost, With
<1>1. RadiusTypeOK'
  BY DEF RadiusInv, RadiusTypeOK, Changes
<1>2. NamesIssued'
  <2>1. type \in {"orion", "globalreach"} => account \in issuedIds
    BY DEF RadiusInv, NamesIssued
  <2>2. \A q \in DOMAIN endpoints' :
          endpoints'[q].type \in {"orion", "globalreach"} => endpoints'[q].account \in issuedIds'
    BY <2>1 DEF RadiusInv, RadiusTypeOK, NamesIssued
  <2>3. QED
    BY <2>2 DEF RadiusInv, NamesIssued
<1>3. QED
  BY <1>1, <1>2, ChangesInv

LEMMA EndpointPutInv ==
    ASSUME RadiusInv, NEW p \in EndpointIds, EndpointPut(p) \/ EndpointDelete(p)
    PROVE  RadiusInv'
<1> USE DEF EndpointPut, EndpointDelete, Without
<1>1. RadiusTypeOK'
  <2> DEFINE E == [type : EndpointTypes, index : Indexes,
                   account : CertIds \union OrionIds \union {Nothing}, version : Nat]
  <2>1. endpoints \in [DOMAIN endpoints -> E]
    BY DEF RadiusInv, RadiusTypeOK
  <2>2. CASE EndpointPut(p)
    <3>1. [endpoints[p] EXCEPT !.version = @ + 1] \in E
      BY <2>1, <2>2
    <3>2. endpoints' = [endpoints EXCEPT ![p] = [endpoints[p] EXCEPT !.version = @ + 1]]
      BY <2>2
    <3> HIDE DEF E
    <3>3. endpoints' \in [DOMAIN endpoints' -> E]
      BY <2>1, <2>2, <3>1, <3>2
    <3>4. QED
      BY <2>2, <3>3 DEF RadiusInv, RadiusTypeOK, Changes, E
  <2>3. CASE EndpointDelete(p)
    BY <2>3 DEF RadiusInv, RadiusTypeOK, Changes
  <2>4. QED
    BY <2>2, <2>3
<1>2. NamesIssued'
  BY DEF RadiusInv, RadiusTypeOK, NamesIssued
<1>3. QED
  BY <1>1, <1>2, ChangesInv

LEMMA CertificatePutInv ==
    ASSUME RadiusInv, NEW a \in AccountIds, NEW c \in CertIds, CertificatePut(a, c)
    PROVE  RadiusInv'
<1> USE DEF CertificatePut
<1>1. RadiusTypeOK'
  <2> DEFINE C == [account : AccountIds, version : Nat]
  <2>1. certs \in [DOMAIN certs -> C]
    BY DEF RadiusInv, RadiusTypeOK
  <2>2. [certs[c] EXCEPT !.version = @ + 1] \in C
    BY <2>1
  <2>3. certs' = [certs EXCEPT ![c] = [certs[c] EXCEPT !.version = @ + 1]]
    OBVIOUS
  <2> HIDE DEF C
  <2>4. certs' \in [DOMAIN certs' -> C]
    BY <2>1, <2>2, <2>3
  <2>5. QED
    BY <2>4 DEF RadiusInv, RadiusTypeOK, Changes, C
<1>2. NamesIssued'
  BY DEF RadiusInv, RadiusTypeOK, NamesIssued
<1>3. QED
  BY <1>1, <1>2, ChangesInv

(***************************************************************************)
(* The file: no record changes, so neither do the pools.                   *)
(***************************************************************************)
DataUnchanged == UNCHANGED <<endpoints, issuedIds, accounts, certs, orions>>

LEMMA DataKept ==
    ASSUME NamesIssued, DataUnchanged, issuing' \in {issuing, Nothing}
    PROVE  Pools' = Pools /\ Quiet /\ NamesIssued'
BY DEF DataUnchanged, Pools, Usable, Quiet, NamesIssued

LEMMA StatusReadInv ==
    ASSUME RadiusInv, StatusRead
    PROVE  RadiusInv'
<1> USE DEF StatusRead
<1>1. RadiusTypeOK'
  BY DEF RadiusInv, RadiusTypeOK
<1>2. NamesIssued'
  BY DataKept DEF RadiusInv, DataUnchanged
<1>3. TimesOrdered'
  BY DEF RadiusInv, RadiusTypeOK, TimesOrdered, Times
<1>4. PoolsCurrent' /\ Shown'
  <2>1. Quiet
    BY DataKept DEF RadiusInv, DataUnchanged
  <2>2. QED
    BY <2>1, CoversKept DEF RadiusInv, PoolsCurrent, Shown
<1>5. QED
  BY <1>1, <1>2, <1>3, <1>4 DEF RadiusInv

LEMMA StatusSaveInv ==
    ASSUME RadiusInv, StatusSave
    PROVE  RadiusInv'
<1> USE DEF StatusSave
<1>1. RadiusTypeOK'
  BY DEF RadiusInv, RadiusTypeOK, NoStatus, Times
<1>2. NamesIssued' /\ Quiet
  BY DataKept DEF RadiusInv, DataUnchanged
<1>3. /\ status'.update = handler.seen.update /\ status'.change = now /\ now' = now
      /\ handler'.at = "idle"
  BY DEF RadiusInv, RadiusTypeOK, Times
<1>4. /\ handler.seen.update \in Nat /\ status.update \in Nat /\ now \in Nat
      /\ handler.seen.update <= status.update /\ status.update <= now
  BY DEF RadiusInv, RadiusTypeOK, TimesOrdered, Times
<1>5. TimesOrdered'
  BY <1>3, <1>4 DEF TimesOrdered
<1>6. ~blurred' => status'.change > status'.update /\ updater'.at = "idle"
  <2>1. ~blurred' => now # status.update /\ updater.at = "idle"
    OBVIOUS
  <2>2. QED
    BY <1>3, <1>4, <2>1
<1>7. PoolsCurrent'
  BY <1>2, CoversKept DEF RadiusInv, PoolsCurrent
<1>8. Shown'
  BY <1>2, <1>6, CoversKept DEF RadiusInv, Shown
<1>9. QED
  BY <1>1, <1>2, <1>5, <1>7, <1>8 DEF RadiusInv

LEMMA UpdateInv ==
    ASSUME RadiusInv,
           UpdateReads \/ UpdateRefused \/ UpdateAccepted \/ UpdateStatusRead \/ UpdateStatusSave
    PROVE  RadiusInv'
<1> USE DEF UpdateReads, UpdateRefused, UpdateAccepted, UpdateStatusRead, UpdateStatusSave
<1>1. RadiusTypeOK'
  <2>1. /\ updater'.at \in {"idle", "built", "accepted", "read"}
        /\ updater' = [at |-> updater'.at, seen |-> updater'.seen, pools |-> updater'.pools,
                       late |-> updater'.late]
        /\ updater'.late \in BOOLEAN
    <3>1. CASE UpdateReads \/ UpdateStatusSave
      <4>1. PICK at, pools :
                /\ at \in {"idle", "built"}
                /\ updater' = [at |-> at, seen |-> NoStatus, pools |-> pools, late |-> FALSE]
        BY <3>1
      <4>2. updater'.late = FALSE
        BY ONLY <4>1
      <4>3. QED
        BY ONLY <4>1, <4>2
    <3>2. CASE UpdateRefused \/ UpdateAccepted
      BY <3>2 DEF RadiusInv, RadiusTypeOK
    <3>3. CASE UpdateStatusRead
      BY <3>3 DEF RadiusInv, RadiusTypeOK
    <3>4. QED
      BY <3>1, <3>2, <3>3
  <2>2. blurred' \in BOOLEAN
    BY DEF RadiusInv, RadiusTypeOK
  <2>3. status' \in Times
    BY DEF RadiusInv, RadiusTypeOK, Times
  <2>4. QED
    BY <2>1, <2>2, <2>3 DEF RadiusInv, RadiusTypeOK
<1>2. NamesIssued' /\ Quiet /\ Pools' = Pools /\ endpoints' = endpoints
  BY DataKept DEF RadiusInv, DataUnchanged
<1>3. TimesOrdered'
  BY DEF RadiusInv, RadiusTypeOK, TimesOrdered, Times
<1>4. CASE UpdateReads
  <2>1. updater'.at = "built" /\ updater'.pools = Pools
    BY <1>4
  <2>2. Covers(updater.pools)'
    BY <1>2, <2>1 DEF Covers, Pools
  <2>3. Covers(gateway) => Covers(gateway)'
    BY <1>2, <1>4, CoversKept DEF RadiusInv
  <2>4. QED
    BY <1>1, <1>2, <1>3, <1>4, <2>1, <2>2, <2>3 DEF RadiusInv, PoolsCurrent, Shown
<1>5. CASE UpdateRefused
  <2>1. updater'.at = "idle"
    BY <1>5 DEF RadiusInv, RadiusTypeOK
  <2>2. Covers(gateway) => Covers(gateway)'
    BY <1>2, <1>5, CoversKept DEF RadiusInv
  <2>3. QED
    BY <1>1, <1>2, <1>3, <1>5, <2>1, <2>2 DEF RadiusInv, PoolsCurrent, Shown
<1>6. CASE UpdateAccepted
  <2>1. updater'.at = "accepted" /\ updater'.late = updater.late
    BY <1>6 DEF RadiusInv, RadiusTypeOK
  <2>2. ~updater.late => Covers(gateway)'
    BY <1>2, <1>6 DEF RadiusInv, PoolsCurrent, Covers
  <2>3. QED
    BY <1>1, <1>2, <1>3, <1>6, <2>1, <2>2 DEF RadiusInv, PoolsCurrent, Shown
<1>7. CASE UpdateStatusRead
  <2>1. updater'.at = "read" /\ updater'.late = updater.late
    BY <1>7 DEF RadiusInv, RadiusTypeOK
  <2>2. Covers(gateway) => Covers(gateway)'
    BY <1>2, <1>7, CoversKept DEF RadiusInv
  <2>3. QED
    BY <1>1, <1>2, <1>3, <1>7, <2>1, <2>2 DEF RadiusInv, PoolsCurrent, Shown
<1>8. CASE UpdateStatusSave
  <2>1. updater'.at = "idle"
    BY <1>8
  <2>2. Covers(gateway) => Covers(gateway)'
    BY <1>2, <1>8, CoversKept DEF RadiusInv
  <2>3. ~blurred' => Covers(gateway)
    BY <1>8 DEF RadiusInv, Shown
  <2>4. QED
    BY <1>1, <1>2, <1>3, <1>8, <2>1, <2>2, <2>3 DEF RadiusInv, PoolsCurrent, Shown
<1>9. QED
  BY <1>4, <1>5, <1>6, <1>7, <1>8

LEMMA CrashInv ==
    ASSUME RadiusInv, NEW file \in {status, NoStatus}, RadiusCrash(file)
    PROVE  RadiusInv'
<1> USE DEF RadiusCrash
<1>1. RadiusTypeOK'
  BY DEF RadiusInv, RadiusTypeOK, NoStatus, Times
<1>2. NamesIssued' /\ Quiet
  BY DataKept DEF RadiusInv, DataUnchanged
<1>3. TimesOrdered'
  BY DEF RadiusInv, RadiusTypeOK, TimesOrdered, Times, NoStatus
<1>4. Covers(gateway) => Covers(gateway)'
  BY <1>2, CoversKept DEF RadiusInv
<1>5. ~blurred' => Covers(gateway) \/ status'.change > status'.update
  BY DEF RadiusInv, RadiusTypeOK, Shown
<1>6. PoolsCurrent' /\ Shown'
  BY <1>4, <1>5 DEF PoolsCurrent, Shown
<1>7. QED
  BY <1>1, <1>2, <1>3, <1>6 DEF RadiusInv

LEMMA SecondPassesInv ==
    ASSUME RadiusInv, SecondPasses
    PROVE  RadiusInv'
<1> USE DEF SecondPasses
<1>1. RadiusTypeOK'
  BY DEF RadiusInv, RadiusTypeOK
<1>2. NamesIssued' /\ Quiet
  BY DataKept DEF RadiusInv, DataUnchanged
<1>3. TimesOrdered'
  BY DEF RadiusInv, RadiusTypeOK, TimesOrdered, Times
<1>4. PoolsCurrent' /\ Shown'
  BY <1>2, CoversKept DEF RadiusInv, PoolsCurrent, Shown
<1>5. QED
  BY <1>1, <1>2, <1>3, <1>4 DEF RadiusInv

(***************************************************************************)
(* With no request under way the gateway has the endpoints as they are, or *)
(* the file written by ChangeConfiguration and UpdateEndpoints shows that  *)
(* an update is due, however the two interleave and wherever the service   *)
(* crashes, but for the changes the two times cannot tell.                 *)
(***************************************************************************)
THEOREM UpdateDueShownTheorem == RadiusSpec => []UpdateDueShown
<1>1. RadiusInv /\ [RadiusNext]_radiusVars => RadiusInv'
  <2> SUFFICES ASSUME RadiusInv, [RadiusNext]_radiusVars
               PROVE  RadiusInv'
    OBVIOUS
  <2>1. CASE StatusRead \/ StatusSave
    BY <2>1, StatusReadInv, StatusSaveInv
  <2>2. ASSUME NEW p \in EndpointIds,
               \/ \E type \in EndpointTypes, index \in Indexes,
                     account \in CertIds \union OrionIds \union {Nothing} :
                       EndpointPost(p, type, index, account)
               \/ EndpointPut(p) \/ EndpointDelete(p)
        PROVE  RadiusInv'
    BY <2>2, EndpointPostInv, EndpointPutInv
  <2>3. ASSUME NEW a \in AccountIds,
               \/ AccountPost(a) \/ AccountDelete(a) \/ CertificateAsked(a)
               \/ \E c \in CertIds : CertificatePut(a, c) \/ CertificateDelete(a, c)
        PROVE  RadiusInv'
    BY <2>3, AccountsInv, CertificatePutInv, CertificatesInv
  <2>4. ASSUME NEW o \in OrionIds, OrionPost(o) \/ OrionDelete(o)
        PROVE  RadiusInv'
    BY <2>4, OrionsInv
  <2>5. ASSUME CertificateRefused \/ \E c \in CertIds : CertificateIssued(c)
        PROVE  RadiusInv'
    <3>1. PICK a \in AccountIds : issuing = a
      BY <2>5 DEF CertificateRefused, CertificateIssued, RadiusInv, RadiusTypeOK
    <3>2. QED
      BY <2>5, <3>1, AccountsInv, CertificatesInv
  <2>6. CASE UpdateReads \/ UpdateRefused \/ UpdateAccepted \/ UpdateStatusRead \/ UpdateStatusSave
    BY <2>6, UpdateInv
  <2>7. ASSUME NEW file \in {status, NoStatus}, RadiusCrash(file)
        PROVE  RadiusInv'
    BY <2>7, CrashInv
  <2>8. CASE SecondPasses
    BY <2>8, SecondPassesInv
  <2>9. CASE UNCHANGED radiusVars
    <3> USE <2>9 DEF radiusVars
    <3>1. RadiusTypeOK' /\ NamesIssued' /\ Quiet
      BY DEF RadiusInv, RadiusTypeOK, NamesIssued, Quiet
    <3>2. QED
      BY <3>1, RecordsOnly
  <2>10. QED
    BY <2>1, <2>2, <2>3, <2>4, <2>5, <2>6, <2>7, <2>8, <2>9 DEF RadiusNext
<1>2. RadiusInv => UpdateDueShown
  BY DEF RadiusInv, Shown, Covers, UpdateDueShown
<1>3. QED
  BY RadiusInitInv, <1>1, <1>2, PTL DEF RadiusSpec

-----------------------------------------------------------------------------
(* Discovery: the row, the cached serial number and the entry in the list  *)
(* of devices stay together.  The invariant says where a serial number is  *)
(* in every step of the one agent that works on it, and that it is whole   *)
(* when none does.                                                         *)
(***************************************************************************)

Owners  == Places \cup {Nowhere}
Methods == {"none", "claiming", "settled", "unreadable"}
Rows    == [serial : Serials, place : Owners, method : Methods]

WorkerPcs == {"new", "created", "cached", "placed", "known", "changed", "written"}
RestPcs   == {"posting", "created", "owned", "cached", "putting", "put", "moved",
              "deleting", "unlisted", "deleted"}
WorkerStates ==
    [pc : WorkerPcs, serial : Serials, id : 0..MaxTags, tag : Rows, kind : Kinds]
RestStates ==
    [pc : RestPcs, serial : Serials, id : 0..MaxTags, tag : Rows, from : Owners]

PcsOf(a)   == IF a = Worker THEN WorkerPcs ELSE RestPcs
Working(a) == IF a = Worker THEN WorkerStates ELSE RestStates

TablesOK ==
    /\ created \in 0..MaxTags
    /\ tags \in [TagIds -> Rows \cup {Absent}]
    /\ devices \in [Places -> SUBSET (1..created)]
    /\ serialCache \in SUBSET Serials
    /\ \A i \in TagIds : i > created => tags[i] = Absent

AgentsOK ==
    /\ agent \in [Agents -> WorkerStates \cup RestStates \cup {Resting}]
    /\ \A a \in Agents : agent[a] \in Working(a) \cup {Resting}

QueueOK == queue \in Seq([kind : Kinds, serial : Serials])

Busy(a, s) == ~At(a, "idle") /\ agent[a].serial = s

\* Two threads never work on one serial number unnoticed.
Alone ==
    \A a, b \in Agents : a # b =>
       \A s \in Serials \ overlapped : ~(Busy(a, s) /\ Busy(b, s))

\* The row a thread works on was its serial number's, or is gone.
OwnRow(a) ==
    ~At(a, "idle") =>
       /\ agent[a].tag.serial = agent[a].serial
       /\ agent[a].pc \notin {"new", "posting"} =>
            /\ agent[a].id \in 1..created
            /\ tags[agent[a].id].serial \in {"absent", agent[a].serial}

Sole(s, i)     == TagsOf(s) = {i}
ListedAt(i, q) == \A p \in Places : i \in devices[p] <=> p = q
Missing(s)     == TagsOf(s) = {} /\ s \notin serialCache
Whole(s)       ==
    \/ Missing(s)
    \/ \E i \in TagIds : Sole(s, i) /\ s \in serialCache /\ ListedAt(i, tags[i].place)

\* Where a serial number is while one thread is at work on it.
Halfway(a) ==
    LET s == agent[a].serial
        i == agent[a].id
        row == agent[a].tag
        pc == agent[a].pc
    IN  /\ pc \in {"new", "posting"} => Missing(s)
        /\ pc \in {"created", "owned"} =>
             Sole(s, i) /\ tags[i] = row /\ s \notin serialCache /\ ListedAt(i, Nowhere)
        /\ pc = "cached" =>
             Sole(s, i) /\ tags[i] = row /\ s \in serialCache /\ ListedAt(i, Nowhere)
        /\ pc \in {"placed", "moved"} => Whole(s)
        /\ pc \in {"known", "changed", "written"} =>
             Sole(s, i) /\ s \in serialCache /\ ListedAt(i, tags[i].place)
               /\ row.place = tags[i].place
        /\ pc \in {"putting", "deleting"} =>
             Sole(s, i) /\ s \in serialCache /\ ListedAt(i, tags[i].place)
               /\ agent[a].from = tags[i].place
        /\ pc = "put" =>
             Sole(s, i) /\ tags[i] = row /\ s \in serialCache /\ ListedAt(i, agent[a].from)
        /\ pc = "unlisted" => Sole(s, i) /\ s \in serialCache /\ ListedAt(i, Nowhere)
        /\ pc = "deleted" => TagsOf(s) = {} /\ s \in serialCache

AllWhole ==
    \A s \in Serials \ overlapped : (\A a \in Agents : ~Busy(a, s)) => Whole(s)

AllHalfway ==
    \A a \in Agents : ~At(a, "idle") /\ agent[a].serial \notin overlapped => Halfway(a)

DiscoveryInv ==
    /\ TablesOK /\ AgentsOK /\ QueueOK /\ Alone
    /\ \A a \in Agents : OwnRow(a)
    /\ AllHalfway /\ AllWhole

-----------------------------------------------------------------------------
(* What a step that is about serial number s leaves alone.                 *)
(***************************************************************************)
OnlyOn(s) ==
    /\ created' \in created..MaxTags
    /\ \A i \in TagIds :
         tags'[i] = tags[i] \/ (tags[i].serial \in {"absent", s} /\ tags'[i].serial \in {"absent", s})
    /\ \A i \in 1..created : tags'[i].serial \in {tags[i].serial, "absent"}
    /\ \A r \in Serials \ {s} : r \in serialCache' <=> r \in serialCache
    /\ \A i \in TagIds, p \in Places :
         (i \in devices'[p] <=> i \in devices[p]) \/ tags'[i].serial \in {"absent", s}

\* An agent at work has its serial number, row and identifier.
LEMMA Fields ==
    ASSUME AgentsOK, NEW a \in Agents, ~At(a, "idle")
    PROVE  /\ agent[a] \in Working(a)
           /\ agent[a].pc \in PcsOf(a) /\ agent[a].serial \in Serials
           /\ agent[a].id \in 0..MaxTags /\ agent[a].tag \in Rows
           /\ a \in RestThreads => agent[a].from \in Owners
<1>1. agent[a] \in Working(a)
  BY DEF AgentsOK, At, Resting
<1>2. CASE a = Worker
  <2>1. agent[a] \in WorkerStates
    BY <1>1, <1>2 DEF Working
  <2>2. a \notin RestThreads
    BY <1>2, DiscoveryAssumption DEF Worker
  <2>3. QED
    BY <1>1, <1>2, <2>1, <2>2 DEF WorkerStates, PcsOf
<1>3. CASE a # Worker
  <2>1. agent[a] \in RestStates
    BY <1>1, <1>3 DEF Working
  <2>2. QED
    BY <1>1, <1>3, <2>1 DEF RestStates, PcsOf
<1>4. QED
  BY <1>2, <1>3

LEMMA WorkingUpdates ==
    ASSUME NEW a, NEW st \in Working(a), NEW pc \in PcsOf(a)
    PROVE  /\ [st EXCEPT !.pc = pc] \in Working(a)
           /\ [st EXCEPT !.pc = pc].pc = pc
           /\ [st EXCEPT !.pc = pc].serial = st.serial
           /\ [st EXCEPT !.pc = pc].id = st.id
           /\ [st EXCEPT !.pc = pc].tag = st.tag
           /\ a # Worker => [st EXCEPT !.pc = pc].from = st.from
<1>1. CASE a = Worker
  <2>1. st \in WorkerStates /\ pc \in WorkerPcs
    BY <1>1 DEF Working, PcsOf
  <2>2. QED
    BY <1>1, <2>1 DEF WorkerStates, Working
<1>2. CASE a # Worker
  <2>1. st \in RestStates /\ pc \in RestPcs
    BY <1>2 DEF Working, PcsOf
  <2>2. QED
    BY <1>2, <2>1 DEF RestStates, Working
<1>3. QED
  BY <1>1, <1>2

\* The agents stay typed when one of them moves.
LEMMA AgentMoves ==
    ASSUME AgentsOK, NEW a \in Agents, NEW st \in Working(a) \cup {Resting},
           agent' = [agent EXCEPT ![a] = st]
    PROVE  AgentsOK' /\ agent'[a] = st /\ \A b \in Agents \ {a} : agent'[b] = agent[b]
<1>1. st \in WorkerStates \cup RestStates \cup {Resting}
  BY DEF Working
<1>2. agent' \in [Agents -> WorkerStates \cup RestStates \cup {Resting}]
  BY <1>1 DEF AgentsOK
<1>3. agent'[a] = st /\ \A b \in Agents \ {a} : agent'[b] = agent[b]
  BY DEF AgentsOK
<1>4. \A b \in Agents : agent'[b] \in Working(b) \cup {Resting}
  BY <1>3 DEF AgentsOK
<1>5. QED
  BY <1>2, <1>3, <1>4 DEF AgentsOK

\* The rest of a serial number's state is out of reach of a step about another one.
LEMMA RowsApart ==
    ASSUME NEW s \in Serials, NEW r \in Serials, r # s, OnlyOn(s)
    PROVE  /\ TagsOf(r)' = TagsOf(r)
           /\ \A i \in TagsOf(r) : tags'[i] = tags[i]
           /\ \A i \in TagsOf(r), p \in Places : i \in devices'[p] <=> i \in devices[p]
           /\ r \in serialCache' <=> r \in serialCache
<1>1. r # "absent"
  BY DiscoveryAssumption
<1>2. \A i \in TagIds : (tags'[i].serial = r <=> tags[i].serial = r)
                          /\ (tags[i].serial = r => tags'[i] = tags[i])
  BY <1>1 DEF OnlyOn
<1>3. TagsOf(r)' = TagsOf(r)
  BY <1>2 DEF TagsOf
<1>4. \A i \in TagsOf(r) : i \in TagIds /\ tags[i].serial = r /\ tags'[i] = tags[i]
  BY <1>2 DEF TagsOf
<1>5. \A i \in TagsOf(r), p \in Places : i \in devices'[p] <=> i \in devices[p]
  BY <1>1, <1>4 DEF OnlyOn
<1>6. QED
  BY <1>3, <1>4, <1>5 DEF OnlyOn

LEMMA WholeApart ==
    ASSUME NEW s \in Serials, NEW r \in Serials, r # s, OnlyOn(s), Whole(r)
    PROVE  Whole(r)'
<1>1. CASE Missing(r)
  BY <1>1, RowsApart DEF Missing, Whole
<1>2. CASE \E i \in TagIds : Sole(r, i) /\ r \in serialCache /\ ListedAt(i, tags[i].place)
  <2>1. PICK i \in TagIds : Sole(r, i) /\ r \in serialCache /\ ListedAt(i, tags[i].place)
    BY <1>2
  <2>2. i \in TagsOf(r)
    BY <2>1 DEF Sole
  <2>3. tags'[i] = tags[i] /\ r \in serialCache' /\ Sole(r, i)'
    BY <2>1, <2>2, RowsApart DEF Sole
  <2>4. ListedAt(i, tags[i].place)'
    BY <2>1, <2>2, <2>3, RowsApart DEF ListedAt
  <2>5. QED
    BY <2>3, <2>4 DEF Whole
<1>3. QED
  BY <1>1, <1>2 DEF Whole

LEMMA HalfwayApart ==
    ASSUME NEW s \in Serials, NEW b \in Agents, agent[b].serial \in Serials,
           agent[b].serial # s, OnlyOn(s), Halfway(b), agent'[b] = agent[b]
    PROVE  Halfway(b)'
<1> DEFINE r == agent[b].serial
           i == agent[b].id
<1>1. TagsOf(r)' = TagsOf(r) /\ (r \in serialCache' <=> r \in serialCache)
      /\ (Whole(r) => Whole(r)') /\ (Sole(r, i) => Sole(r, i)')
  BY RowsApart, WholeApart DEF Sole
<1>2. ASSUME Sole(r, i)
      PROVE  tags'[i] = tags[i] /\ \A p \in Places : i \in devices'[p] <=> i \in devices[p]
  BY <1>2, RowsApart DEF Sole
<1>3. ASSUME Sole(r, i), NEW q, ListedAt(i, q) PROVE ListedAt(i, q)'
  BY <1>2, <1>3 DEF ListedAt
<1>4. QED
  BY <1>1, <1>2, <1>3 DEF Halfway, Missing

-----------------------------------------------------------------------------
(* One step of one agent.  The agent's own serial number is the step's     *)
(* business; the lemma is that all the others keep what they had.          *)
(***************************************************************************)
LEMMA StepOf ==
    ASSUME DiscoveryInv, NEW a \in Agents, NEW s \in Serials,
           NEW st \in Working(a) \cup {Resting}, agent' = [agent EXCEPT ![a] = st],
           ~At(a, "idle") => agent[a].serial = s,
           st.pc # "idle" => st.serial = s,
           overlapped \subseteq overlapped',
           \A b \in Agents \ {a} : Busy(b, s) => s \in overlapped',
           OnlyOn(s), TablesOK', QueueOK', OwnRow(a)',
           s \notin overlapped' => IF st.pc = "idle" THEN Whole(s)' ELSE Halfway(a)'
    PROVE  DiscoveryInv'
<1>1. AgentsOK' /\ agent'[a] = st /\ \A b \in Agents \ {a} : agent'[b] = agent[b]
  BY AgentMoves DEF DiscoveryInv
<1>2. \A b \in Agents \ {a} : \A r : Busy(b, r)' <=> Busy(b, r)
  BY <1>1 DEF Busy, At
<1>3. \A r : Busy(a, r)' => r = s
  BY <1>1 DEF Busy, At
<1>4. Alone'
  <2> SUFFICES ASSUME NEW b \in Agents, NEW c \in Agents, b # c,
                      NEW r \in Serials \ overlapped', Busy(b, r)', Busy(c, r)'
               PROVE  FALSE
    BY DEF Alone
  <2>1. CASE b # a /\ c # a
    BY <1>2, <2>1 DEF DiscoveryInv, Alone
  <2>2. CASE b = a
    BY <1>2, <1>3, <2>2
  <2>3. CASE c = a
    BY <1>2, <1>3, <2>3
  <2>4. QED
    BY <2>1, <2>2, <2>3
<1>5. ASSUME NEW b \in Agents \ {a} PROVE OwnRow(b)'
  <2> SUFFICES ASSUME ~At(b, "idle") PROVE OwnRow(b)'
    BY <1>1 DEF OwnRow, At
  <2>1. OwnRow(b) /\ agent'[b] = agent[b]
    BY <1>1 DEF DiscoveryInv
  <2>2. created' >= created /\ created \in Nat /\ created' \in Nat
    BY DEF OnlyOn, DiscoveryInv, TablesOK
  <2>3. ASSUME agent[b].id \in 1..created
        PROVE  agent[b].id \in 1..created'
               /\ tags'[agent[b].id].serial \in {tags[agent[b].id].serial, "absent"}
    BY <2>2, <2>3 DEF OnlyOn
  <2>4. QED
    BY <2>1, <2>3 DEF OwnRow, At
<1>6. AllHalfway'
  <2> SUFFICES ASSUME NEW b \in Agents, ~At(b, "idle")', agent'[b].serial \notin overlapped'
               PROVE  Halfway(b)'
    BY DEF AllHalfway
  <2>1. CASE b = a
    BY <1>1, <2>1 DEF At
  <2>2. CASE b # a
    <3>1. agent'[b] = agent[b] /\ ~At(b, "idle")
      BY <1>1, <2>2 DEF At
    <3>2. agent[b].serial \in Serials
      BY <3>1, Fields DEF DiscoveryInv
    <3>3. agent[b].serial \notin overlapped /\ Halfway(b)
      BY <3>1 DEF DiscoveryInv, AllHalfway
    <3>4. agent[b].serial # s
      BY <3>1, <2>2 DEF Busy
    <3>5. QED
      BY <3>1, <3>2, <3>3, <3>4, HalfwayApart
  <2>3. QED
    BY <2>1, <2>2
<1>7. AllWhole'
  <2> SUFFICES ASSUME NEW r \in Serials \ overlapped', \A b \in Agents : ~Busy(b, r)'
               PROVE  Whole(r)'
    BY DEF AllWhole
  <2>1. CASE r = s
    BY <1>1, <2>1 DEF Busy, At
  <2>2. CASE r # s
    <3>1. \A b \in Agents : ~Busy(b, r)
      BY <1>2, <2>2 DEF Busy
    <3>2. Whole(r)
      BY <3>1 DEF DiscoveryInv, AllWhole
    <3>3. QED
      BY <3>2, <2>2, WholeApart
  <2>3. QED
    BY <2>1, <2>2
<1>8. QED
  BY <1>1, <1>4, <1>5, <1>6, <1>7 DEF DiscoveryInv

\* The same for a step of an agent that is at work, with the state it goes to.
LEMMA WorkStep ==
    ASSUME DiscoveryInv, NEW a \in Agents, ~At(a, "idle"),
           NEW s \in Serials, s = agent[a].serial,
           NEW st \in Working(a) \cup {Resting}, agent' = [agent EXCEPT ![a] = st],
           st.pc # "idle" => st.serial = s,
           UNCHANGED <<queue, overlapped>>, OnlyOn(s), TablesOK', OwnRow(a)',
           s \notin overlapped => IF st.pc = "idle" THEN Whole(s)' ELSE Halfway(a)'
    PROVE  DiscoveryInv'
<1>1. \A b \in Agents \ {a} : Busy(b, s) => s \in overlapped'
  BY DEF DiscoveryInv, Alone, Busy
<1>2. QueueOK'
  BY DEF DiscoveryInv, QueueOK
<1>3. QED
  BY <1>1, <1>2, StepOf

\* What an agent that starts nothing new finds: its serial number, which nobody else
\* has, in the state its program counter says.
LEMMA AtWork ==
    ASSUME DiscoveryInv, NEW a \in Agents, ~At(a, "idle")
    PROVE  \E s \in Serials, i \in 0..MaxTags, row \in Rows :
              /\ agent[a].serial = s /\ agent[a].id = i /\ agent[a].tag = row
              /\ row.serial = s
              /\ agent[a].pc \notin {"new", "posting"} =>
                    i \in 1..created /\ i \in TagIds /\ tags[i].serial \in {"absent", s}
              /\ s \notin overlapped => Halfway(a)
<1>1. agent[a].serial \in Serials /\ agent[a].id \in 0..MaxTags /\ agent[a].tag \in Rows
  BY Fields DEF DiscoveryInv
<1>2. OwnRow(a) /\ (agent[a].serial \notin overlapped => Halfway(a))
  BY DEF DiscoveryInv, AllHalfway
<1>3. \A i \in 1..created : i \in TagIds
  BY DiscoveryAssumption DEF DiscoveryInv, TablesOK, TagIds
<1>4. QED
  BY <1>1, <1>2, <1>3 DEF OwnRow

\* Going on to another statement, or finishing.
LEMMA GotoState ==
    ASSUME AgentsOK, NEW a \in Agents, ~At(a, "idle"), NEW next \in PcsOf(a) \cup {"done"},
           Goto(a, next)
    PROVE  \E st \in Working(a) \cup {Resting} :
              /\ agent' = [agent EXCEPT ![a] = st] /\ agent'[a] = st
              /\ next = "done" => st.pc = "idle"
              /\ next # "done" => /\ st.pc = next /\ st.pc # "idle" /\ st.serial = agent[a].serial
                                  /\ st.id = agent[a].id /\ st.tag = agent[a].tag
                                  /\ a # Worker => st.from = agent[a].from
<1>1. agent[a] \in Working(a)
  BY Fields
<1>2. CASE next = "done"
  <2>1. agent' = [agent EXCEPT ![a] = Resting]
    BY <1>2 DEF Goto
  <2>2. QED
    BY <1>2, <2>1, AgentMoves DEF Resting
<1>3. CASE next # "done"
  <2> DEFINE st == [agent[a] EXCEPT !.pc = next]
  <2>1. agent' = [agent EXCEPT ![a] = st]
    BY <1>3 DEF Goto
  <2>2. next # "idle"
    BY <1>3 DEF PcsOf, WorkerPcs, RestPcs
  <2>3. /\ st \in Working(a) /\ st.pc = next /\ st.serial = agent[a].serial
        /\ st.id = agent[a].id /\ st.tag = agent[a].tag
        /\ a # Worker => st.from = agent[a].from
    BY <1>1, <1>3, WorkingUpdates
  <2> HIDE DEF st
  <2>4. QED
    BY <1>3, <2>1, <2>2, <2>3, AgentMoves
<1>4. QED
  BY <1>2, <1>3

\* The tables as they are say nothing new about any serial number.
LEMMA NothingTouched ==
    ASSUME DiscoveryInv, NEW s, UNCHANGED <<tags, created, devices, serialCache>>
    PROVE  /\ OnlyOn(s) /\ TablesOK' /\ TagsOf(s)' = TagsOf(s) /\ (Whole(s) => Whole(s)')
           /\ Missing(s) => Missing(s)'
<1>1. created \in created..MaxTags
  BY DiscoveryAssumption DEF DiscoveryInv, TablesOK
<1>2. OnlyOn(s)
  BY <1>1 DEF OnlyOn
<1>3. TablesOK'
  BY DEF DiscoveryInv, TablesOK
<1>4. TagsOf(s)' = TagsOf(s)
  BY DEF TagsOf
<1>5. QED
  BY <1>2, <1>3, <1>4 DEF Whole, Missing, Sole, ListedAt

-----------------------------------------------------------------------------
(* The statements.                                                         *)
(***************************************************************************)
\* Pushing the owner, having nothing to push, or throwing before it.
LEMMA OnwardInv ==
    ASSUME DiscoveryInv, NEW a \in Agents, NEW next \in PcsOf(a) \cup {"done"},
           \/ agent[a].pc = "created" /\ next = "owned"
           \/ agent[a].pc \in {"placed", "moved", "known", "written"} /\ next = "done",
           Goto(a, next), UNCHANGED <<tags, created, devices, serialCache, queue, overlapped>>
    PROVE  DiscoveryInv'
<1>1. ~At(a, "idle")
  BY DEF At
<1>2. PICK s \in Serials, i \in 0..MaxTags, row \in Rows :
          /\ agent[a].serial = s /\ agent[a].id = i /\ agent[a].tag = row
          /\ row.serial = s
          /\ agent[a].pc \notin {"new", "posting"} =>
                i \in 1..created /\ i \in TagIds /\ tags[i].serial \in {"absent", s}
          /\ s \notin overlapped => Halfway(a)
  BY <1>1, AtWork
<1>3. PICK st \in Working(a) \cup {Resting} :
          /\ agent' = [agent EXCEPT ![a] = st] /\ agent'[a] = st
          /\ next = "done" => st.pc = "idle"
          /\ next # "done" => /\ st.pc = next /\ st.pc # "idle" /\ st.serial = agent[a].serial
                              /\ st.id = agent[a].id /\ st.tag = agent[a].tag
                              /\ a # Worker => st.from = agent[a].from
  BY <1>1, GotoState DEF DiscoveryInv
<1>4. OnlyOn(s) /\ TablesOK' /\ TagsOf(s)' = TagsOf(s) /\ (Whole(s) => Whole(s)')
  BY NothingTouched
<1>5. OwnRow(a)'
  BY <1>2, <1>3 DEF OwnRow, At
<1>6. CASE next = "owned"
  <2>1. s \notin overlapped => Halfway(a)'
    BY <1>2, <1>3, <1>4, <1>6 DEF Halfway, Sole, ListedAt
  <2>2. QED
    BY <1>1, <1>2, <1>3, <1>4, <1>5, <1>6, <2>1, WorkStep
<1>7. CASE next = "done"
  <2>1. s \notin overlapped => Whole(s)
    BY <1>2, <1>7 DEF Halfway, Whole
  <2>2. QED
    BY <1>1, <1>2, <1>3, <1>4, <1>5, <1>7, <2>1, WorkStep
<1>8. QED
  BY <1>6, <1>7

LEMMA CreateTagInv ==
    ASSUME DiscoveryInv, NEW a \in Agents, agent[a].pc \in {"new", "posting"},
           CreateTag(a), UNCHANGED <<queue, overlapped>>
    PROVE  DiscoveryInv'
<1>1. ~At(a, "idle")
  BY DEF At
<1>2. PICK s \in Serials, i \in 0..MaxTags, row \in Rows :
          /\ agent[a].serial = s /\ agent[a].id = i /\ agent[a].tag = row
          /\ row.serial = s
          /\ s \notin overlapped => Halfway(a)
  BY <1>1, AtWork
<1>3. PICK n \in 1..MaxTags : n = created + 1
  BY DiscoveryAssumption DEF CreateTag, DiscoveryInv, TablesOK
<1>4. /\ created \in Nat /\ n \in TagIds /\ created' = n /\ n > created
      /\ tags' = [tags EXCEPT ![n] = row]
      /\ UNCHANGED <<devices, serialCache>>
      /\ agent' = [agent EXCEPT ![a].id = n, ![a].pc = "created"]
  BY <1>2, <1>3 DEF CreateTag, DiscoveryInv, TablesOK, TagIds
<1>5. agent' = [agent EXCEPT ![a] = [agent[a] EXCEPT !.id = n, !.pc = "created"]]
  BY <1>4 DEF DiscoveryInv, AgentsOK
<1>6. agent[a] \in Working(a) /\ n \in 0..MaxTags
  BY <1>1, Fields DEF DiscoveryInv
<1>7. PICK st : st = [agent[a] EXCEPT !.id = n, !.pc = "created"]
  OBVIOUS
<1>8. /\ agent' = [agent EXCEPT ![a] = st] /\ agent'[a] = st /\ st \in Working(a)
      /\ st.pc = "created" /\ st.id = n /\ st.serial = agent[a].serial /\ st.tag = agent[a].tag
  <2>1. /\ st \in Working(a) /\ st.pc = "created" /\ st.id = n
        /\ st.serial = agent[a].serial /\ st.tag = agent[a].tag
    <3>1. CASE a = Worker
      <4>1. agent[a] \in WorkerStates
        BY <1>6, <3>1 DEF Working
      <4>2. st \in WorkerStates
        BY <1>6, <1>7, <4>1 DEF WorkerStates, WorkerPcs
      <4>3. /\ st.pc = "created" /\ st.id = n
            /\ st.serial = agent[a].serial /\ st.tag = agent[a].tag
        BY <1>7, <4>1 DEF WorkerStates
      <4>4. QED
        BY <3>1, <4>2, <4>3 DEF Working
    <3>2. CASE a # Worker
      <4>1. agent[a] \in RestStates
        BY <1>6, <3>2 DEF Working
      <4>2. st \in RestStates
        BY <1>6, <1>7, <4>1 DEF RestStates, RestPcs
      <4>3. /\ st.pc = "created" /\ st.id = n
            /\ st.serial = agent[a].serial /\ st.tag = agent[a].tag
        BY <1>7, <4>1 DEF RestStates
      <4>4. QED
        BY <3>2, <4>2, <4>3 DEF Working
    <3>3. QED
      BY <3>1, <3>2
  <2>2. agent' = [agent EXCEPT ![a] = st]
    BY <1>5, <1>7
  <2>3. QED
    BY <2>1, <2>2, AgentMoves DEF DiscoveryInv
<1>9. tags[n] = Absent /\ tags \in [TagIds -> Rows \cup {Absent}]
      /\ (\A p \in Places : n \notin devices[p])
  BY <1>4 DEF DiscoveryInv, TablesOK
<1>10. tags'[n] = row /\ \A j \in TagIds : j # n => tags'[j] = tags[j]
  BY <1>4, <1>9
<1>11. TablesOK'
  <2>1. tags' \in [TagIds -> Rows \cup {Absent}] /\ created' \in 0..MaxTags
    BY <1>4, <1>9
  <2>2. devices' \in [Places -> SUBSET (1..created')]
    BY <1>3, <1>4 DEF DiscoveryInv, TablesOK
  <2>3. \A j \in TagIds : j > created' => tags'[j] = Absent
    BY <1>3, <1>4, <1>10 DEF DiscoveryInv, TablesOK, TagIds
  <2>4. QED
    BY <1>4, <2>1, <2>2, <2>3 DEF DiscoveryInv, TablesOK
<1>12. OnlyOn(s)
  <2>1. created' \in created..MaxTags
    BY <1>3, <1>4
  <2>2. \A j \in 1..created : j \in TagIds /\ tags'[j] = tags[j]
    BY <1>3, <1>4, <1>10, DiscoveryAssumption DEF TagIds
  <2>3. tags[n].serial = "absent" /\ tags'[n].serial = s
    BY <1>2, <1>9, <1>10 DEF Absent, Tag
  <2>4. QED
    BY <1>4, <1>10, <2>1, <2>2, <2>3 DEF OnlyOn
<1>13. OwnRow(a)'
  <2>1. n \in 1..created'
    BY <1>3, <1>4
  <2>2. QED
    BY <2>1, <1>2, <1>7, <1>8, <1>10 DEF OwnRow, At
<1>14. ASSUME s \notin overlapped PROVE Halfway(a)'
  <2>1. TagsOf(s) = {} /\ s \notin serialCache
    BY <1>2, <1>14 DEF Halfway, Missing
  <2>2. \A j \in TagIds : tags'[j].serial = s <=> j = n
    BY <1>2, <1>10, <2>1 DEF TagsOf
  <2>3. Sole(s, n)'
    BY <1>4, <2>2 DEF Sole, TagsOf
  <2>4. ListedAt(n, Nowhere)'
    BY <1>4, <1>9, DiscoveryAssumption DEF ListedAt
  <2>5. QED
    BY <1>2, <1>4, <1>7, <1>8, <1>10, <2>1, <2>3, <2>4 DEF Halfway
<1>15. QED
  BY <1>1, <1>2, <1>7, <1>8, <1>11, <1>12, <1>13, <1>14, WorkStep

LEMMA CacheInv ==
    ASSUME DiscoveryInv, NEW a \in Agents, agent[a].pc \in {"created", "owned"},
           CacheSerialNumber(a, "cached"), UNCHANGED <<queue, overlapped>>
    PROVE  DiscoveryInv'
<1>1. ~At(a, "idle") /\ "cached" \in PcsOf(a) \cup {"done"}
  BY DEF At, PcsOf, WorkerPcs, RestPcs
<1>2. PICK s \in Serials, i \in 0..MaxTags, row \in Rows :
          /\ agent[a].serial = s /\ agent[a].id = i /\ agent[a].tag = row
          /\ row.serial = s
          /\ agent[a].pc \notin {"new", "posting"} =>
                i \in 1..created /\ i \in TagIds /\ tags[i].serial \in {"absent", s}
          /\ s \notin overlapped => Halfway(a)
  BY <1>1, AtWork
<1>3. PICK st \in Working(a) \cup {Resting} :
          /\ agent' = [agent EXCEPT ![a] = st] /\ agent'[a] = st
          /\ st.pc = "cached" /\ st.pc # "idle" /\ st.serial = agent[a].serial
          /\ st.id = agent[a].id /\ st.tag = agent[a].tag
  BY <1>1, GotoState DEF DiscoveryInv, CacheSerialNumber
<1>4. serialCache' = serialCache \cup {s} /\ UNCHANGED <<tags, created, devices>>
  BY <1>2 DEF CacheSerialNumber
<1>5. TablesOK'
  BY <1>4 DEF DiscoveryInv, TablesOK
<1>6. created \in created..MaxTags
  BY DiscoveryAssumption DEF DiscoveryInv, TablesOK
<1>7. OnlyOn(s)
  BY <1>4, <1>6 DEF OnlyOn
<1>8. OwnRow(a)'
  BY <1>2, <1>3, <1>4 DEF OwnRow, At
<1>9. s \notin overlapped => Halfway(a)'
  BY <1>2, <1>3, <1>4 DEF Halfway, Sole, ListedAt, TagsOf
<1>10. QED
  BY <1>1, <1>2, <1>3, <1>5, <1>7, <1>8, <1>9, WorkStep

\* Moving a row between lists is seen in the lists only.
LEMMA MoveEffect ==
    ASSUME DiscoveryInv, NEW s \in Serials, NEW i \in 1..created, i \in TagIds,
           tags[i].serial \in {"absent", s},
           NEW from, NEW to,
           devices' = [p \in Places |-> (devices[p] \ IF p = from THEN {i} ELSE {})
                                          \cup IF p = to THEN {i} ELSE {}],
           UNCHANGED <<tags, created, serialCache>>
    PROVE  /\ OnlyOn(s) /\ TablesOK' /\ TagsOf(s)' = TagsOf(s)
           /\ ListedAt(i, from) => ListedAt(i, to)'
<1>1. TablesOK'
  <2>1. devices' \in [Places -> SUBSET (1..created)]
    BY DEF DiscoveryInv, TablesOK
  <2>2. QED
    BY <2>1 DEF DiscoveryInv, TablesOK
<1>2. created \in created..MaxTags
  BY DiscoveryAssumption DEF DiscoveryInv, TablesOK
<1>3. \A j \in TagIds, p \in Places : j # i => (j \in devices'[p] <=> j \in devices[p])
  OBVIOUS
<1>4. OnlyOn(s)
  BY <1>2, <1>3 DEF OnlyOn
<1>5. TagsOf(s)' = TagsOf(s)
  BY DEF TagsOf
<1>6. ListedAt(i, from) => ListedAt(i, to)'
  BY DEF ListedAt
<1>7. QED
  BY <1>1, <1>4, <1>5, <1>6

LEMMA MoveInv ==
    ASSUME DiscoveryInv, NEW a \in Agents, NEW from \in Owners, NEW to \in Owners,
           NEW next \in PcsOf(a) \cup {"done"}, MoveDevice(a, from, to, next),
           UNCHANGED <<queue, overlapped>>,
           \/ /\ agent[a].pc = "cached" /\ next \in {"done", "placed"}
              /\ from = Nowhere /\ to = agent[a].tag.place
           \/ /\ agent[a].pc = "put" /\ next = "moved"
              /\ from = agent[a].from /\ to = agent[a].tag.place
           \/ /\ agent[a].pc = "deleting" /\ next = "unlisted"
              /\ from = agent[a].from /\ to = Nowhere
    PROVE  DiscoveryInv'
<1>1. ~At(a, "idle")
  BY DEF At
<1>2. PICK s \in Serials, i \in 0..MaxTags, row \in Rows :
          /\ agent[a].serial = s /\ agent[a].id = i /\ agent[a].tag = row
          /\ row.serial = s
          /\ agent[a].pc \notin {"new", "posting"} =>
                i \in 1..created /\ i \in TagIds /\ tags[i].serial \in {"absent", s}
          /\ s \notin overlapped => Halfway(a)
  BY <1>1, AtWork
<1>3. PICK st \in Working(a) \cup {Resting} :
          /\ agent' = [agent EXCEPT ![a] = st] /\ agent'[a] = st
          /\ next = "done" => st.pc = "idle"
          /\ next # "done" => /\ st.pc = next /\ st.pc # "idle" /\ st.serial = agent[a].serial
                              /\ st.id = agent[a].id /\ st.tag = agent[a].tag
                              /\ a # Worker => st.from = agent[a].from
  BY <1>1, GotoState DEF DiscoveryInv, MoveDevice
<1>4. i \in 1..created /\ i \in TagIds /\ tags[i].serial \in {"absent", s}
  BY <1>2
<1>5. /\ devices' = [p \in Places |-> (devices[p] \ IF p = from THEN {i} ELSE {})
                                        \cup IF p = to THEN {i} ELSE {}]
      /\ UNCHANGED <<tags, created, serialCache>>
  BY <1>2 DEF MoveDevice
<1>6. /\ OnlyOn(s) /\ TablesOK' /\ TagsOf(s)' = TagsOf(s)
      /\ ListedAt(i, from) => ListedAt(i, to)'
  BY <1>4, <1>5, MoveEffect
<1>7. OwnRow(a)'
  BY <1>2, <1>3, <1>5 DEF OwnRow, At
<1>8. CASE agent[a].pc \in {"cached", "put"}
  <2>1. ASSUME s \notin overlapped PROVE Whole(s)'
    <3>1. Sole(s, i) /\ tags[i] = row /\ s \in serialCache /\ ListedAt(i, from)
      BY <1>2, <1>8, <2>1 DEF Halfway
    <3>2. Sole(s, i)' /\ tags'[i] = row /\ s \in serialCache'
      BY <1>5, <1>6, <3>1 DEF Sole
    <3>3. to = row.place /\ ListedAt(i, to)'
      BY <1>2, <1>6, <1>8, <3>1
    <3>4. ListedAt(i, tags[i].place)'
      BY <3>2, <3>3 DEF ListedAt
    <3>5. QED
      BY <1>4, <3>2, <3>4 DEF Whole
  <2>2. s \notin overlapped /\ next # "done" => Halfway(a)'
    BY <1>2, <1>3, <1>8, <2>1 DEF Halfway
  <2>3. next = "done" \/ next # "done"
    OBVIOUS
  <2>4. QED
    BY <1>1, <1>2, <1>3, <1>5, <1>6, <1>7, <2>1, <2>2, WorkStep
<1>9. CASE agent[a].pc = "deleting"
  <2>1. ASSUME s \notin overlapped PROVE Halfway(a)'
    <3>1. Sole(s, i) /\ s \in serialCache /\ ListedAt(i, from)
      BY <1>2, <1>9, <2>1 DEF Halfway
    <3>2. Sole(s, i)' /\ s \in serialCache' /\ ListedAt(i, Nowhere)'
      BY <1>5, <1>6, <1>9, <3>1 DEF Sole
    <3>3. QED
      BY <1>2, <1>3, <1>9, <3>2 DEF Halfway
  <2>2. QED
    BY <1>1, <1>2, <1>3, <1>5, <1>6, <1>7, <1>9, <2>1, WorkStep
<1>10. QED
  BY <1>8, <1>9

\* Rewriting or removing the row of an identifier, if it is there.
LEMMA RowEffect ==
    ASSUME DiscoveryInv, NEW s \in Serials, NEW i \in 1..created, i \in TagIds,
           tags[i].serial \in {"absent", s},
           tags' \in [TagIds -> Rows \cup {Absent}],
           tags'[i] = Absent \/ (tags'[i].serial = s /\ tags[i] # Absent),
           \A j \in TagIds : j # i => tags'[j] = tags[j],
           UNCHANGED <<created, devices, serialCache>>
    PROVE  OnlyOn(s) /\ TablesOK'
<1>1. tags \in [TagIds -> Rows \cup {Absent}]
  BY DEF DiscoveryInv, TablesOK
<1>3. \A j \in TagIds : j > created => tags'[j] = Absent
  BY DEF DiscoveryInv, TablesOK
<1>4. TablesOK'
  BY <1>3 DEF DiscoveryInv, TablesOK
<1>5. tags'[i].serial \in {"absent", s} /\ tags'[i].serial \in {tags[i].serial, "absent"}
  <2>1. CASE tags'[i] = Absent
    BY <2>1 DEF Absent, Tag
  <2>2. CASE tags'[i].serial = s /\ tags[i] # Absent
    <3>1. tags[i] \in Rows
      BY <1>1, <2>2
    <3>2. tags[i].serial # "absent"
      BY <3>1, DiscoveryAssumption DEF Rows
    <3>3. QED
      BY <2>2, <3>2
  <2>3. QED
    BY <2>1, <2>2
<1>6. created \in created..MaxTags /\ \A j \in 1..created : j \in TagIds
  BY DiscoveryAssumption DEF DiscoveryInv, TablesOK, TagIds
<1>7. OnlyOn(s)
  BY <1>5, <1>6 DEF OnlyOn
<1>8. QED
  BY <1>4, <1>7

LEMMA UpdateTagInv ==
    ASSUME DiscoveryInv, NEW a \in Agents, NEW next \in PcsOf(a) \cup {"done"},
           UpdateTag(a, next), UNCHANGED <<queue, overlapped>>,
           \/ agent[a].pc = "changed" /\ next = "written"
           \/ agent[a].pc = "putting" /\ a # Worker /\ next = "put"
    PROVE  DiscoveryInv'
<1>1. ~At(a, "idle")
  BY DEF At
<1>2. PICK s \in Serials, i \in 0..MaxTags, row \in Rows :
          /\ agent[a].serial = s /\ agent[a].id = i /\ agent[a].tag = row
          /\ row.serial = s
          /\ agent[a].pc \notin {"new", "posting"} =>
                i \in 1..created /\ i \in TagIds /\ tags[i].serial \in {"absent", s}
          /\ s \notin overlapped => Halfway(a)
  BY <1>1, AtWork
<1>3. PICK st \in Working(a) \cup {Resting} :
          /\ agent' = [agent EXCEPT ![a] = st] /\ agent'[a] = st
          /\ next = "done" => st.pc = "idle"
          /\ next # "done" => /\ st.pc = next /\ st.pc # "idle" /\ st.serial = agent[a].serial
                              /\ st.id = agent[a].id /\ st.tag = agent[a].tag
                              /\ a # Worker => st.from = agent[a].from
  BY <1>1, GotoState DEF DiscoveryInv, UpdateTag
<1>4. i \in 1..created /\ i \in TagIds /\ tags[i].serial \in {"absent", s}
  BY <1>2
<1>5. PICK new \in Rows \cup {Absent} : new = IF tags[i] = Absent THEN Absent ELSE row
  OBVIOUS
<1>6. tags' = [tags EXCEPT ![i] = new] /\ UNCHANGED <<created, devices, serialCache>>
  BY <1>2, <1>5 DEF UpdateTag, DiscoveryInv, TablesOK
<1>7. OnlyOn(s) /\ TablesOK' /\ tags'[i] = new
      /\ \A j \in TagIds : j # i => tags'[j] = tags[j]
  <2>1. /\ tags' \in [TagIds -> Rows \cup {Absent}] /\ tags'[i] = new
        /\ \A j \in TagIds : j # i => tags'[j] = tags[j]
    BY <1>4, <1>6 DEF DiscoveryInv, TablesOK
  <2>2. tags'[i] = Absent \/ (tags'[i].serial = s /\ tags[i] # Absent)
    BY <1>2, <1>5, <2>1
  <2>3. QED
    BY <1>4, <1>6, <2>1, <2>2, RowEffect
<1>8. OwnRow(a)'
  <2>1. tags'[i].serial \in {"absent", s}
    BY <1>2, <1>5, <1>7 DEF Absent, Tag
  <2>2. QED
    BY <1>2, <1>3, <1>6, <2>1 DEF OwnRow, At
<1>9. ASSUME s \notin overlapped
      PROVE  /\ tags[i] # Absent /\ tags'[i] = row /\ Sole(s, i)' /\ s \in serialCache'
             /\ ListedAt(i, tags[i].place) /\ \A q : ListedAt(i, q) => ListedAt(i, q)'
  <2>1. Sole(s, i) /\ s \in serialCache /\ ListedAt(i, tags[i].place)
    BY <1>2, <1>9 DEF Halfway
  <2>2. tags[i].serial = s
    BY <2>1 DEF Sole, TagsOf
  <2>3. tags[i] # Absent
    BY <2>2, DiscoveryAssumption DEF Absent, Tag
  <2>4. tags'[i] = row
    BY <1>5, <1>7, <2>3
  <2>5. \A j \in TagIds : tags'[j].serial = s <=> tags[j].serial = s
    BY <1>2, <1>7, <2>2, <2>4
  <2>6. TagsOf(s)' = TagsOf(s)
    BY <2>5 DEF TagsOf
  <2>7. QED
    BY <1>6, <2>1, <2>3, <2>4, <2>6 DEF Sole, ListedAt
<1>10. CASE agent[a].pc = "changed"
  <2>1. s \notin overlapped => row.place = tags[i].place
    BY <1>2, <1>10 DEF Halfway
  <2>2. s \notin overlapped => ListedAt(i, tags[i].place)' /\ row.place = tags'[i].place
    BY <1>9, <2>1 DEF ListedAt
  <2>3. s \notin overlapped => Halfway(a)'
    BY <1>2, <1>3, <1>9, <1>10, <2>2 DEF Halfway
  <2>4. QED
    BY <1>1, <1>2, <1>3, <1>7, <1>8, <1>10, <2>3, WorkStep
<1>11. CASE agent[a].pc = "putting"
  <2>1. s \notin overlapped => next = "put" /\ agent[a].from = tags[i].place
    BY <1>2, <1>9, <1>11 DEF Halfway
  <2>2. s \notin overlapped => Halfway(a)'
    BY <1>2, <1>3, <1>9, <1>11, <2>1 DEF Halfway
  <2>3. s \notin overlapped => st.pc # "idle"
    BY <1>3, <1>11
  <2>4. QED
    BY <1>1, <1>2, <1>3, <1>7, <1>8, <2>2, <2>3, WorkStep
<1>12. QED
  BY <1>10, <1>11

LEMMA DeleteTagInv ==
    ASSUME DiscoveryInv, NEW a \in RestThreads, agent[a].pc = "unlisted",
           DeleteTag(a), UNCHANGED <<queue, overlapped>>
    PROVE  DiscoveryInv'
<1>1. a \in Agents /\ ~At(a, "idle") /\ "deleted" \in PcsOf(a) \cup {"done"}
  BY DiscoveryAssumption DEF At, Agents, PcsOf, Worker, RestPcs
<1>2. PICK s \in Serials, i \in 0..MaxTags, row \in Rows :
          /\ agent[a].serial = s /\ agent[a].id = i /\ agent[a].tag = row
          /\ row.serial = s
          /\ agent[a].pc \notin {"new", "posting"} =>
                i \in 1..created /\ i \in TagIds /\ tags[i].serial \in {"absent", s}
          /\ s \notin overlapped => Halfway(a)
  BY <1>1, AtWork
<1>3. PICK st \in Working(a) \cup {Resting} :
          /\ agent' = [agent EXCEPT ![a] = st] /\ agent'[a] = st
          /\ st.pc = "deleted" /\ st.pc # "idle" /\ st.serial = agent[a].serial
          /\ st.id = agent[a].id /\ st.tag = agent[a].tag
  BY <1>1, GotoState DEF DiscoveryInv, DeleteTag
<1>4. i \in 1..created /\ i \in TagIds /\ tags[i].serial \in {"absent", s}
  BY <1>2
<1>5. tags' = [tags EXCEPT ![i] = Absent] /\ UNCHANGED <<created, devices, serialCache>>
  BY <1>2 DEF DeleteTag
<1>6. OnlyOn(s) /\ TablesOK' /\ tags'[i] = Absent
      /\ \A j \in TagIds : j # i => tags'[j] = tags[j]
  <2>1. /\ tags' \in [TagIds -> Rows \cup {Absent}] /\ tags'[i] = Absent
        /\ \A j \in TagIds : j # i => tags'[j] = tags[j]
    BY <1>4, <1>5 DEF DiscoveryInv, TablesOK
  <2>2. QED
    BY <1>4, <1>5, <2>1, RowEffect
<1>7. tags'[i].serial = "absent"
  BY <1>6 DEF Absent, Tag
<1>8. OwnRow(a)'
  BY <1>2, <1>3, <1>5, <1>7 DEF OwnRow, At
<1>9. ASSUME s \notin overlapped PROVE Halfway(a)'
  <2>1. Sole(s, i) /\ s \in serialCache
    BY <1>2, <1>9 DEF Halfway
  <2>2. \A j \in TagIds : tags'[j].serial # s
    BY <1>6, <1>7, <2>1, DiscoveryAssumption DEF Sole, TagsOf
  <2>3. TagsOf(s)' = {}
    BY <2>2 DEF TagsOf
  <2>4. QED
    BY <1>2, <1>3, <1>5, <2>1, <2>3 DEF Halfway
<1>10. QED
  BY <1>1, <1>2, <1>3, <1>6, <1>8, <1>9, WorkStep

LEMMA UncacheInv ==
    ASSUME DiscoveryInv, NEW a \in RestThreads, agent[a].pc = "deleted",
           UncacheSerialNumber(a), UNCHANGED <<queue, overlapped>>
    PROVE  DiscoveryInv'
<1>1. a \in Agents /\ ~At(a, "idle")
  BY DEF At, Agents
<1>2. PICK s \in Serials, i \in 0..MaxTags, row \in Rows :
          /\ agent[a].serial = s
          /\ s \notin overlapped => Halfway(a)
  BY <1>1, AtWork
<1>3. PICK st \in Working(a) \cup {Resting} :
          agent' = [agent EXCEPT ![a] = st] /\ agent'[a] = st /\ st.pc = "idle"
  BY <1>1, GotoState DEF DiscoveryInv, UncacheSerialNumber
<1>4. serialCache' = serialCache \ {s} /\ UNCHANGED <<tags, created, devices>>
  BY <1>2 DEF UncacheSerialNumber
<1>5. TablesOK'
  BY <1>4 DEF DiscoveryInv, TablesOK
<1>6. created \in created..MaxTags
  BY DiscoveryAssumption DEF DiscoveryInv, TablesOK
<1>7. OnlyOn(s)
  BY <1>4, <1>6 DEF OnlyOn
<1>8. OwnRow(a)'
  BY <1>3 DEF OwnRow, At
<1>9. s \notin overlapped => Whole(s)'
  BY <1>2, <1>4 DEF Halfway, Whole, Missing, TagsOf
<1>10. QED
  BY <1>1, <1>2, <1>3, <1>5, <1>7, <1>8, <1>9, WorkStep

LEMMA ChangeInv ==
    ASSUME DiscoveryInv, Change, UNCHANGED <<queue, overlapped>>
    PROVE  DiscoveryInv'
<1>1. Worker \in Agents /\ ~At(Worker, "idle") /\ agent[Worker].pc = "known"
  BY DEF Change, At, Agents
<1>2. PICK s \in Serials, i \in 0..MaxTags, row \in Rows :
          /\ agent[Worker].serial = s /\ agent[Worker].id = i /\ agent[Worker].tag = row
          /\ row.serial = s
          /\ agent[Worker].pc \notin {"new", "posting"} =>
                i \in 1..created /\ i \in TagIds /\ tags[i].serial \in {"absent", s}
          /\ s \notin overlapped => Halfway(Worker)
  BY <1>1, AtWork
<1>3. PICK meth \in ClaimedMethods(row.method), pc \in {"changed", "written"} :
          agent' = [agent EXCEPT ![Worker].tag.method = meth, ![Worker].pc = pc]
  BY <1>2 DEF Change
<1>4. UNCHANGED <<tags, created, devices, serialCache>>
  BY DEF Change
<1>5. agent[Worker] \in WorkerStates
  BY <1>1, Fields DEF DiscoveryInv, Working
<1>6. meth \in Methods
  BY <1>2, <1>3 DEF ClaimedMethods, Methods, Rows
<1>7. PICK st : st = [agent[Worker] EXCEPT !.tag = [row EXCEPT !.method = meth], !.pc = pc]
  OBVIOUS
<1>8. [row EXCEPT !.method = meth] \in Rows
      /\ [row EXCEPT !.method = meth].serial = s
      /\ [row EXCEPT !.method = meth].place = row.place
  BY <1>2, <1>6 DEF Rows
<1>9. /\ st \in WorkerStates /\ st.pc = pc /\ st.serial = s /\ st.id = i
      /\ st.tag.serial = s /\ st.tag.place = row.place
  BY <1>2, <1>3, <1>5, <1>7, <1>8 DEF WorkerStates, WorkerPcs
<1>10. agent' = [agent EXCEPT ![Worker] = st]
  BY <1>1, <1>2, <1>3, <1>5, <1>7 DEF DiscoveryInv, AgentsOK, WorkerStates
<1>11. st \in Working(Worker) \cup {Resting} /\ agent'[Worker] = st
  BY <1>1, <1>9, <1>10, AgentMoves DEF DiscoveryInv, Working
<1>12. OnlyOn(s) /\ TablesOK' /\ TagsOf(s)' = TagsOf(s)
  BY <1>4, NothingTouched
<1>13. OwnRow(Worker)'
  BY <1>1, <1>2, <1>4, <1>9, <1>11 DEF OwnRow, At
<1>14. ASSUME s \notin overlapped PROVE Halfway(Worker)'
  <2>1. Sole(s, i) /\ s \in serialCache /\ ListedAt(i, tags[i].place) /\ row.place = tags[i].place
    BY <1>1, <1>2, <1>14 DEF Halfway
  <2>2. /\ Sole(s, i)' /\ s \in serialCache' /\ ListedAt(i, tags[i].place)'
        /\ st.tag.place = tags'[i].place
    BY <1>4, <1>9, <1>12, <2>1 DEF Sole, ListedAt
  <2>3. QED
    BY <1>3, <1>9, <1>11, <2>2 DEF Halfway
<1>15. QED
  BY <1>1, <1>2, <1>3, <1>9, <1>10, <1>11, <1>12, <1>13, <1>14, WorkStep

\* An agent that starts on a serial number finds it whole, or is noticed.
LEMMA StartInv ==
    ASSUME DiscoveryInv, NEW a \in Agents, At(a, "idle"), NEW s \in Serials,
           NEW st \in Working(a), st.pc # "idle", st.serial = s, st.tag.serial = s,
           Start(a, s, st), QueueOK',
           UNCHANGED <<tags, created, devices, serialCache>>,
           \/ st.pc \in {"new", "posting"} /\ TagsOf(s) = {}
           \/ /\ st.id \in TagsOf(s)
              /\ \/ st.pc = "known" /\ st.tag.place = tags[st.id].place
                 \/ st.pc \in {"putting", "deleting"} /\ st.from = tags[st.id].place
    PROVE  DiscoveryInv'
<1>1. agent' = [agent EXCEPT ![a] = st] /\ overlapped \subseteq overlapped'
  BY DEF Start
<1>2. \A b \in Agents \ {a} : Busy(b, s) => s \in overlapped'
  BY DEF Start, Busy
<1>3. agent'[a] = st
  BY <1>1, AgentMoves DEF DiscoveryInv
<1>4. OnlyOn(s) /\ TablesOK' /\ TagsOf(s)' = TagsOf(s) /\ (Missing(s) => Missing(s)')
  BY NothingTouched
<1>5. st.id \in TagsOf(s) => st.id \in 1..created /\ tags[st.id].serial = s
  <2> SUFFICES ASSUME st.id \in TagsOf(s) PROVE st.id \in 1..created
    BY DEF TagsOf
  <2>1. st.id \in TagIds /\ tags[st.id].serial = s
    BY DEF TagsOf
  <2>2. tags[st.id] # Absent
    BY <2>1, DiscoveryAssumption DEF Absent, Tag
  <2>3. ~(st.id > created)
    BY <2>1, <2>2 DEF DiscoveryInv, TablesOK
  <2>4. QED
    BY <2>1, <2>3, DiscoveryAssumption DEF TagIds, DiscoveryInv, TablesOK
<1>6. OwnRow(a)'
  BY <1>3, <1>5 DEF OwnRow, At
<1>7. ASSUME s \notin overlapped' PROVE Halfway(a)'
  <2>1. \A b \in Agents : ~Busy(b, s)
    BY <1>2, <1>7 DEF Busy
  <2>2. Whole(s)
    BY <1>1, <1>7, <2>1 DEF DiscoveryInv, AllWhole
  <2>3. CASE TagsOf(s) = {} /\ st.pc \in {"new", "posting"}
    <3>1. Missing(s)'
      BY <1>4, <2>2, <2>3 DEF Whole, Sole
    <3>2. QED
      BY <1>3, <2>3, <3>1 DEF Halfway
  <2>4. CASE st.id \in TagsOf(s)
    <3>1. Sole(s, st.id) /\ s \in serialCache /\ ListedAt(st.id, tags[st.id].place)
      BY <2>2, <2>4 DEF Whole, Missing, Sole
    <3>2. Sole(s, st.id)' /\ s \in serialCache' /\ ListedAt(st.id, tags[st.id].place)'
      BY <1>4, <3>1 DEF Sole, ListedAt
    <3>3. st.pc \in {"known", "putting", "deleting"}
      BY <2>4
    <3>4. QED
      BY <1>3, <2>4, <3>2, <3>3 DEF Halfway
  <2>5. QED
    BY <2>3, <2>4
<1>8. QED
  BY <1>1, <1>2, <1>4, <1>6, <1>7, StepOf

\* Only the queue changes.
LEMMA QueueInv ==
    ASSUME DiscoveryInv, QueueOK', UNCHANGED <<tags, created, devices, serialCache, agent, overlapped>>
    PROVE  DiscoveryInv'
<1>1. TablesOK' /\ AgentsOK' /\ Alone'
  BY DEF DiscoveryInv, TablesOK, AgentsOK, Alone, Busy, At
<1>2. \A a \in Agents : OwnRow(a)'
  BY DEF DiscoveryInv, OwnRow, At
<1>3. \A s : TagsOf(s)' = TagsOf(s)
  BY DEF TagsOf
<1>4. \A s : Whole(s) => Whole(s)'
  BY <1>3 DEF Whole, Missing, Sole, ListedAt
<1>5. AllWhole'
  BY <1>4 DEF DiscoveryInv, AllWhole, Busy, At
<1>6. ASSUME NEW a \in Agents, Halfway(a) PROVE Halfway(a)'
  BY <1>3, <1>4, <1>6 DEF Halfway, Missing, Sole, ListedAt
<1>7. AllHalfway'
  BY <1>6 DEF DiscoveryInv, AllHalfway, At
<1>8. QED
  BY <1>1, <1>2, <1>5, <1>7 DEF DiscoveryInv

-----------------------------------------------------------------------------
(* The actions.                                                            *)
(***************************************************************************)
LEMMA DequeueInv ==
    ASSUME DiscoveryInv, Dequeue PROVE DiscoveryInv'
<1> DEFINE m == Head(queue)
<1>1. m \in [kind : Kinds, serial : Serials] /\ QueueOK' /\ At(Worker, "idle") /\ Worker \in Agents
  <2> DEFINE M == [kind : Kinds, serial : Serials]
  <2>1. queue \in Seq(M) /\ queue # <<>> /\ queue' = Tail(queue)
    BY DEF DiscoveryInv, QueueOK, Dequeue
  <2> HIDE DEF M
  <2>2. Head(queue) \in M /\ queue' \in Seq(M)
    BY <2>1
  <2>3. QED
    BY <2>2 DEF QueueOK, Dequeue, Agents, M
<1>2. UNCHANGED <<tags, created, devices, serialCache>>
  BY DEF Dequeue
<1>3. CASE UNCHANGED <<agent, overlapped>>
  BY <1>1, <1>2, <1>3, QueueInv
<1>4. ASSUME TagsOf(m.serial) = {},
             Start(Worker, m.serial,
                   [pc |-> "new", serial |-> m.serial, id |-> 0,
                    tag |-> Tag(m.serial, PlaceByIP, "settled"), kind |-> m.kind])
      PROVE  DiscoveryInv'
  <2> DEFINE row == Tag(m.serial, PlaceByIP, "settled")
             st == [pc |-> "new", serial |-> m.serial, id |-> 0, tag |-> row, kind |-> m.kind]
  <2>1. row \in Rows /\ row.serial = m.serial
    BY <1>1, DiscoveryAssumption DEF Tag, Rows, Owners, Methods
  <2>2. 0 \in 0..MaxTags
    BY DiscoveryAssumption
  <2> HIDE DEF row
  <2>3. st \in Working(Worker) /\ st.pc = "new" /\ st.serial = m.serial /\ st.tag = row
    BY <1>1, <2>1, <2>2 DEF Working, WorkerStates, WorkerPcs
  <2>4. Start(Worker, m.serial, st)
    BY <1>4 DEF row
  <2> HIDE DEF st
  <2>5. m.serial \in Serials
    BY <1>1
  <2> HIDE DEF m
  <2>6. PICK s \in Serials, su \in Working(Worker) : s = m.serial /\ su = st
    BY <2>3, <2>5
  <2>7. QED
    BY <1>1, <1>2, <1>4, <2>1, <2>3, <2>4, <2>6, StartInv
<1>5. ASSUME NEW i \in TagsOf(m.serial),
             Start(Worker, m.serial,
                   [pc |-> "known", serial |-> m.serial, id |-> i, tag |-> tags[i],
                    kind |-> m.kind])
      PROVE  DiscoveryInv'
  <2> DEFINE st == [pc |-> "known", serial |-> m.serial, id |-> i, tag |-> tags[i],
                    kind |-> m.kind]
  <2>1. i \in TagIds /\ tags[i].serial = m.serial /\ tags[i] \in Rows
    <3>1. i \in TagIds /\ tags[i].serial = m.serial
      BY DEF TagsOf
    <3>2. tags[i] # Absent
      BY <1>1, <3>1, DiscoveryAssumption DEF Absent, Tag
    <3>3. QED
      BY <3>1, <3>2 DEF DiscoveryInv, TablesOK
  <2>2. i \in 0..MaxTags
    BY <2>1 DEF TagIds
  <2>3. /\ st \in Working(Worker) /\ st.pc = "known" /\ st.serial = m.serial
        /\ st.tag = tags[i] /\ st.id = i
    BY <1>1, <2>1, <2>2 DEF Working, WorkerStates, WorkerPcs
  <2>4. Start(Worker, m.serial, st)
    BY <1>5
  <2> HIDE DEF st
  <2>5. m.serial \in Serials
    BY <1>1
  <2> HIDE DEF m
  <2>6. PICK s \in Serials, su \in Working(Worker) : s = m.serial /\ su = st
    BY <2>3, <2>5
  <2>7. QED
    BY <1>1, <1>2, <1>5, <2>1, <2>3, <2>4, <2>6, StartInv
<1>6. QED
  BY <1>3, <1>4, <1>5 DEF Dequeue, Caught

LEMMA WorkInv ==
    ASSUME DiscoveryInv, Work PROVE DiscoveryInv'
<1>1. UNCHANGED <<queue, overlapped>> /\ Worker \in Agents
  BY DEF Work, Agents
<1>2. {"cached", "placed", "written", "done"} \subseteq PcsOf(Worker) \cup {"done"}
  BY DEF PcsOf, WorkerPcs
<1>3. CASE At(Worker, "new") /\ CreateTag(Worker)
  BY <1>1, <1>3, CreateTagInv DEF At
<1>4. CASE At(Worker, "created") /\ CacheSerialNumber(Worker, "cached")
  BY <1>1, <1>4, CacheInv DEF At
<1>5. CASE At(Worker, "cached")
             /\ MoveDevice(Worker, Nowhere, agent[Worker].tag.place,
                           IF agent[Worker].tag.place = Nowhere THEN "done" ELSE "placed")
  <2>1. PICK next \in {"done", "placed"} :
          next = IF agent[Worker].tag.place = Nowhere THEN "done" ELSE "placed"
    OBVIOUS
  <2>2. agent[Worker].tag \in Rows
    BY <1>1, <1>5, Fields DEF DiscoveryInv, At
  <2>3. Nowhere \in Owners /\ agent[Worker].tag.place \in Owners
    BY <2>2 DEF Rows, Owners
  <2>4. PICK to \in Owners : to = agent[Worker].tag.place
    BY <2>3
  <2>5. MoveDevice(Worker, Nowhere, to, next) /\ agent[Worker].pc = "cached"
    BY <1>5, <2>1, <2>4 DEF At
  <2>6. QED
    BY <1>1, <1>2, <2>1, <2>3, <2>4, <2>5, MoveInv
<1>6. CASE At(Worker, "placed") /\ PushOwner(Worker, "done")
  BY <1>1, <1>2, <1>6, OnwardInv DEF At, PushOwner
<1>7. CASE Change \/ StateThrows
  <2>1. CASE Change
    BY <1>1, <2>1, ChangeInv
  <2>2. CASE StateThrows
    BY <1>1, <1>2, <2>2, OnwardInv DEF StateThrows, At
  <2>3. QED
    BY <1>7, <2>1, <2>2
<1>8. CASE At(Worker, "changed") /\ UpdateTag(Worker, "written")
  BY <1>1, <1>2, <1>8, UpdateTagInv DEF At
<1>9. CASE At(Worker, "written")
             /\ IF Pushes(agent[Worker].kind, agent[Worker].tag.place)
                THEN PushOwner(Worker, "done")
                ELSE Goto(Worker, "done") /\ UNCHANGED <<tags, created, devices, serialCache, owner>>
  BY <1>1, <1>2, <1>9, OnwardInv DEF At, PushOwner
<1>10. QED
  BY <1>3, <1>4, <1>5, <1>6, <1>7, <1>8, <1>9 DEF Work

LEMMA ServeInv ==
    ASSUME DiscoveryInv, NEW t \in RestThreads, Serve(t) PROVE DiscoveryInv'
<1>1. UNCHANGED <<queue, overlapped>> /\ t \in Agents /\ t # Worker
  BY DiscoveryAssumption DEF Serve, Agents, Worker
<1>2. RestPcs \cup {"done"} = PcsOf(t) \cup {"done"}
  BY <1>1 DEF PcsOf
<1>3. {"cached", "owned", "put", "moved", "unlisted", "done"} \subseteq PcsOf(t) \cup {"done"}
  BY <1>2 DEF RestPcs
<1>4. At(t, "idle") \/ (agent[t].tag.place \in Owners /\ agent[t].from \in Owners)
  BY <1>1, Fields DEF DiscoveryInv, Rows
<1>5. Nowhere \in Owners
  BY DEF Owners
<1>6. CASE At(t, "posting") /\ CreateTag(t)
  BY <1>1, <1>6, CreateTagInv DEF At
<1>7. CASE At(t, "created") /\ PushOwner(t, "owned")
  BY <1>1, <1>3, <1>7, OnwardInv DEF At, PushOwner
<1>8. CASE At(t, "owned") /\ CacheSerialNumber(t, "cached")
  BY <1>1, <1>8, CacheInv DEF At
<1>9. CASE At(t, "cached") /\ MoveDevice(t, Nowhere, agent[t].tag.place, "done")
  <2>1. PICK to \in Owners : to = agent[t].tag.place
    BY <1>4, <1>9 DEF At
  <2>2. MoveDevice(t, Nowhere, to, "done") /\ agent[t].pc = "cached"
    BY <1>9, <2>1 DEF At
  <2>3. QED
    BY <1>1, <1>3, <1>5, <2>1, <2>2, MoveInv
<1>10. CASE At(t, "putting") /\ UpdateTag(t, "put")
  BY <1>1, <1>3, <1>10, UpdateTagInv DEF At
<1>11. CASE At(t, "put") /\ MoveDevice(t, agent[t].from, agent[t].tag.place, "moved")
  <2>1. PICK from \in Owners, to \in Owners : from = agent[t].from /\ to = agent[t].tag.place
    BY <1>4, <1>11 DEF At
  <2>2. MoveDevice(t, from, to, "moved") /\ agent[t].pc = "put"
    BY <1>11, <2>1 DEF At
  <2>3. QED
    BY <1>1, <1>3, <2>1, <2>2, MoveInv
<1>12. CASE At(t, "moved") /\ PushOwner(t, "done")
  BY <1>1, <1>3, <1>12, OnwardInv DEF At, PushOwner
<1>13. CASE At(t, "deleting") /\ MoveDevice(t, agent[t].from, Nowhere, "unlisted")
  <2>1. PICK from \in Owners : from = agent[t].from
    BY <1>4, <1>13 DEF At
  <2>2. MoveDevice(t, from, Nowhere, "unlisted") /\ agent[t].pc = "deleting"
    BY <1>13, <2>1 DEF At
  <2>3. QED
    BY <1>1, <1>3, <1>5, <2>1, <2>2, MoveInv
<1>14. CASE At(t, "unlisted") /\ DeleteTag(t)
  BY <1>1, <1>14, DeleteTagInv DEF At
<1>15. CASE At(t, "deleted") /\ UncacheSerialNumber(t)
  BY <1>1, <1>15, UncacheInv DEF At
<1>16. QED
  BY <1>6, <1>7, <1>8, <1>9, <1>10, <1>11, <1>12, <1>13, <1>14, <1>15 DEF Serve

\* A request starts on a tag it reads, or on a serial number that has none.
LEMMA RequestInv ==
    ASSUME DiscoveryInv, NEW t \in RestThreads, NEW s \in Serials,
           NEW pc \in {"posting", "putting", "deleting"}, NEW id \in 0..MaxTags,
           NEW tag \in Rows, NEW from \in Owners, tag.serial = s,
           Request(t, s, pc, id, tag, from),
           \/ pc = "posting" /\ TagsOf(s) = {}
           \/ pc # "posting" /\ id \in TagsOf(s) /\ from = tags[id].place
    PROVE  DiscoveryInv'
<1>1. t \in Agents /\ t # Worker /\ At(t, "idle")
  BY DiscoveryAssumption DEF Request, Agents, Worker
<1>2. PICK st : st = [pc |-> pc, serial |-> s, id |-> id, tag |-> tag, from |-> from]
  OBVIOUS
<1>3. /\ st \in RestStates /\ st.pc = pc /\ st.serial = s /\ st.id = id /\ st.tag = tag
      /\ st.from = from
  BY <1>2 DEF RestStates, RestPcs
<1>4. st \in Working(t) /\ Start(t, s, st)
  BY <1>1, <1>2, <1>3 DEF Working, Request
<1>5. QueueOK' /\ UNCHANGED <<tags, created, devices, serialCache>>
  BY DEF Request, DiscoveryInv, QueueOK
<1>6. QED
  BY <1>1, <1>3, <1>4, <1>5, StartInv

\* The row of a tag of s.
LEMMA RowOf ==
    ASSUME DiscoveryInv, NEW s \in Serials, NEW i \in TagsOf(s)
    PROVE  i \in 0..MaxTags /\ tags[i] \in Rows /\ tags[i].serial = s /\ tags[i].place \in Owners
<1>1. i \in TagIds /\ tags[i].serial = s
  BY DEF TagsOf
<1>2. tags[i] # Absent
  BY <1>1, DiscoveryAssumption DEF Absent, Tag
<1>3. tags[i] \in Rows
  BY <1>1, <1>2 DEF DiscoveryInv, TablesOK
<1>4. QED
  BY <1>1, <1>3 DEF TagIds, Rows

LEMMA RequestsInv ==
    ASSUME DiscoveryInv, NEW t \in RestThreads, NEW s \in Serials, NEW p \in Owners,
           NEW keeps \in BOOLEAN,
           DoPost(t, s, p) \/ DoPut(t, s, p, keeps) \/ DoDelete(t, s)
    PROVE  DiscoveryInv'
<1>1. CASE DoPost(t, s, p)
  <2>1. PICK tag : tag = Tag(s, p, "claiming")
    OBVIOUS
  <2>2. tag \in Rows /\ tag.serial = s /\ 0 \in 0..MaxTags /\ Nowhere \in Owners
    BY <2>1, DiscoveryAssumption DEF Tag, Rows, Methods, Owners
  <2>3. Request(t, s, "posting", 0, tag, Nowhere) /\ TagsOf(s) = {}
    BY <1>1, <2>1 DEF DoPost
  <2>4. QED
    BY <2>2, <2>3, RequestInv
<1>2. CASE DoPut(t, s, p, keeps)
  <2>1. PICK i \in TagsOf(s), meth \in Methods :
          Request(t, s, "putting", i, [tags[i] EXCEPT !.place = p, !.method = meth], tags[i].place)
    <3>1. PICK i \in TagsOf(s) :
            Request(t, s, "putting", i,
                    [tags[i] EXCEPT !.place = p,
                                    !.method = IF keeps THEN tags[i].method ELSE "unreadable"],
                    tags[i].place)
      BY <1>2 DEF DoPut
    <3>2. PICK meth \in Methods :
            meth = IF keeps THEN tags[i].method ELSE "unreadable"
      BY RowOf DEF Rows, Methods
    <3>3. QED
      BY <3>1, <3>2
  <2>2. i \in 0..MaxTags /\ tags[i] \in Rows /\ tags[i].serial = s /\ tags[i].place \in Owners
    BY RowOf
  <2>3. PICK tag : tag = [tags[i] EXCEPT !.place = p, !.method = meth]
    OBVIOUS
  <2>4. tag \in Rows /\ tag.serial = s
    BY <2>2, <2>3 DEF Rows, Methods
  <2>5. PICK from \in Owners : from = tags[i].place
    BY <2>2
  <2>6. Request(t, s, "putting", i, tag, from)
    BY <2>1, <2>3, <2>5
  <2>7. QED
    BY <2>1, <2>2, <2>4, <2>5, <2>6, RequestInv
<1>3. CASE DoDelete(t, s)
  <2>1. PICK i \in TagsOf(s) : Request(t, s, "deleting", i, tags[i], tags[i].place)
    BY <1>3 DEF DoDelete
  <2>2. i \in 0..MaxTags /\ tags[i] \in Rows /\ tags[i].serial = s /\ tags[i].place \in Owners
    BY RowOf
  <2>3. PICK tag \in Rows, from \in Owners : tag = tags[i] /\ from = tags[i].place
    BY <2>2
  <2>4. Request(t, s, "deleting", i, tag, from)
    BY <2>1, <2>3
  <2>5. QED
    BY <2>1, <2>2, <2>3, <2>4, RequestInv
<1>4. QED
  BY <1>1, <1>2, <1>3

LEMMA DiscoveryStepInv ==
    DiscoveryInv /\ [DiscoveryNext]_dvars => DiscoveryInv'
<1> SUFFICES ASSUME DiscoveryInv, [DiscoveryNext]_dvars PROVE DiscoveryInv'
  OBVIOUS
<1>1. ASSUME NEW k \in Kinds, NEW s \in Serials, ConnectionReceived(k, s) PROVE DiscoveryInv'
  <2> DEFINE M == [kind : Kinds, serial : Serials]
             e == [kind |-> k, serial |-> s]
  <2>1. queue \in Seq(M) /\ e \in M /\ queue' = Append(queue, e)
    BY <1>1 DEF ConnectionReceived, DiscoveryInv, QueueOK
  <2> HIDE DEF M, e
  <2>2. queue' \in Seq(M)
    BY <2>1
  <2>3. QueueOK'
    BY <2>2 DEF QueueOK, M
  <2>4. QED
    BY <1>1, <2>3, QueueInv DEF ConnectionReceived
<1>2. CASE Dequeue
  BY <1>2, DequeueInv
<1>3. CASE Work
  BY <1>3, WorkInv
<1>4. CASE Stop
  <2>1. QueueOK'
    BY <1>4 DEF Stop, QueueOK
  <2>2. QED
    BY <1>4, <2>1, QueueInv DEF Stop
<1>5. ASSUME NEW t \in RestThreads, NEW s \in Serials, NEW p \in Owners,
             NEW keeps \in BOOLEAN,
             DoPost(t, s, p) \/ DoPut(t, s, p, keeps) \/ DoDelete(t, s)
      PROVE  DiscoveryInv'
  BY <1>5, RequestsInv
<1>6. ASSUME NEW t \in RestThreads, Serve(t) PROVE DiscoveryInv'
  BY <1>6, ServeInv
<1>7. CASE UNCHANGED dvars
  <2>1. QueueOK'
    BY <1>7 DEF dvars, DiscoveryInv, QueueOK
  <2>2. QED
    BY <1>7, <2>1, QueueInv DEF dvars
<1>8. "none" \in {"none", "claiming"} /\ Nowhere \in Owners
  BY DEF Owners
<1>9. ASSUME NEW t \in RestThreads, NEW s \in Serials,
             \/ \E p \in Places \cup {Nowhere} :
                  \/ DoPost(t, s, p)
                  \/ \E keeps \in BOOLEAN : DoPut(t, s, p, keeps)
             \/ DoDelete(t, s)
             \/ Serve(t)
      PROVE  DiscoveryInv'
  BY <1>5, <1>6, <1>8, <1>9 DEF Owners
<1>10. QED
  BY <1>1, <1>2, <1>3, <1>4, <1>7, <1>9 DEF DiscoveryNext

LEMMA DiscoveryInitInv == DiscoveryInit => DiscoveryInv
<1> SUFFICES ASSUME DiscoveryInit PROVE DiscoveryInv
  OBVIOUS
<1>1. TablesOK
  BY DiscoveryAssumption DEF DiscoveryInit, TablesOK, TagIds
<1>2. \A a \in Agents : agent[a] = Resting /\ At(a, "idle")
  BY DEF DiscoveryInit, At, Resting
<1>3. AgentsOK /\ QueueOK
  BY <1>2 DEF DiscoveryInit, AgentsOK, QueueOK
<1>4. Alone /\ AllHalfway /\ \A a \in Agents : OwnRow(a)
  BY <1>2 DEF Alone, Busy, AllHalfway, OwnRow
<1>5. \A s \in Serials : Missing(s)
  BY DiscoveryAssumption DEF DiscoveryInit, Missing, TagsOf, Absent, Tag
<1>6. QED
  BY <1>1, <1>3, <1>4, <1>5 DEF DiscoveryInv, AllWhole, Whole

LEMMA DiscoveryInvAlways == DiscoverySpec => []DiscoveryInv
BY DiscoveryInitInv, DiscoveryStepInv, PTL DEF DiscoverySpec

\* A serial number nobody works on and nobody worked on at once with another has its
\* row, its place in SerialNumberCache and its entry in the list of devices together,
\* for any number of serial numbers, tags, places and threads: CreateFromConnection and
\* the inventory handler only ever break them apart against each other.
THEOREM StoredCachedListedTheorem == DiscoverySpec => []StoredCachedListed
<1>1. DiscoveryInv => StoredCachedListed
  <2> SUFFICES ASSUME DiscoveryInv, NEW s \in Serials \ overlapped,
                      \A a \in Agents : At(a, "idle") \/ agent[a].serial # s
               PROVE  /\ Cardinality(TagsOf(s)) <= 1
                      /\ (s \in serialCache) = (TagsOf(s) # {})
                      /\ \A i \in TagsOf(s), p \in Places :
                            (i \in devices[p]) = (tags[i].place = p)
    BY DEF StoredCachedListed
  <2>1. Whole(s)
    BY DEF DiscoveryInv, AllWhole, Busy
  <2>2. CASE Missing(s)
    <3>1. Cardinality(TagsOf(s)) = 0
      BY <2>2, FS_EmptySet DEF Missing
    <3>2. QED
      BY <2>2, <3>1 DEF Missing
  <2>3. CASE \E i \in TagIds : Sole(s, i) /\ s \in serialCache /\ ListedAt(i, tags[i].place)
    <3>1. PICK i \in TagIds : Sole(s, i) /\ s \in serialCache /\ ListedAt(i, tags[i].place)
      BY <2>3
    <3>2. Cardinality(TagsOf(s)) = 1
      BY <3>1, FS_Singleton DEF Sole
    <3>3. QED
      BY <3>1, <3>2 DEF Sole, ListedAt
  <2>4. QED
    BY <2>1, <2>2, <2>3 DEF Whole
<1>2. QED
  BY <1>1, DiscoveryInvAlways, PTL

=============================================================================
