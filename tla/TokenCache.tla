----------------------------- MODULE TokenCache ------------------------------
(***************************************************************************)
(* How AuthClient answers for a credential: from its own cache, or by      *)
(* asking the security service and caching what it says, while that        *)
(* service revokes credentials and announces it with REMOVE_TOKEN on the   *)
(* bus.  The answer is fetched without a lock: a removal can be consumed   *)
(* between the answer and the Cache_.update.                               *)
(***************************************************************************)
EXTENDS Naturals, FiniteSets

CONSTANTS UserTokens, SubscriberTokens, ApiKeys,   \* the credentials by kind
          Threads                                  \* threads of the REST server

VARIABLES revoked,    \* credentials the security service has revoked
          past,       \* credentials whose date has passed
          cached,     \* Cache_ and ApiKeyCache_: the credentials they hold
          removals,   \* REMOVE_TOKEN messages on the bus, not yet consumed
          thread,     \* thread -> where it is in IsAuthorized or IsValidApiKey
          removed,    \* history: credentials whose REMOVE_TOKEN was consumed
          raced       \* history: credentials being fetched when it was

tvars == <<revoked, past, cached, removals, thread, removed, raced>>

Tokens == UserTokens \cup SubscriberTokens
Credentials == Tokens \cup ApiKeys

\* pc: "idle"; "ask" the service; "told" its answer.  sub: the retry of a token as
\* a subscriber's.  verdict of the last call: "none", "granted" or "denied".
Idle == [pc |-> "idle", credential |-> "none", sub |-> FALSE, answer |-> "none",
         verdict |-> "none"]

Finished(v) == [Idle EXCEPT !.verdict = v]
Asking(c, s) ==
    [pc |-> "ask", credential |-> c, sub |-> s, answer |-> "none", verdict |-> "none"]

-----------------------------------------------------------------------------
\* IsAuthorized: a cached token is good until its own date.
IsAuthorized(t, c) ==
    /\ thread[t].pc = "idle"
    /\ c \in Tokens
    /\ IF c \in cached
       THEN IF c \in past
            THEN /\ cached' = cached \ {c}
                 /\ thread' = [thread EXCEPT ![t] = Finished("denied")]
            ELSE /\ thread' = [thread EXCEPT ![t] = Finished("granted")]
                 /\ UNCHANGED cached
       ELSE /\ thread' = [thread EXCEPT ![t] = Asking(c, FALSE)]
            /\ UNCHANGED cached
    /\ UNCHANGED <<revoked, past, removals, removed, raced>>

\* IsValidApiKey: the entry is used when ExpiresOn < Now, that is once the key's
\* date has passed; before that every call removes the entry and asks again.
IsValidApiKey(t, c) ==
    /\ thread[t].pc = "idle"
    /\ c \in ApiKeys
    /\ IF c \in cached /\ c \in past
       THEN /\ thread' = [thread EXCEPT ![t] = Finished("granted")]
            /\ UNCHANGED cached
       ELSE /\ cached' = cached \ {c}
            /\ thread' = [thread EXCEPT ![t] = Asking(c, FALSE)]
    /\ UNCHANGED <<revoked, past, removals, removed, raced>>

\* The request to the security service: it may not be listed or not answer in
\* time; otherwise it knows a credential it has not revoked, a user's and a
\* subscriber's token each at its own end point.
Knows(c, sub) ==
    /\ c \notin revoked
    /\ c \in Tokens => (c \in SubscriberTokens) = sub

Ask(t) ==
    /\ thread[t].pc = "ask"
    /\ \E a \in {"timeout", IF Knows(thread[t].credential, thread[t].sub) THEN "ok" ELSE "no"} :
         thread' = [thread EXCEPT ![t].pc = "told", ![t].answer = a]
    /\ UNCHANGED <<revoked, past, cached, removals, removed, raced>>

\* Mutant: every answer of the service is cached.
AcceptedAny(c, answer) == answer # "timeout"

\* An answer that is cached and grants the request; the date is checked for
\* tokens only.
Accepted(c, answer) == answer = "ok" /\ (c \in Tokens => c \notin past)

\* RetrieveTokenInformation and RetrieveApiKeyInformation after the answer; a
\* token that is not accepted is tried once more as a subscriber's.
Told(t) ==
    /\ thread[t].pc = "told"
    /\ LET c == thread[t].credential
       IN  IF Accepted(c, thread[t].answer)
           THEN /\ cached' = cached \cup {c}
                /\ thread' = [thread EXCEPT ![t] = Finished("granted")]
           ELSE /\ thread' = [thread EXCEPT ![t] =
                        IF c \in Tokens /\ ~thread[t].sub THEN Asking(c, TRUE)
                        ELSE Finished("denied")]
                /\ UNCHANGED cached
    /\ UNCHANGED <<revoked, past, removals, removed, raced>>

-----------------------------------------------------------------------------
\* The security service revokes a credential and announces it.
Revoke(c) ==
    /\ c \notin revoked
    /\ revoked' = revoked \cup {c}
    /\ removals' = removals \cup {c}
    /\ UNCHANGED <<past, cached, thread, removed, raced>>

\* Mutant: only the cache of API keys is told.
WithoutKeyOnly(c) == cached \ ({c} \cap ApiKeys)

\* RemovedCachedToken.
WithoutCredential(c) == cached \ {c}

RemoveToken(c) ==
    /\ c \in removals
    /\ removals' = removals \ {c}
    /\ cached' = WithoutCredential(c)
    /\ removed' = removed \cup {c}
    /\ raced' = IF \E t \in Threads : thread[t].credential = c THEN raced \cup {c} ELSE raced
    /\ UNCHANGED <<revoked, past, thread>>

\* An entry of the caches lives 20 minutes, however often it is used.
CacheExpires(c) ==
    /\ c \in cached
    /\ cached' = cached \ {c}
    /\ UNCHANGED <<revoked, past, removals, thread, removed, raced>>

DatePasses(c) ==
    /\ c \notin past
    /\ past' = past \cup {c}
    /\ UNCHANGED <<revoked, cached, removals, thread, removed, raced>>

\* AuthClient::Stop clears the cache of tokens.
AuthStop ==
    /\ cached' = cached \ Tokens
    /\ UNCHANGED <<revoked, past, removals, thread, removed, raced>>

TokenInit ==
    /\ revoked = {} /\ past = {} /\ cached = {} /\ removals = {} /\ removed = {} /\ raced = {}
    /\ thread = [t \in Threads |-> Idle]

TokenNext ==
    \/ \E t \in Threads :
         \/ \E c \in Credentials : IsAuthorized(t, c) \/ IsValidApiKey(t, c)
         \/ Ask(t)
         \/ Told(t)
    \/ \E c \in Credentials : Revoke(c) \/ RemoveToken(c) \/ CacheExpires(c) \/ DatePasses(c)
    \/ AuthStop

\* A thread finishes the call it is in (requests have a timeout), the bus is
\* consumed, and cache entries reach their age.
TokenFairness ==
    /\ \A t \in Threads : WF_tvars(Ask(t)) /\ WF_tvars(Told(t))
    /\ \A c \in Credentials : WF_tvars(RemoveToken(c)) /\ SF_tvars(CacheExpires(c))

TokenSpec == TokenInit /\ [][TokenNext]_tvars /\ TokenFairness

-----------------------------------------------------------------------------
\* Once this service has consumed the removal of a credential, the credential is
\* cached again only if some thread was fetching it at that moment.
RemovedStaysOut == removed \cap cached \subseteq raced

\* A revoked credential is in the end not cached any more, for good: also the one
\* a racing fetch put back is dropped with its age and never fetched again.
RevokedForgotten ==
    \A c \in Credentials : (c \in revoked) ~> [](c \notin cached)
=============================================================================
