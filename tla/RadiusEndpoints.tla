--------------------------- MODULE RadiusEndpoints ---------------------------
(***************************************************************************)
(* RADIUS endpoints, the OpenRoaming accounts and certificates they use,   *)
(* and the push of all endpoints to the gateway.                           *)
(*                                                                         *)
(* A file holds two times: the last change of an endpoint and the last     *)
(* update of the gateway.  It is how an administrator sees that an update  *)
(* is due.  A handler first writes its record and then, in ChangeConfigu-  *)
(* ration, reads the file and saves it; the updater reads the endpoints,   *)
(* talks to the gateway, reads the file and saves it.  The steps of the    *)
(* two interleave and either can be cut short by a crash.  Issuing a       *)
(* certificate takes a call of many seconds to the Global Reach service    *)
(* between the look at the account and the creation of the record.         *)
(*                                                                         *)
(* Bounds: one handler, one update and one certificate under way at a      *)
(* time, MaxTime seconds, MaxVersion changes of one record.                *)
(***************************************************************************)
EXTENDS Naturals

CONSTANTS
    EndpointIds, Indexes, AccountIds, CertIds, OrionIds,
    Nothing,    \* no account, nobody at work
    MaxTime, MaxVersion

ASSUME RadiusAssumption ==
    /\ MaxTime \in Nat /\ MaxVersion \in Nat
    /\ Nothing \notin AccountIds \union CertIds \union OrionIds

EndpointTypes == {"generic", "radsec", "orion", "globalreach"}

VARIABLES
    endpoints,  \* the endpoint records, by identifier
    issuedIds,  \* the identifiers handed out
    accounts,   \* Global Reach accounts
    certs,      \* certs[c]: account and version of a certificate record
    orions,     \* Orion accounts
    issuing,    \* the account whose certificate is being issued
    status,     \* the file
    handler,    \* the request thread in ChangeConfiguration
    updater,    \* the request thread in UpdateEndpoints
    gateway,    \* the pools the gateway has
    now,
    blurred     \* since the last update a change fell into the running of an update,
                \* into its second, or was cut short by a crash (history)

radiusVars == <<endpoints, issuedIds, accounts, certs, orions, issuing, status, handler,
                updater, gateway, now, blurred>>

NoStatus == [update |-> 0, change |-> 0]

RadiusInit ==
    /\ endpoints = <<>> /\ issuedIds = {}
    /\ accounts = {} /\ certs = <<>> /\ orions = {}
    /\ issuing = Nothing
    /\ status = NoStatus
    /\ handler = [at |-> "idle", seen |-> NoStatus]
    /\ updater = [at |-> "idle", seen |-> NoStatus, pools |-> <<>>, late |-> FALSE]
    /\ gateway = <<>>
    /\ now = 1
    /\ blurred = FALSE

Without(f, S) == [x \in DOMAIN f \ S |-> f[x]]
With(f, x, y) == [z \in DOMAIN f \union {x} |-> IF z = x THEN y ELSE f[z]]

(***************************************************************************)
(* ChangeConfiguration, called by every handler that changes an endpoint   *)
(* once the record is written.                                             *)
(***************************************************************************)
Changes ==
    /\ handler.at = "idle"
    /\ handler' = [handler EXCEPT !.at = "changed"]
    /\ updater' = [updater EXCEPT !.late = TRUE]

\* The file may be missing, or cut short by a crash: the times stay zero.
StatusRead ==
    /\ handler.at = "changed"
    /\ handler' = [at |-> "read", seen |-> status]
    /\ UNCHANGED <<endpoints, issuedIds, accounts, certs, orions, issuing, status,
                   updater, gateway, now, blurred>>

\* A mutation: the time of the last update is not taken over from the file but set.
StatusSaveResets ==
    /\ handler.at = "read"
    /\ status' = [update |-> now, change |-> now]
    /\ handler' = [at |-> "idle", seen |-> NoStatus]
    /\ blurred' = (blurred \/ now = status.update \/ updater.at # "idle")
    /\ UNCHANGED <<endpoints, issuedIds, accounts, certs, orions, issuing, updater,
                   gateway, now>>

StatusSave ==
    /\ handler.at = "read"
    /\ status' = [handler.seen EXCEPT !.change = now]
    /\ handler' = [at |-> "idle", seen |-> NoStatus]
    /\ blurred' = (blurred \/ now = status.update \/ updater.at # "idle")
    /\ UNCHANGED <<endpoints, issuedIds, accounts, certs, orions, issuing, updater,
                   gateway, now>>

(***************************************************************************)
(* POST, PUT and DELETE of an endpoint.  The index must be free, an Orion  *)
(* endpoint names an Orion account, a Global Reach endpoint a certificate. *)
(***************************************************************************)
EndpointPost(p, type, index, account) ==
    /\ p \notin issuedIds
    /\ \A q \in DOMAIN endpoints : endpoints[q].index # index
    /\ CASE type = "orion"       -> account \in orions
         [] type = "globalreach" -> account \in DOMAIN certs
         [] OTHER                -> account = Nothing
    /\ Changes
    /\ endpoints' = With(endpoints, p, [type |-> type, index |-> index,
                                        account |-> account, version |-> 0])
    /\ issuedIds' = issuedIds \union {p}
    /\ UNCHANGED <<accounts, certs, orions, issuing, status, gateway, now, blurred>>

EndpointPut(p) ==
    /\ p \in DOMAIN endpoints
    /\ endpoints[p].version < MaxVersion
    /\ Changes
    /\ endpoints' = [endpoints EXCEPT ![p].version = @ + 1]
    /\ UNCHANGED <<issuedIds, accounts, certs, orions, issuing, status, gateway, now,
                   blurred>>

EndpointDelete(p) ==
    /\ p \in DOMAIN endpoints
    /\ Changes
    /\ endpoints' = Without(endpoints, {p})
    /\ UNCHANGED <<issuedIds, accounts, certs, orions, issuing, status, gateway, now,
                   blurred>>

(***************************************************************************)
(* Global Reach and Orion accounts.  PUT changes what is not modelled.     *)
(* None of these requests touches the file.                                *)
(***************************************************************************)
AccountPost(a) ==
    /\ a \notin issuedIds
    /\ accounts' = accounts \union {a}
    /\ issuedIds' = issuedIds \union {a}
    /\ UNCHANGED <<endpoints, certs, orions, issuing, status, handler, updater, gateway,
                   now, blurred>>

\* The certificates go first, then the account.
AccountDelete(a) ==
    /\ a \in accounts
    /\ certs' = Without(certs, {c \in DOMAIN certs : certs[c].account = a})
    /\ accounts' = accounts \ {a}
    /\ UNCHANGED <<endpoints, issuedIds, orions, issuing, status, handler, updater,
                   gateway, now, blurred>>

OrionPost(o) ==
    /\ o \notin issuedIds
    /\ orions' = orions \union {o}
    /\ issuedIds' = issuedIds \union {o}
    /\ UNCHANGED <<endpoints, accounts, certs, issuing, status, handler, updater, gateway,
                   now, blurred>>

OrionDelete(o) ==
    /\ o \in orions
    /\ orions' = orions \ {o}
    /\ UNCHANGED <<endpoints, issuedIds, accounts, certs, issuing, status, handler,
                   updater, gateway, now, blurred>>

(***************************************************************************)
(* Certificates.  POST reads the account, asks the service, and creates    *)
(* the record; nothing looks at the account a second time.                 *)
(***************************************************************************)
CertificateAsked(a) ==
    /\ issuing = Nothing
    /\ a \in accounts
    /\ issuing' = a
    /\ UNCHANGED <<endpoints, issuedIds, accounts, certs, orions, status, handler, updater,
                   gateway, now, blurred>>

CertificateRefused ==
    /\ issuing # Nothing
    /\ issuing' = Nothing
    /\ UNCHANGED <<endpoints, issuedIds, accounts, certs, orions, status, handler, updater,
                   gateway, now, blurred>>

CertificateIssued(c) ==
    /\ issuing # Nothing
    /\ c \notin issuedIds
    /\ certs' = With(certs, c, [account |-> issuing, version |-> 0])
    /\ issuedIds' = issuedIds \union {c}
    /\ issuing' = Nothing
    /\ UNCHANGED <<endpoints, accounts, orions, status, handler, updater, gateway, now, blurred>>

\* PUT with updateCertificate: the account of the path exists, the certificate
\* exists; that it is the account's is not checked.  The call to the service is
\* part of the step.
CertificatePut(a, c) ==
    /\ a \in accounts
    /\ c \in DOMAIN certs
    /\ certs[c].version < MaxVersion
    /\ Changes
    /\ certs' = [certs EXCEPT ![c].version = @ + 1]
    /\ UNCHANGED <<endpoints, issuedIds, accounts, orions, issuing, status, gateway, now,
                   blurred>>

\* The account of the path must exist: the certificate of a deleted account stays for ever.
CertificateDelete(a, c) ==
    /\ a \in accounts
    /\ c \in DOMAIN certs /\ certs[c].account = a
    /\ certs' = Without(certs, {c})
    /\ UNCHANGED <<endpoints, issuedIds, accounts, orions, issuing, status, handler,
                   updater, gateway, now, blurred>>

(***************************************************************************)
(* UpdateEndpoints.  A pool per endpoint; an Orion or Global Reach         *)
(* endpoint whose account or certificate is gone is left out.              *)
(***************************************************************************)
Usable(p) ==
    CASE endpoints[p].type = "orion" -> endpoints[p].account \in orions
      [] endpoints[p].type = "globalreach" ->
            /\ endpoints[p].account \in DOMAIN certs
            /\ certs[endpoints[p].account].account \in accounts
      [] OTHER -> TRUE

Pools ==
    [p \in {q \in DOMAIN endpoints : Usable(q)} |->
        [version |-> endpoints[p].version,
         key |-> IF endpoints[p].type = "globalreach"
                 THEN certs[endpoints[p].account].version ELSE 0]]

UpdateReads ==
    /\ updater.at = "idle"
    /\ updater' = [at |-> "built", seen |-> NoStatus, pools |-> Pools, late |-> FALSE]
    /\ UNCHANGED <<endpoints, issuedIds, accounts, certs, orions, issuing, status, handler,
                   gateway, now, blurred>>

UpdateRefused ==
    /\ updater.at = "built"
    /\ updater' = [updater EXCEPT !.at = "idle", !.pools = <<>>]
    /\ UNCHANGED <<endpoints, issuedIds, accounts, certs, orions, issuing, status, handler,
                   gateway, now, blurred>>

UpdateAccepted ==
    /\ updater.at = "built"
    /\ gateway' = updater.pools
    /\ updater' = [updater EXCEPT !.at = "accepted", !.pools = <<>>]
    /\ blurred' = updater.late
    /\ UNCHANGED <<endpoints, issuedIds, accounts, certs, orions, issuing, status, handler,
                   now>>

UpdateStatusRead ==
    /\ updater.at = "accepted"
    /\ updater' = [updater EXCEPT !.at = "read", !.seen = status]
    /\ UNCHANGED <<endpoints, issuedIds, accounts, certs, orions, issuing, status, handler,
                   gateway, now, blurred>>

UpdateStatusSave ==
    /\ updater.at = "read"
    /\ status' = [update |-> now, change |-> now]
    /\ updater' = [at |-> "idle", seen |-> NoStatus, pools |-> <<>>, late |-> FALSE]
    /\ blurred' = (blurred \/ updater.late)
    /\ UNCHANGED <<endpoints, issuedIds, accounts, certs, orions, issuing, handler,
                   gateway, now>>

(***************************************************************************)
(* A crash ends all requests; one in Save may have truncated the file.     *)
(***************************************************************************)
RadiusCrash(file) ==
    /\ file \in {status, NoStatus}
    /\ file = NoStatus => (handler.at = "read" \/ updater.at = "read" \/ status = NoStatus)
    /\ status' = file
    /\ blurred' = (blurred \/ handler.at # "idle")
    /\ handler' = [at |-> "idle", seen |-> NoStatus]
    /\ updater' = [at |-> "idle", seen |-> NoStatus, pools |-> <<>>, late |-> FALSE]
    /\ issuing' = Nothing
    /\ UNCHANGED <<endpoints, issuedIds, accounts, certs, orions, gateway, now>>

SecondPasses ==
    /\ now < MaxTime
    /\ now' = now + 1
    /\ UNCHANGED <<endpoints, issuedIds, accounts, certs, orions, issuing, status, handler,
                   updater, gateway, blurred>>

RadiusNext ==
    \/ StatusRead \/ StatusSave
    \/ \E p \in EndpointIds :
        \/ \E type \in EndpointTypes, index \in Indexes,
              account \in CertIds \union OrionIds \union {Nothing} :
                EndpointPost(p, type, index, account)
        \/ EndpointPut(p) \/ EndpointDelete(p)
    \/ \E a \in AccountIds :
        \/ AccountPost(a) \/ AccountDelete(a) \/ CertificateAsked(a)
        \/ \E c \in CertIds : CertificatePut(a, c) \/ CertificateDelete(a, c)
    \/ \E o \in OrionIds : OrionPost(o) \/ OrionDelete(o)
    \/ CertificateRefused
    \/ \E c \in CertIds : CertificateIssued(c)
    \/ UpdateReads \/ UpdateRefused \/ UpdateAccepted
    \/ UpdateStatusRead \/ UpdateStatusSave
    \/ \E file \in {status, NoStatus} : RadiusCrash(file)
    \/ SecondPasses

RadiusSpec == RadiusInit /\ [][RadiusNext]_radiusVars

-----------------------------------------------------------------------------

(***************************************************************************)
(* With no request under way, the gateway has every usable endpoint as it  *)
(* is now and none that was deleted, or the file shows a change after the  *)
(* last update, whatever updates and changes interleaved before; except    *)
(* after a change that fell into the running of an update or into its      *)
(* second, or whose request crashed: those the two times cannot tell.      *)
(* About ChangeConfiguration and UpdateEndpoints, which both read the file *)
(* and write all of it back.                                               *)
(***************************************************************************)
UpdateDueShown ==
    ~blurred /\ handler.at = "idle" /\ updater.at = "idle" =>
        \/ /\ DOMAIN gateway \subseteq DOMAIN endpoints
           /\ \A p \in DOMAIN Pools : p \in DOMAIN gateway /\ gateway[p] = Pools[p]
        \/ status.change > status.update

=============================================================================
