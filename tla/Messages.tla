------------------------------ MODULE Messages -------------------------------
(***************************************************************************)
(* One object sent from one service to another: the sender's to_json, the  *)
(* document on the wire, the receiver's from_json into a fresh object.     *)
(* The services are released separately, so the document may lack the keys *)
(* of a member the sender does not know yet, or carry a key the receiver   *)
(* reads though its own to_json never writes it.                           *)
(***************************************************************************)
EXTENDS JsonCodec

VARIABLES class,     \* <<namespace, class>> of the object sent, NoClass if none
          dropped,   \* the member the sender does not know, or NoMember
          extra,     \* the <<key, member>> sent besides, or NoPair
          message,   \* the document on the wire, NoMessage before it is sent
          received   \* the object read from it, NoObject before

mvars == <<class, dropped, extra, message, received>>

NoClass   == <<"none", "none">>
NoMember  == "none"
NoPair    == <<"none", "none">>
NoMessage == <<>>
NoObject  == <<>>

Prov      == INSTANCE ProvObjects
Security  == INSTANCE SecurityObjects
GW        == INSTANCE GWObjects
FMS       == INSTANCE FMSObjects
Analytics == INSTANCE AnalyticsObjects
Sub       == INSTANCE SubObjects
Peer      == INSTANCE PeerObjects

Namespaces ==
    [prov |-> Prov!Codecs, security |-> Security!Codecs, gw |-> GW!Codecs, fms |-> FMS!Codecs,
     analytics |-> Analytics!Codecs, sub |-> Sub!Codecs, cert |-> Peer!CertCodecs,
     owls |-> Peer!OWLSCodecs]

Classes == UNION {{<<n, c>> : c \in DOMAIN Namespaces[n]} : n \in DOMAIN Namespaces}

CodecOf(c) == Namespaces[c[1]][c[2]]

\* Classes with one of the two functions only are written for a user interface or
\* read from one; the other end is not this program.
BothWays(c) == CodecOf(c).writes # {} /\ CodecOf(c).reads # {}

\* Every member holds a value of its own.
Original(c) == [m \in CodecOf(c).members |-> <<m>>]
ExtraValue  == <<"extra">>

UnwrittenReads(c) ==
    {p \in CodecOf(c).reads : \A w \in CodecOf(c).writes : w[1] # p[1]}

Send ==
    /\ class # NoClass
    /\ message = NoMessage
    /\ LET codec   == CodecOf(class)
           written == {p \in codec.writes : p[2] # dropped}
           doc     == ToJson([codec EXCEPT !.writes = written], Original(class))
       IN  message' = [key \in DOMAIN doc \cup ({extra[1]} \ {NoPair[1]}) |->
                        IF key = extra[1] THEN ExtraValue ELSE doc[key]]
    /\ UNCHANGED <<class, dropped, extra, received>>

Receive ==
    /\ message # NoMessage
    /\ received = NoObject
    /\ received' = FromJson(CodecOf(class), message, Blank(CodecOf(class)))
    /\ UNCHANGED <<class, dropped, extra, message>>

\* The receiver is done; another object of the same class may follow.
Done ==
    /\ received # NoObject
    /\ message' = NoMessage
    /\ received' = NoObject
    /\ UNCHANGED <<class, dropped, extra>>

MessageInit ==
    /\ message = NoMessage
    /\ received = NoObject
    /\ \/ class = NoClass /\ dropped = NoMember /\ extra = NoPair
       \/ /\ class \in {c \in Classes : BothWays(c)}
          /\ dropped \in CodecOf(class).members \cup {NoMember}
          /\ extra \in UnwrittenReads(class) \cup {NoPair}

MessageNext == Send \/ Receive \/ Done

-----------------------------------------------------------------------------
\* Members that one of the two functions of a class leaves out.
NotCarried ==
    {<<<<"prov", "ManagementPolicy">>, "venue">>, <<<<"prov", "ManagementRole">>, "inUse">>,
     <<<<"prov", "SubscriberDevice">>, "configuration">>, <<<<"gw", "Device">>, "DeviceType">>,
     <<<<"gw", "DefaultConfiguration">>, "Created">>,
     <<<<"gw", "DefaultConfiguration">>, "LastModified">>,
     <<<<"security", "ApiKeyEntry">>, "created">>, <<<<"security", "WebToken">>, "errorCode">>,
     <<<<"security", "WebToken">>, "id_token_">>, <<<<"sub", "HomeDeviceMode">>, "leaseTime">>,
     <<<<"analytics", "DeviceTimePointAnalysis">>, "timestamp">>}

\* What arrives is what was sent, member by member, whatever keys the document
\* lacks or has besides: a missing key costs its own member only, and no key ever
\* lands in the member of another.  Only the members of NotCarried are lost.
ReceivedAsSent ==
    received # NoObject =>
        \A m \in DOMAIN received :
            received[m] = IF extra[2] = m THEN ExtraValue
                          ELSE IF m = dropped \/ <<class, m>> \in NotCarried THEN Unset
                          ELSE <<m>>
=============================================================================
