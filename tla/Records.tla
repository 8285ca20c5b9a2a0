------------------------------- MODULE Records -------------------------------
(***************************************************************************)
(* One record of one kind on its whole way through the service: the JSON   *)
(* body of a POST or PUT, the object the handler builds from it, the row   *)
(* the storage layer writes, and the table that row lives in while the     *)
(* service is upgraded, crashes and starts again.                          *)
(*                                                                         *)
(* Guards on other records (does the entity exist, is the policy in use)   *)
(* belong to the modules of the hierarchy; here a body is always one the   *)
(* handler accepts.                                                        *)
(***************************************************************************)
EXTENDS ProvObjects, StorageTables, Naturals, FiniteSets

CONSTANTS KindNames,    \* the kinds of record to follow
          MaxPuts       \* bound: PUT requests on one record

VARIABLES kind,         \* the kind of record followed, NoKind when none is
          columns,      \* the columns of its table; {} before it is created
          upgrade,      \* 0: down; i: at statement i of Upgrade(); Up: serving
          row,          \* column -> cell, NoRow when there is no record
          known,        \* history: member -> the value a caller last gave it
          puts          \* history: PUTs so far

vars == <<kind, columns, upgrade, row, known, puts>>

NoKind == "no kind"
NoRow  == <<>>

-----------------------------------------------------------------------------
(* What each handler does with a body.  "server" are the members the       *)
(* handler sets or clears itself after from_json; "assigns" the members a  *)
(* PUT copies when the body has them; "appends" the lists a PUT extends    *)
(* because AssignIfPresent pushes onto the vector it is given.             *)
(***************************************************************************)
Handler(server, assigns, appends) ==
    [server |-> server, assigns |-> assigns, appends |-> appends]

Contact_handler == Handler({"inUse"},
    {"managementPolicy", "entity", "title", "salutation", "firstname", "lastname", "initials",
     "visual", "primaryEmail", "secondaryEmail", "accessPIN", "type", "mobiles", "phones"}, {})

Location_handler == Handler({"inUse"},
    {"timezone", "managementPolicy", "entity", "buildingName", "city", "state", "postal",
     "country", "geoCode", "addressLines", "phones", "mobiles", "type"}, {})

Map_handler == Handler({"creator"},
    {"managementPolicy", "entity", "venue", "data", "visibility"}, {})

Variables_handler == Handler({}, {"variables", "managementPolicy", "entity", "venue"}, {})

OpContact_handler == Handler({},
    {"type", "title", "salutation", "firstname", "lastname", "initials", "visual", "accessPIN",
     "secondaryEmail", "primaryEmail", "subscriberDeviceId", "managementPolicy"},
    {"mobiles", "phones"})

OpLocation_handler == Handler({},
    {"type", "subscriberDeviceId", "managementPolicy", "buildingName", "city", "state",
     "postal", "country", "geoCode"},
    {"addressLines", "mobiles", "phones"})

Operator_handler == Handler({"entityId", "defaultOperator"},
    {"managementPolicy", "variables", "sourceIP", "deviceRules"}, {})

ServiceClass_handler == Handler({"defaultService"},
    {"cost", "currency", "billingCode", "variables"}, {})

RADIUSEndPoint_handler == Handler({}, {"NasIdentifier", "AccountingInterval"}, {})

OrionAccount_handler == Handler({}, {}, {})

Entity_handler == Handler(
    {"venues", "children", "contacts", "locations", "deviceConfiguration", "managementRoles",
     "operatorId"},
    {"sourceIP", "managementPolicy", "deviceRules"}, {})

Venue_handler == Handler({"children"},
    {"deviceRules", "sourceIP", "entity", "location", "contacts", "managementPolicy",
     "deviceConfiguration", "boards"}, {})

Inventory_handler == Handler({},
    {"deviceRules", "managementPolicy", "entity", "venue", "location", "contact",
     "deviceConfiguration", "subscriber", "doNotAllowOverrides", "devClass", "state",
     "deviceType"}, {})

Configuration_handler == Handler({"inUse"},
    {"deviceTypes", "managementPolicy", "entity", "venue", "configuration", "variables",
     "deviceRules"}, {})

Policy_handler == Handler({"inUse"}, {"entity", "venue", "entries"}, {})

-----------------------------------------------------------------------------
(* The kinds: class, table and handler.  A table no modelled handler        *)
(* updates has Stored as its handler: it is only written whole and read.    *)
(***************************************************************************)
Stored == Handler({}, {}, {})

Kind(codec, fields, convert, script, handler) ==
    [codec |-> codec, fields |-> fields, convert |-> convert, script |-> script,
     handler |-> handler]

Kinds ==
    [contact |-> Kind(Contact_json, Contacts_Fields, Contacts_Convert, <<>>, Contact_handler),
     location |-> Kind(Location_json, Locations_Fields, Locations_Convert, Locations_Upgrade,
                       Location_handler),
     map |-> Kind(Map_json, Maps_Fields, Maps_Convert, Maps_Upgrade, Map_handler),
     variables |-> Kind(VariableBlock_json, Variables_Fields, Variables_Convert, <<>>,
                        Variables_handler),
     op_contact |-> Kind(OperatorContact_json, OpContacts_Fields, OpContacts_Convert, <<>>,
                         OpContact_handler),
     op_location |-> Kind(OperatorLocation_json, OpLocations_Fields, OpLocations_Convert, <<>>,
                          OpLocation_handler),
     operator |-> Kind(Operator_json, Operators_Fields, Operators_Convert, Operators_Upgrade,
                       Operator_handler),
     service_class |-> Kind(ServiceClass_json, ServiceClasses_Fields, ServiceClasses_Convert,
                            <<>>, ServiceClass_handler),
     radius_endpoint |-> Kind(RADIUSEndPoint_json, RADIUSEndPoints_Fields,
                              RADIUSEndPoints_Convert, RADIUSEndPoints_Upgrade,
                              RADIUSEndPoint_handler),
     orion |-> Kind(GooglOrionAccountInfo_json, OrionAccounts_Fields, OrionAccounts_Convert,
                    <<>>, OrionAccount_handler),
     entity |-> Kind(Entity_json, Entities_Fields, Entities_Convert, Entities_Upgrade,
                     Entity_handler),
     venue |-> Kind(Venue_json, Venues_Fields, Venues_Convert, Venues_Upgrade, Venue_handler),
     tag |-> Kind(InventoryTag_json, Inventory_Fields, Inventory_Convert, Inventory_Upgrade,
                  Inventory_handler),
     configuration |-> Kind(DeviceConfiguration_json, Configurations_Fields,
                            Configurations_Convert, Configurations_Upgrade,
                            Configuration_handler),
     policy |-> Kind(ManagementPolicy_json, Policies_Fields, Policies_Convert, Policies_Upgrade,
                     Policy_handler),
     role |-> Kind(ManagementRole_json, Roles_Fields, Roles_Convert, Roles_Upgrade, Stored),
     sub_device |-> Kind(SubscriberDevice_json, SubDevices_Fields, SubDevices_Convert,
                         SubDevices_Upgrade, Stored),
     signup |-> Kind(SignupEntry_json, Signups_Fields, Signups_Convert, <<>>, Stored),
     overrides |-> Kind(ConfigurationOverrideList_json, Overrides_Fields, Overrides_Convert,
                        <<>>, Stored),
     gr_account |-> Kind(GLBLRAccountInfo_json, GLBLRAccounts_Fields, GLBLRAccounts_Convert,
                         <<>>, Stored),
     gr_certificate |-> Kind(GLBLRCertificateInfo_json, GLBLRCerts_Fields, GLBLRCerts_Convert,
                             <<>>, Stored)]

ASSUME KindNamesKnown == KindNames \subseteq DOMAIN Kinds

k == Kinds[kind]
Up == Len(k.script) + 1
ColumnSet == {k.fields[i] : i \in DOMAIN k.fields}

\* Members CreateObjectInfo sets whatever the body says.
Stamped == {"id", "created", "modified"}
HasInfo == "modified" \in k.codec.members

-----------------------------------------------------------------------------
(* Values and conversions.                                                 *)
(***************************************************************************)
\* Value number n of member m; two members never share one.  Number 0 is what an
\* earlier release wrote, 1 what the POST sent, 2 and up what a PUT sent.
Value(m, n) == <<[of |-> m, no |-> n]>>
ByServer    == 100
Server(m)   == Value(m, ByServer)

\* The types of a contact: to_string knows every ContactType, contact_from_string
\* has no case for MANAGER and answers CT_UNKNOWN.
CT_USER    == 101
CT_MANAGER == 102
CT_UNKNOWN == 103
Manager == Value("type", CT_MANAGER)
Unknown == Value("type", CT_UNKNOWN)
contact_from_string(v) == IF v = Manager THEN Unknown ELSE v
IsContact == kind = "contact"
Parsed(m, v) == IF IsContact /\ m = "type" THEN contact_from_string(v) ELSE v

\* A column that holds JSON: to_string writes an array, to_object_array returns
\* nothing for a text that is not one.
to_string(v) == <<"[">> \o v \o <<"]">>
to_object_array(cell) ==
    IF Len(cell) >= 2 /\ cell[1] = "[" THEN SubSeq(cell, 2, Len(cell) - 1) ELSE Unset

\* Both Convert functions go by position.
ToRow(obj) ==
    [c \in ColumnSet |->
        LET i == CHOOSE i \in DOMAIN k.fields : k.fields[i] = c
            m == k.convert.members[i]
        IN  IF m \in k.convert.coded THEN to_string(obj[m]) ELSE obj[m]]

FromRow(r) ==
    [m \in k.codec.members |->
        LET at == {i \in DOMAIN k.fields : k.convert.members[i] = m}
            c  == k.fields[CHOOSE i \in at : TRUE]
        IN  IF at = {} THEN Unset
            ELSE IF m \in k.convert.coded THEN to_object_array(r[c]) ELSE Parsed(m, r[c])]

-----------------------------------------------------------------------------
(* Start-up: Create() and Upgrade() of the table.                          *)
(***************************************************************************)
Statement == k.script[upgrade]

\* create table if not exists.
Create ==
    /\ kind # NoKind
    /\ upgrade = 0
    /\ columns' = IF columns = {} THEN ColumnSet ELSE columns
    /\ upgrade' = 1
    /\ UNCHANGED <<kind, row, known, puts>>

\* RunScript ignores a statement the database refuses: a column that is already
\* there, one that is not there to rename or drop.
Applies(s) ==
    CASE s.op = "add"    -> s.column \notin columns
      [] s.op = "drop"   -> s.column \in columns
      [] s.op = "rename" -> s.from \in columns /\ s.column \notin columns

\* A mutation: the script ends at the first statement that fails.
AfterFailureStop == Up

AfterFailure == upgrade + 1

Altered(s) ==
    CASE s.op = "add"    -> [c \in columns \cup {s.column} |->
                                IF c = s.column THEN s.default ELSE row[c]]
      [] s.op = "drop"   -> [c \in columns \ {s.column} |-> row[c]]
      [] s.op = "rename" -> [c \in (columns \ {s.from}) \cup {s.column} |->
                                IF c = s.column THEN row[s.from] ELSE row[c]]

RunStatement ==
    /\ kind # NoKind
    /\ upgrade \in DOMAIN k.script
    /\ IF Applies(Statement)
       THEN /\ columns' = CASE Statement.op = "add"    -> columns \cup {Statement.column}
                            [] Statement.op = "drop"   -> columns \ {Statement.column}
                            [] Statement.op = "rename" ->
                                  (columns \ {Statement.from}) \cup {Statement.column}
            /\ row' = IF row = NoRow THEN NoRow ELSE Altered(Statement)
            /\ upgrade' = upgrade + 1
       ELSE /\ UNCHANGED <<columns, row>>
            /\ upgrade' = AfterFailure
    /\ UNCHANGED <<kind, known, puts>>

\* The process ends; the database keeps what the statements did so far.
Crash ==
    /\ kind # NoKind
    /\ upgrade # 0
    /\ upgrade' = 0
    /\ UNCHANGED <<kind, columns, row, known, puts>>

-----------------------------------------------------------------------------
(* Requests.                                                               *)
(***************************************************************************)
\* SQL that names a column the table does not have fails.
Usable == kind # NoKind /\ upgrade = Up /\ ColumnSet \subseteq columns

Types == IF IsContact THEN {CT_USER, CT_MANAGER} ELSE {1}

Write(obj) == [c \in columns |-> IF c \in ColumnSet THEN ToRow(obj)[c] ELSE Unset]

SetByServer(m) == (HasInfo /\ m \in Stamped) \/ m \in k.handler.server

\* from_json of a body with every member, the handler's own members, CreateRecord.
DoPost ==
    /\ Usable
    /\ row = NoRow
    /\ \E t \in Types :
         LET body == [m \in k.codec.members |-> Value(m, IF m = "type" THEN t ELSE 1)]
             obj  == FromJson(k.codec, body, Blank(k.codec))
         IN  /\ row' = Write([m \in k.codec.members |->
                                IF SetByServer(m) THEN Server(m) ELSE Parsed(m, obj[m])])
             /\ known' = [m \in k.codec.members |->
                            IF SetByServer(m) THEN Server(m) ELSE body[m]]
    /\ UNCHANGED <<kind, columns, upgrade, puts>>

\* UpdateObjectInfo: name and description when present, MergeNotes appends.
InfoAssigns == IF HasInfo THEN {"name", "description"} ELSE {}
InfoAppends == IF HasInfo THEN {"notes"} ELSE {}

Taken == k.handler.assigns \cup InfoAssigns \cup k.handler.appends \cup InfoAppends

\* Mutant: lists are copied from the parsed body even when it does not have them.
MergedBlank(existing, m, v) ==
    [x \in DOMAIN existing |->
        IF x = m THEN v ELSE IF x \in k.handler.appends THEN Unset ELSE existing[x]]

\* The object a PUT writes back: the stored one with the members of the body
\* the handler copies.
Merged(existing, m, v) ==
    [x \in DOMAIN existing |->
        IF x = "modified" THEN Server(x)
        ELSE IF x # m THEN existing[x]
        ELSE IF m \in k.handler.assigns \cup InfoAssigns THEN Parsed(m, v)
        ELSE IF m \in k.handler.appends \cup InfoAppends THEN existing[m] \o v
        ELSE existing[m]]

DoPut(m) ==
    /\ Usable
    /\ row # NoRow
    /\ HasInfo
    /\ puts < MaxPuts
    /\ \E n \in IF m = "type" /\ IsContact THEN Types ELSE {puts + 2} :
         LET v == Value(m, n)
         IN  /\ row' = Write(Merged(FromRow(row), m, v))
             /\ known' = [x \in DOMAIN known \cup (Taken \cap {m}) |->
                            CASE x = "modified"           -> Server(x)
                              [] x = m /\ m \in Taken     -> v
                              [] OTHER                    -> known[x]]
    /\ puts' = puts + 1
    /\ UNCHANGED <<kind, columns, upgrade>>

DoDelete ==
    /\ Usable
    /\ row # NoRow
    /\ row' = NoRow
    /\ known' = <<>>
    /\ puts' = 0
    /\ UNCHANGED <<kind, columns, upgrade>>

-----------------------------------------------------------------------------
\* The table an earlier release left: the first n statements of the script were
\* part of that release, the others are new.
ColumnsAfter(kk, n) ==
    LET later == {i \in DOMAIN kk.script : i > n}
        all   == {kk.fields[i] : i \in DOMAIN kk.fields}
        new   == {kk.script[i].column : i \in {j \in later : kk.script[j].op # "drop"}}
        old   == {kk.script[i].from : i \in {j \in later : kk.script[j].op # "add"}}
    IN  (all \ new) \cup old

\* A row of that table, written by the release that created it.
OldRow(kk, cols) ==
    [c \in cols |->
        LET at == {i \in DOMAIN kk.fields : kk.fields[i] = c}
            m  == kk.convert.members[CHOOSE i \in at : TRUE]
        IN  IF at = {} THEN Value(c, 0)
            ELSE IF m \in kk.convert.coded THEN to_string(Value(m, 0)) ELSE Value(m, 0)]

OldKnown(kk, cols) ==
    [m \in {kk.convert.members[i] : i \in {j \in DOMAIN kk.fields : kk.fields[j] \in cols}}
        |-> Value(m, 0)]

Init ==
    /\ upgrade = 0
    /\ puts = 0
    /\ \/ /\ kind \in KindNames
          /\ \/ columns = {} /\ row = NoRow /\ known = <<>>
             \/ \E n \in 0 .. Len(k.script) :
                  /\ columns = ColumnsAfter(k, n)
                  /\ row = OldRow(k, columns)
                  /\ known = OldKnown(k, columns)
       \/ kind = NoKind /\ columns = {} /\ row = NoRow /\ known = <<>>

Next ==
    \/ Create
    \/ RunStatement
    \/ Crash
    \/ DoPost
    \/ kind # NoKind /\ \E m \in k.codec.members : DoPut(m)
    \/ DoDelete

Spec == Init /\ [][Next]_vars

-----------------------------------------------------------------------------
TypeOK ==
    /\ kind \in KindNames \cup {NoKind}
    /\ upgrade \in IF kind = NoKind THEN {0} ELSE 0 .. Up
    /\ row # NoRow => DOMAIN row = columns
    /\ puts \in 0 .. MaxPuts

\* Members a caller may send that no row keeps: the tables without a column for
\* the tags of the object, and the members whose JSON form is missing.
NotKept ==
    [m \in DOMAIN Kinds |->
        (CASE m = "policy"     -> {"venue"}
           [] m = "role"       -> {"inUse"}
           [] m = "sub_device" -> {"configuration"}
           [] OTHER            -> {}) \cup
        (IF m \in {"gr_account", "operator", "orion", "radius_endpoint", "service_class",
                   "signup", "sub_device", "variables"} THEN {"tags"} ELSE {})]

\* Once the service is up, however often it died during the upgrade, every member
\* of the record reads as it was last sent, by the body of a POST or PUT or by the
\* release that wrote the row.  Three exceptions are the code's: a list a PUT
\* extends ends with what was sent, a contact of type MANAGER comes back UNKNOWN,
\* and the members of NotKept.
StoredAsSent ==
    kind # NoKind /\ upgrade = Up /\ row # NoRow =>
        /\ Usable
        /\ \A m \in DOMAIN known \ NotKept[kind] :
             LET v == FromRow(row)[m]
             IN  \/ v = known[m]
                 \/ known[m] = Manager /\ v = Unknown
                 \/ /\ m \in k.handler.appends \cup InfoAppends
                    /\ Len(v) >= Len(known[m])
                    /\ SubSeq(v, Len(v) - Len(known[m]) + 1, Len(v)) = known[m]

\* A PUT that names one member changes no other member of the stored record but
\* the date of the last change: handlers write back whole rows.
PutChangesOneMember ==
    [][puts' = puts + 1 =>
        \E m \in k.codec.members : \A x \in k.codec.members \ {m, "modified"} :
            FromRow(row')[x] = FromRow(row)[x]]_vars
=============================================================================
