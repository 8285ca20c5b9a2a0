---------------------------- MODULE StorageTables ----------------------------
(***************************************************************************)
(* The tables of src/storage: for each its columns in order (the FieldVec),*)
(* the member of the object each column holds (both Convert functions      *)
(* agree on it), which of them hold JSON text, and the statements that     *)
(* upgrade a table an earlier release created.                             *)
(***************************************************************************)
EXTENDS Sequences

\* The statements of an Upgrade script.
AddWith(c, v) == [op |-> "add", column |-> c, from |-> c, default |-> v]
Add(c)        == AddWith(c, <<>>)
Drop(c)       == [op |-> "drop", column |-> c, from |-> c]
Rename(f, c)  == [op |-> "rename", column |-> c, from |-> f]
Adds(cs)      == [i \in DOMAIN cs |-> Add(cs[i])]

\* The columns every table of named objects starts with.
InfoFields == <<"id", "name", "description", "notes", "created", "modified">>

Configurations_Fields == InfoFields \o <<"managementPolicy", "deviceTypes", "configuration",
    "inUse", "variables", "deviceRules", "tags", "subscriberOnly", "entity", "venue",
    "subscriber">>
Configurations_Convert == [members |-> Configurations_Fields, coded |-> {"notes",
    "deviceTypes", "configuration", "inUse", "variables", "deviceRules", "tags"}]
Configurations_Upgrade == Adds(<<"subscriberOnly", "entity", "subscriber", "venue", "deviceRules">>)

Contacts_Fields == InfoFields \o <<"type", "title", "salutation", "firstname", "lastname",
    "initials", "visual", "mobiles", "phones", "primaryEmail", "secondaryEmail", "accessPIN",
    "inUse", "tags", "managementPolicy", "entity">>
Contacts_Convert == [members |-> Contacts_Fields, coded |-> {"notes", "mobiles", "phones",
    "inUse", "tags"}]

Entities_Fields == InfoFields \o <<"parent", "children", "contacts", "locations",
    "managementPolicy", "venues", "deviceConfiguration", "devices", "deviceRules", "tags",
    "sourceIP", "variables", "managementPolicies", "managementRoles", "maps", "configurations",
    "operatorId">>
Entities_Convert == [members |-> Entities_Fields, coded |-> {"notes", "children", "contacts",
    "locations", "venues", "deviceConfiguration", "devices", "deviceRules", "tags", "sourceIP",
    "variables", "managementPolicies", "managementRoles", "maps", "configurations"}]
Entities_Upgrade == Adds(<<"variables", "managementPolicies", "maps", "configurations",
    "managementRoles", "deviceRules", "operatorId">>)

GLBLRAccounts_Fields == InfoFields \o <<"privateKey", "country", "province", "city",
    "organization", "commonName", "CSR", "CSRPrivateKey", "CSRPublicKey", "GlobalReachAcctId">>
GLBLRAccounts_Convert == [members |-> GLBLRAccounts_Fields, coded |-> {"notes"}]

GLBLRCerts_Fields == <<"id", "name", "accountId", "csr", "certificate", "certificateChain",
    "certificateId", "expiresAt", "created">>
GLBLRCerts_Convert == [members |-> GLBLRCerts_Fields, coded |-> {}]

Inventory_Fields == InfoFields \o <<"serialNumber", "venue", "entity", "subscriber",
    "deviceType", "qrcode", "geocode", "location", "contact", "deviceConfiguration",
    "deviceRules", "tags", "managementPolicy", "state", "devClass", "locale", "realMacAddress",
    "doNotAllowOverrides", "imported", "connected", "platform">>
Inventory_Convert == [members |-> [Inventory_Fields EXCEPT ![12] = "qrCode", ![13] = "geoCode"],
    coded |-> {"notes", "deviceRules", "tags"}]
Inventory_Upgrade ==
    Adds(<<"state", "locale", "realMacAddress", "devClass", "deviceRules">>)
        \o <<AddWith("platform", <<"AP">>)>>
        \o Adds(<<"imported", "connected", "doNotAllowOverrides">>)

Locations_Fields == InfoFields \o <<"type", "buildingName", "addressLines", "city", "state",
    "postal", "country", "phones", "mobiles", "geoCode", "inUse", "tags", "managementPolicy",
    "entity", "timezone">>
Locations_Convert == [members |-> Locations_Fields, coded |-> {"notes", "addressLines",
    "phones", "mobiles", "inUse", "tags"}]
Locations_Upgrade == Adds(<<"timezone">>)

Roles_Fields == InfoFields \o <<"managementPolicy", "users", "inUse", "tags", "entity", "venue">>
Roles_Convert == [members |-> Roles_Fields, coded |-> {"notes", "users", "inUse", "tags"}]
Roles_Upgrade == Adds(<<"entity", "venue">>)

Maps_Fields == InfoFields \o <<"tags", "data", "creator", "visibility", "access", "entity",
    "managementPolicy", "venue">>
Maps_Convert == [members |-> Maps_Fields, coded |-> {"notes", "tags", "access"}]
Maps_Upgrade == Adds(<<"managementPolicy", "entity", "venue">>)

OpContacts_Fields == InfoFields \o <<"type", "title", "salutation", "firstname", "lastname",
    "initials", "visual", "mobiles", "phones", "primaryEmail", "secondaryEmail", "accessPIN",
    "operatorId", "tags", "managementPolicy", "subscriberDeviceId">>
OpContacts_Convert == [members |-> OpContacts_Fields, coded |-> {"notes", "mobiles", "phones",
    "tags"}]

OpLocations_Fields == InfoFields \o <<"type", "buildingName", "addressLines", "city", "state",
    "postal", "country", "phones", "mobiles", "geoCode", "operatorId", "tags",
    "managementPolicy", "subscriberDeviceId">>
OpLocations_Convert == [members |-> OpLocations_Fields, coded |-> {"notes", "addressLines",
    "phones", "mobiles", "tags"}]

Operators_Fields == InfoFields \o <<"managementPolicy", "managementRoles", "deviceRules",
    "variables", "defaultOperator", "sourceIP", "registrationId", "entityId">>
Operators_Convert == [members |-> Operators_Fields, coded |-> {"notes", "managementRoles",
    "deviceRules", "variables", "sourceIP"}]
Operators_Upgrade == Adds(<<"deviceRules">>)

OrionAccounts_Fields == InfoFields \o <<"privateKey", "certificate", "cacerts">>
OrionAccounts_Convert == [members |-> OrionAccounts_Fields, coded |-> {"notes", "cacerts"}]

Overrides_Fields == <<"serialNumber", "managementPolicy", "overrides">>
Overrides_Convert == [members |-> Overrides_Fields, coded |-> {"overrides"}]

Policies_Fields == InfoFields \o <<"entries", "inUse", "tags", "entity", "venue">>
Policies_Convert == [members |-> Policies_Fields, coded |-> {"notes", "entries", "inUse",
    "tags"}]
Policies_Upgrade == Adds(<<"entity", "venue">>)

RADIUSEndPoints_Fields == InfoFields \o <<"Type", "RadsecServers", "RadiusServers",
    "PoolStrategy", "Index", "UsedBy", "UseGWProxy", "NasIdentifier", "AccountingInterval">>
RADIUSEndPoints_Convert == [members |-> RADIUSEndPoints_Fields, coded |-> {"notes",
    "RadsecServers", "RadiusServers", "UsedBy"}]
RADIUSEndPoints_Upgrade == Adds(<<"NasIdentifier", "AccountingInterval">>)

ServiceClasses_Fields == InfoFields \o <<"operatorId", "managementPolicy", "cost", "currency",
    "period", "billingCode", "variables", "defaultService">>
ServiceClasses_Convert == [members |-> ServiceClasses_Fields, coded |-> {"notes",
    "variables"}]

Signups_Fields == InfoFields \o <<"email", "userId", "serialNumber", "submitted", "completed",
    "status", "error", "statusCode", "macAddress", "deviceID", "registrationId", "operatorId">>
Signups_Convert == [members |-> Signups_Fields, coded |-> {"notes"}]

SubDevices_Fields == InfoFields \o <<"serialNumber", "deviceType", "operatorId", "subscriberId",
    "location", "contact", "managementPolicy", "serviceClass", "qrCode", "geoCode",
    "deviceRules", "state", "locale", "billingCode", "configuration", "suspended",
    "realMacAddress", "deviceGroup">>
SubDevices_Convert == [members |-> [SubDevices_Fields EXCEPT ![21] = "deviceConfiguration"],
    coded |-> {"notes", "location", "contact", "deviceRules"}]
SubDevices_Upgrade == <<Add("deviceGroup"), Drop("gateway")>>

Variables_Fields == InfoFields \o <<"variables", "entity", "venue", "subscriber", "inventory",
    "configurations", "managementPolicy">>
Variables_Convert == [members |-> Variables_Fields, coded |-> {"notes", "variables",
    "configurations"}]

Venues_Fields == InfoFields \o <<"entity", "parent", "children", "devices", "managementPolicy",
    "topology", "design", "contacts", "location", "deviceRules", "tags", "deviceConfiguration",
    "sourceIP", "variables", "configurations", "maps", "managementPolicies", "managementRoles",
    "boards", "subscriber">>
Venues_Convert == [members |-> Venues_Fields, coded |-> {"notes", "children", "devices",
    "topology", "contacts", "deviceRules", "tags", "deviceConfiguration", "sourceIP", "variables",
    "configurations", "maps", "managementPolicies", "managementRoles", "boards"}]
Venues_Upgrade == Adds(<<"variables", "configurations", "maps", "managementRoles", "managementPolicies",
    "boards">>) \o <<Rename("contact", "contacts"), Add("deviceRules"), Add("subscriber")>>
=============================================================================
