---------------------------- MODULE ProvObjects -----------------------------
(***************************************************************************)
(* The objects exchanged with or kept for the provisioning service: for    *)
(* every class its members (RESTObjects/RESTAPI_ProvObjects.h) and its     *)
(* to_json and from_json (RESTObjects/RESTAPI_ProvObjects.cpp). The        *)
(* classes without a table of members of their own (enumerations, helpers) *)
(* are left out.                                                           *)
(***************************************************************************)
EXTENDS JsonCodec

ObjectInfo_json == Plain(ObjectInfo)

SerialNumberList == {"serialNumbers"}
SerialNumberList_json == Plain(SerialNumberList)

ManagementPolicyEntry == {"users", "resources", "access", "policy"}
ManagementPolicyEntry_json == Plain(ManagementPolicyEntry)

ManagementPolicy == {"entries", "inUse", "entity", "venue"}
ManagementPolicy_json == WithInfo(Omitting(Plain(ManagementPolicy), {"venue"}))

RRMAlgorithmDetails == {"name", "parameters"}
RRMAlgorithmDetails_json == Plain(RRMAlgorithmDetails)

RRMDetails == {"vendor", "schedule", "algorithms"}
RRMDetails_json == Plain(RRMDetails)

DeviceRules == {"rcOnly", "rrm", "firmwareUpgrade"}
DeviceRules_json == Plain(DeviceRules)

Entity == {"parent", "operatorId", "children", "venues", "contacts", "locations",
    "managementPolicy", "deviceConfiguration", "devices", "deviceRules", "sourceIP", "variables",
    "managementPolicies", "managementRoles", "maps", "configurations"}
Entity_json == WithInfo(Plain(Entity))

DiGraphEntry == {"parent", "child"}
DiGraphEntry_json == Plain(DiGraphEntry)

Venue == {"entity", "parent", "subscriber", "children", "managementPolicy", "devices",
    "topology", "design", "deviceConfiguration", "contacts", "location", "deviceRules",
    "sourceIP", "variables", "configurations", "maps", "managementPolicies", "managementRoles",
    "boards"}
Venue_json == WithInfo(Plain(Venue))

UserInfoDigest == {"id", "loginId", "userType"}
UserInfoDigest_json == Renaming(UserInfoDigest, {<<"entity", "loginId">>,
    <<"children", "userType">>})

ManagementRole == {"managementPolicy", "users", "inUse", "entity", "venue"}
ManagementRole_json == WithInfo(Omitting(Plain(ManagementRole), {"inUse"}))

Location == {"type", "buildingName", "addressLines", "city", "state", "postal", "country",
    "phones", "mobiles", "geoCode", "inUse", "entity", "managementPolicy", "timezone"}
Location_json == WithInfo(Plain(Location))

OperatorLocation == {"type", "buildingName", "addressLines", "city", "state", "postal",
    "country", "phones", "mobiles", "geoCode", "operatorId", "subscriberDeviceId",
    "managementPolicy"}
OperatorLocation_json == WithInfo(Plain(OperatorLocation))

SubLocation == {"type", "buildingName", "addressLines", "city", "state", "postal", "country",
    "phones", "mobiles", "geoCode"}
SubLocation_json == Plain(SubLocation)

OperatorLocationList == {"locations"}
OperatorLocationList_json == Plain(OperatorLocationList)

Contact == {"type", "title", "salutation", "firstname", "lastname", "initials", "visual",
    "mobiles", "phones", "primaryEmail", "secondaryEmail", "accessPIN", "inUse", "entity",
    "managementPolicy"}
Contact_json == WithInfo(Plain(Contact))

OperatorContact == {"type", "title", "salutation", "firstname", "lastname", "initials", "visual",
    "mobiles", "phones", "primaryEmail", "secondaryEmail", "accessPIN", "operatorId",
    "subscriberDeviceId", "managementPolicy"}
OperatorContact_json == WithInfo(Plain(OperatorContact))

SubContact == {"type", "title", "salutation", "firstname", "lastname", "initials", "visual",
    "mobiles", "phones", "primaryEmail", "secondaryEmail", "accessPIN"}
SubContact_json == Plain(SubContact)

OperatorContactList == {"contacts"}
OperatorContactList_json == Plain(OperatorContactList)

DeviceConfigurationElement == {"name", "description", "weight", "configuration"}
DeviceConfigurationElement_json == Plain(DeviceConfigurationElement)

DeviceConfiguration == {"managementPolicy", "deviceTypes", "configuration", "inUse", "variables",
    "deviceRules", "subscriberOnly", "venue", "entity", "subscriber"}
DeviceConfiguration_json == WithInfo(Plain(DeviceConfiguration))

InventoryTag == {"serialNumber", "venue", "entity", "subscriber", "deviceType", "qrCode",
    "geoCode", "location", "contact", "deviceConfiguration", "deviceRules", "managementPolicy",
    "state", "devClass", "locale", "realMacAddress", "doNotAllowOverrides", "imported",
    "connected", "platform"}
InventoryTag_json == WithInfo(ReadsAlso(Plain(InventoryTag), {<<"deviceGroup", "platform">>}))

InventoryTagList == {"taglist"}
InventoryTagList_json == Plain(InventoryTagList)

InventoryConfigApplyResult == {"appliedConfiguration", "errors", "warnings", "errorCode"}
InventoryConfigApplyResult_json == Plain(InventoryConfigApplyResult)

Report == {"snapShot", "tenants"}
Report_json == WriteOnly(Renaming(Report, {<<"snapshot", "snapShot">>, <<"devices", "tenants">>}))

ExpandedUseEntry == {"uuid", "name", "description"}
ExpandedUseEntry_json == Plain(ExpandedUseEntry)

ExpandedUseEntryList == {"type", "entries"}
ExpandedUseEntryList_json == Plain(ExpandedUseEntryList)

ExpandedUseEntryMapList == {"entries"}
ExpandedUseEntryMapList_json == Plain(ExpandedUseEntryMapList)

UuidList == {"list"}
UuidList_json == Plain(UuidList)

ObjectACL == {"users", "roles", "access"}
ObjectACL_json == Plain(ObjectACL)

ObjectACLList == {"list"}
ObjectACLList_json == Plain(ObjectACLList)

Map == {"data", "entity", "creator", "visibility", "access", "managementPolicy", "venue"}
Map_json == WithInfo(Plain(Map))

MapList == {"list"}
MapList_json == Plain(MapList)

SignupEntry == {"email", "userId", "macAddress", "serialNumber", "submitted", "completed",
    "status", "error", "statusCode", "deviceID", "registrationId", "operatorId"}
SignupEntry_json == WithInfo(Plain(SignupEntry))

Variable == {"type", "weight", "prefix", "value"}
Variable_json == Plain(Variable)

VariableList == {"variables"}
VariableList_json == Plain(VariableList)

VariableBlock == {"variables", "entity", "venue", "subscriber", "inventory", "configurations",
    "managementPolicy"}
VariableBlock_json == WithInfo(Plain(VariableBlock))

VariableBlockList == {"variableBlocks"}
VariableBlockList_json == Plain(VariableBlockList)

Operator == {"managementPolicy", "managementRoles", "deviceRules", "variables",
    "defaultOperator", "sourceIP", "registrationId", "entityId"}
Operator_json == WithInfo(Plain(Operator))

OperatorList == {"operators"}
OperatorList_json == Plain(OperatorList)

VenueDeviceList == {"id", "name", "description", "devices"}
VenueDeviceList_json == Plain(VenueDeviceList)

ServiceClass == {"operatorId", "managementPolicy", "cost", "currency", "period", "billingCode",
    "variables", "defaultService"}
ServiceClass_json == WithInfo(Plain(ServiceClass))

ServiceClassList == {"serviceClasses"}
ServiceClassList_json == Plain(ServiceClassList)

ConfigurationDetails == {"configuration", "rrm", "firmwareUpgrade", "firmwareRCOnly"}
ConfigurationDetails_json == Plain(ConfigurationDetails)

SubscriberDevice == {"serialNumber", "deviceType", "deviceGroup", "operatorId", "subscriberId",
    "location", "contact", "managementPolicy", "serviceClass", "qrCode", "geoCode",
    "deviceRules", "state", "locale", "billingCode", "deviceConfiguration", "configuration",
    "suspended", "realMacAddress"}
SubscriberDevice_json == WithInfo(NotWritten(Plain(SubscriberDevice), {"configuration"}))

SubscriberDeviceList == {"subscriberDevices"}
SubscriberDeviceList_json == Plain(SubscriberDeviceList)

ConfigurationOverride == {"source", "reason", "parameterName", "parameterType", "parameterValue",
    "modified"}
ConfigurationOverride_json == Plain(ConfigurationOverride)

ConfigurationOverrideList == {"serialNumber", "managementPolicy", "overrides"}
ConfigurationOverrideList_json == Plain(ConfigurationOverrideList)

GLBLRAccountInfo == {"privateKey", "country", "province", "city", "organization", "commonName",
    "CSR", "CSRPrivateKey", "CSRPublicKey", "GlobalReachAcctId"}
GLBLRAccountInfo_json == WithInfo(Plain(GLBLRAccountInfo))

GLBLRCertificateInfo == {"id", "name", "accountId", "csr", "certificate", "certificateChain",
    "certificateId", "expiresAt", "created"}
GLBLRCertificateInfo_json == Plain(GLBLRCertificateInfo)

GooglOrionAccountInfo == {"privateKey", "certificate", "cacerts"}
GooglOrionAccountInfo_json == WithInfo(Plain(GooglOrionAccountInfo))

RADIUSServer == {"Hostname", "IP", "Port", "Secret"}
\* Mutant: the secret is read from the key of the port.
RADIUSServer_json_swapped ==
    Codec(RADIUSServer, Same(RADIUSServer),
          Same(RADIUSServer \ {"Secret"}) \cup {<<"Port", "Secret">>})
RADIUSServer_json == Plain(RADIUSServer)

RADIUSEndPointRadiusType == {"Authentication", "Accounting", "CoA", "AccountingInterval"}
RADIUSEndPointRadiusType_json == Plain(RADIUSEndPointRadiusType)

RADIUSEndPointRadsecType == {"Hostname", "IP", "Port", "Secret", "OpenRoamingType",
    "UseOpenRoamingAccount", "Weight", "Certificate", "PrivateKey", "CaCerts", "AllowSelfSigned"}
RADIUSEndPointRadsecType_json == Plain(RADIUSEndPointRadsecType)

RADIUSEndPoint == {"Type", "PoolStrategy", "UseGWProxy", "Index", "UsedBy", "RadiusServers",
    "RadsecServers", "NasIdentifier", "AccountingInterval"}
RADIUSEndPoint_json == WithInfo(Plain(RADIUSEndPoint))

RADIUSEndpointUpdateStatus == {"lastUpdate", "lastConfigurationChange"}
RADIUSEndpointUpdateStatus_json == Plain(RADIUSEndpointUpdateStatus)

\* The classes by name.
Codecs == [ObjectInfo |-> ObjectInfo_json, SerialNumberList |-> SerialNumberList_json,
    ManagementPolicyEntry |-> ManagementPolicyEntry_json,
    ManagementPolicy |-> ManagementPolicy_json, RRMAlgorithmDetails |-> RRMAlgorithmDetails_json,
    RRMDetails |-> RRMDetails_json, DeviceRules |-> DeviceRules_json, Entity |-> Entity_json,
    DiGraphEntry |-> DiGraphEntry_json, Venue |-> Venue_json,
    UserInfoDigest |-> UserInfoDigest_json, ManagementRole |-> ManagementRole_json,
    Location |-> Location_json, OperatorLocation |-> OperatorLocation_json,
    SubLocation |-> SubLocation_json, OperatorLocationList |-> OperatorLocationList_json,
    Contact |-> Contact_json, OperatorContact |-> OperatorContact_json,
    SubContact |-> SubContact_json, OperatorContactList |-> OperatorContactList_json,
    DeviceConfigurationElement |-> DeviceConfigurationElement_json,
    DeviceConfiguration |-> DeviceConfiguration_json, InventoryTag |-> InventoryTag_json,
    InventoryTagList |-> InventoryTagList_json,
    InventoryConfigApplyResult |-> InventoryConfigApplyResult_json, Report |-> Report_json,
    ExpandedUseEntry |-> ExpandedUseEntry_json,
    ExpandedUseEntryList |-> ExpandedUseEntryList_json,
    ExpandedUseEntryMapList |-> ExpandedUseEntryMapList_json, UuidList |-> UuidList_json,
    ObjectACL |-> ObjectACL_json, ObjectACLList |-> ObjectACLList_json, Map |-> Map_json,
    MapList |-> MapList_json, SignupEntry |-> SignupEntry_json, Variable |-> Variable_json,
    VariableList |-> VariableList_json, VariableBlock |-> VariableBlock_json,
    VariableBlockList |-> VariableBlockList_json, Operator |-> Operator_json,
    OperatorList |-> OperatorList_json, VenueDeviceList |-> VenueDeviceList_json,
    ServiceClass |-> ServiceClass_json, ServiceClassList |-> ServiceClassList_json,
    ConfigurationDetails |-> ConfigurationDetails_json,
    SubscriberDevice |-> SubscriberDevice_json,
    SubscriberDeviceList |-> SubscriberDeviceList_json,
    ConfigurationOverride |-> ConfigurationOverride_json,
    ConfigurationOverrideList |-> ConfigurationOverrideList_json,
    GLBLRAccountInfo |-> GLBLRAccountInfo_json,
    GLBLRCertificateInfo |-> GLBLRCertificateInfo_json,
    GooglOrionAccountInfo |-> GooglOrionAccountInfo_json, RADIUSServer |-> RADIUSServer_json,
    RADIUSEndPointRadiusType |-> RADIUSEndPointRadiusType_json,
    RADIUSEndPointRadsecType |-> RADIUSEndPointRadsecType_json,
    RADIUSEndPoint |-> RADIUSEndPoint_json,
    RADIUSEndpointUpdateStatus |-> RADIUSEndpointUpdateStatus_json]
=============================================================================
