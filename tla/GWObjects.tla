----------------------------- MODULE GWObjects ------------------------------
(***************************************************************************)
(* The objects exchanged with or kept for the gateway (owgw): for every    *)
(* class its members (RESTObjects/RESTAPI_GWobjects.h) and its to_json and *)
(* from_json (RESTObjects/RESTAPI_GWobjects.cpp). The classes without a    *)
(* table of members of their own (enumerations, helpers) are left out.     *)
(***************************************************************************)
EXTENDS JsonCodec

ConnectionState == {"MessageCount", "Address", "UUID", "PendingUUID", "TX", "RX",
    "Associations_2G", "Associations_5G", "Associations_6G", "Connected", "LastContact",
    "Firmware", "VerifiedCertificate", "Compatible", "kafkaClients", "webSocketClients",
    "kafkaPackets", "websocketPackets", "locale", "started", "sessionId",
    "connectionCompletionTime", "certificateExpiryDate", "hasRADIUSSessions", "hasGPS", "sanity",
    "memoryUsed", "load", "temperature", "connectReason"}
ConnectionState_json == WriteOnly(Omitting(Renaming(ConnectionState, {<<"ipAddress", "Address">>,
    <<"txBytes", "TX">>, <<"rxBytes", "RX">>, <<"messageCount", "MessageCount">>,
    <<"connected", "Connected">>, <<"firmware", "Firmware">>, <<"lastContact", "LastContact">>,
    <<"associations_2G", "Associations_2G">>, <<"associations_5G", "Associations_5G">>,
    <<"associations_6G", "Associations_6G">>, <<"verifiedCertificate", "VerifiedCertificate">>}),
    {"PendingUUID", "Compatible"}))

DeviceRestrictionsKeyInfo == {"vendor", "algo"}
DeviceRestrictionsKeyInfo_json == Plain(DeviceRestrictionsKeyInfo)

DeviceRestrictions == {"dfs", "ssh", "rtty", "tty", "developer", "upgrade", "commands",
    "country", "key_info"}
DeviceRestrictions_json == Plain(DeviceRestrictions)

Device == {"SerialNumber", "DeviceType", "MACAddress", "Manufacturer", "Configuration", "Notes",
    "Owner", "Location", "Firmware", "Compatible", "FWUpdatePolicy", "UUID", "CreationTimestamp",
    "LastConfigurationChange", "LastConfigurationDownload", "LastFWUpdate", "Venue",
    "DevicePassword", "subscriber", "entity", "modified", "locale", "restrictedDevice",
    "pendingConfiguration", "pendingConfigurationCmd", "restrictionDetails", "pendingUUID",
    "simulated", "lastRecordedContact"}
Device_json == NotWritten(Renaming(Device, {<<"serialNumber", "SerialNumber">>,
    <<"macAddress", "MACAddress">>, <<"manufacturer", "Manufacturer">>, <<"notes", "Notes">>,
    <<"createdTimestamp", "CreationTimestamp">>,
    <<"lastConfigurationChange", "LastConfigurationChange">>,
    <<"lastConfigurationDownload", "LastConfigurationDownload">>,
    <<"lastFWUpdate", "LastFWUpdate">>, <<"owner", "Owner">>, <<"location", "Location">>,
    <<"venue", "Venue">>, <<"firmware", "Firmware">>, <<"compatible", "Compatible">>,
    <<"fwUpdatePolicy", "FWUpdatePolicy">>, <<"devicePassword", "DevicePassword">>,
    <<"configuration", "Configuration">>, <<"deviceType", "DeviceType">>}), {"DeviceType"})

DeviceConnectionStatistics == {"connectedDevices", "averageConnectionTime", "connectingDevices"}
DeviceConnectionStatistics_json == Plain(DeviceConnectionStatistics)

Statistics == {"SerialNumber", "UUID", "Data", "Recorded"}
Statistics_json == WriteOnly(Omitting(Renaming(Statistics, {<<"recorded", "Recorded">>,
    <<"data", "Data">>}), {"SerialNumber"}))

HealthCheck == {"SerialNumber", "UUID", "Data", "Recorded", "Sanity"}
HealthCheck_json == WriteOnly(Omitting(Renaming(HealthCheck, {<<"sanity", "Sanity">>,
    <<"recorded", "Recorded">>, <<"values", "Data">>}), {"SerialNumber"}))

Capabilities == {"Capabilities", "FirstUpdate", "LastUpdate"}
Capabilities_json == WriteOnly(Renaming(Capabilities, {<<"firstUpdate", "FirstUpdate">>,
    <<"lastUpdate", "LastUpdate">>, <<"capabilities", "Capabilities">>}))

DeviceLog == {"SerialNumber", "Log", "Data", "Severity", "Recorded", "LogType", "UUID"}
DeviceLog_json == WriteOnly(Omitting(Renaming(DeviceLog, {<<"log", "Log">>,
    <<"severity", "Severity">>, <<"recorded", "Recorded">>, <<"logType", "LogType">>,
    <<"data", "Data">>}), {"SerialNumber"}))

DefaultConfiguration == {"Name", "Configuration", "Models", "Description", "Created",
    "LastModified"}
DefaultConfiguration_json == NotRead(Renaming(DefaultConfiguration, {<<"name", "Name">>,
    <<"modelIds", "Models">>, <<"description", "Description">>, <<"created", "Created">>,
    <<"lastModified", "LastModified">>, <<"configuration", "Configuration">>}), {"Created",
    "LastModified"})

DefaultFirmware == {"deviceType", "Description", "uri", "revision", "imageCreationDate",
    "Created", "LastModified"}
DefaultFirmware_json == Renaming(DefaultFirmware, {<<"description", "Description">>,
    <<"created", "Created">>, <<"lastModified", "LastModified">>})

CommandDetails == {"UUID", "SerialNumber", "Command", "Status", "SubmittedBy", "Results",
    "Details", "ErrorText", "Submitted", "Executed", "Completed", "RunAt", "ErrorCode", "Custom",
    "WaitingForFile", "AttachDate", "AttachSize", "AttachType", "executionTime", "lastTry",
    "deferred"}
CommandDetails_json == WriteOnly(Omitting(Renaming(CommandDetails,
    {<<"serialNumber", "SerialNumber">>, <<"command", "Command">>, <<"errorText", "ErrorText">>,
    <<"submittedBy", "SubmittedBy">>, <<"status", "Status">>, <<"submitted", "Submitted">>,
    <<"executed", "Executed">>, <<"completed", "Completed">>, <<"when", "RunAt">>,
    <<"errorCode", "ErrorCode">>, <<"custom", "Custom">>, <<"waitingForFile", "WaitingForFile">>,
    <<"attachFile", "AttachDate">>, <<"details", "Details">>, <<"results", "Results">>}),
    {"AttachSize", "AttachType"}))

BlackListedDevice == {"serialNumber", "reason", "author", "created"}
BlackListedDevice_json == Plain(BlackListedDevice)

RttySessionDetails == {"SerialNumber", "Server", "Port", "Token", "TimeOut", "ConnectionId",
    "Started", "CommandUUID", "ViewPort", "DevicePassword"}
RttySessionDetails_json == WriteOnly(Renaming(RttySessionDetails,
    {<<"serialNumber", "SerialNumber">>, <<"server", "Server">>, <<"port", "Port">>,
    <<"token", "Token">>, <<"timeout", "TimeOut">>, <<"connectionId", "ConnectionId">>,
    <<"commandUUID", "CommandUUID">>, <<"started", "Started">>, <<"viewport", "ViewPort">>,
    <<"password", "DevicePassword">>}))

Dashboard == {"snapshot", "numberOfDevices", "commands", "upTimes", "memoryUsed", "load1",
    "load5", "load15", "vendors", "status", "deviceType", "healths", "certificates",
    "lastContact", "associations"}
Dashboard_json == WriteOnly(Plain(Dashboard))

CapabilitiesModel == {"deviceType", "capabilities"}
CapabilitiesModel_json == WriteOnly(Plain(CapabilitiesModel))

ScriptEntry == {"id", "name", "description", "uri", "content", "version", "type", "created",
    "modified", "author", "restricted", "deferred", "timeout", "defaultUploadURI"}
ScriptEntry_json == Plain(ScriptEntry)

ScriptEntryList == {"scripts"}
ScriptEntryList_json == Plain(ScriptEntryList)

ScriptRequest == {"serialNumber", "timeout", "type", "script", "scriptId", "when", "signature",
    "deferred", "uri"}
ScriptRequest_json == Plain(ScriptRequest)

RadiusProxyServerEntry == {"name", "ip", "port", "weight", "secret", "certificate", "radsec",
    "allowSelfSigned", "radsecPort", "radsecSecret", "radsecKey", "radsecCert", "radsecCacerts",
    "radsecRealms", "ignore"}
RadiusProxyServerEntry_json == Plain(RadiusProxyServerEntry)

RadiusProxyServerConfig == {"strategy", "monitor", "monitorMethod", "methodParameters",
    "servers"}
RadiusProxyServerConfig_json == Plain(RadiusProxyServerConfig)

RadiusProxyPool == {"name", "description", "authConfig", "acctConfig", "coaConfig",
    "useByDefault", "radsecPoolType", "poolProxyIp", "radsecKeepAlive", "enabled"}
RadiusProxyPool_json == Plain(RadiusProxyPool)

RadiusProxyPoolList == {"pools"}
RadiusProxyPoolList_json == Plain(RadiusProxyPoolList)

RangeOptions == {"NO_IR", "AUTO_BW", "DFS", "NO_OUTDOOR", "wmmrule_ETSI", "NO_OFDM"}
RangeOptions_json == WriteOnly(Plain(RangeOptions))

FrequencyRange == {"from", "to", "channelWidth", "powerDb", "options"}
FrequencyRange_json == WriteOnly(Plain(FrequencyRange))

RegulatoryCountryInfo == {"country", "domain", "ranges"}
RegulatoryCountryInfo_json == WriteOnly(Plain(RegulatoryCountryInfo))

RADIUSSession == {"started", "lastTransaction", "serialNumber", "destination", "userName",
    "accountingSessionId", "accountingMultiSessionId", "callingStationId",
    "chargeableUserIdentity", "secret", "interface", "nasId", "inputPackets", "outputPackets",
    "inputOctets", "outputOctets", "inputGigaWords", "outputGigaWords", "sessionTime",
    "calledStationId"}
RADIUSSession_json == WriteOnly(Plain(RADIUSSession))

RADIUSSessionList == {"sessions"}
RADIUSSessionList_json == WriteOnly(Plain(RADIUSSessionList))

RadiusCoADMParameters == {"accountingSessionId", "accountingMultiSessionId", "callingStationId",
    "chargeableUserIdentity", "userName"}
RadiusCoADMParameters_json == Plain(RadiusCoADMParameters)

DeviceTransferRequest == {"serialNumber", "server", "port"}
DeviceTransferRequest_json == ReadOnly(Plain(DeviceTransferRequest))

DeviceCertificateUpdateRequest == {"serialNumber", "encodedCertificate"}
DeviceCertificateUpdateRequest_json == ReadOnly(Plain(DeviceCertificateUpdateRequest))

\* The classes by name.
Codecs == [ConnectionState |-> ConnectionState_json,
    DeviceRestrictionsKeyInfo |-> DeviceRestrictionsKeyInfo_json,
    DeviceRestrictions |-> DeviceRestrictions_json, Device |-> Device_json,
    DeviceConnectionStatistics |-> DeviceConnectionStatistics_json,
    Statistics |-> Statistics_json, HealthCheck |-> HealthCheck_json,
    Capabilities |-> Capabilities_json, DeviceLog |-> DeviceLog_json,
    DefaultConfiguration |-> DefaultConfiguration_json, DefaultFirmware |-> DefaultFirmware_json,
    CommandDetails |-> CommandDetails_json, BlackListedDevice |-> BlackListedDevice_json,
    RttySessionDetails |-> RttySessionDetails_json, Dashboard |-> Dashboard_json,
    CapabilitiesModel |-> CapabilitiesModel_json, ScriptEntry |-> ScriptEntry_json,
    ScriptEntryList |-> ScriptEntryList_json, ScriptRequest |-> ScriptRequest_json,
    RadiusProxyServerEntry |-> RadiusProxyServerEntry_json,
    RadiusProxyServerConfig |-> RadiusProxyServerConfig_json,
    RadiusProxyPool |-> RadiusProxyPool_json, RadiusProxyPoolList |-> RadiusProxyPoolList_json,
    RangeOptions |-> RangeOptions_json, FrequencyRange |-> FrequencyRange_json,
    RegulatoryCountryInfo |-> RegulatoryCountryInfo_json, RADIUSSession |-> RADIUSSession_json,
    RADIUSSessionList |-> RADIUSSessionList_json,
    RadiusCoADMParameters |-> RadiusCoADMParameters_json,
    DeviceTransferRequest |-> DeviceTransferRequest_json,
    DeviceCertificateUpdateRequest |-> DeviceCertificateUpdateRequest_json]
=============================================================================
