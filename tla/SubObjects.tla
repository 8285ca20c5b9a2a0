----------------------------- MODULE SubObjects -----------------------------
(***************************************************************************)
(* The objects exchanged with or kept for the subscriber portal (owsub):   *)
(* for every class its members (RESTObjects/RESTAPI_SubObjects.h) and its  *)
(* to_json and from_json (RESTObjects/RESTAPI_SubObjects.cpp). The classes *)
(* without a table of members of their own (enumerations, helpers) are     *)
(* left out.                                                               *)
(***************************************************************************)
EXTENDS JsonCodec

HomeDeviceMode == {"enableLEDS", "type", "subnet", "subnetMask", "startIP", "endIP", "created",
    "modified", "subnetV6", "subnetMaskV6", "startIPV6", "endIPV6", "leaseTime"}
HomeDeviceMode_json == Omitting(Plain(HomeDeviceMode), {"leaseTime"})

IPReservation == {"nickname", "ipAddress", "macAddress"}
IPReservation_json == Plain(IPReservation)

IPReservationList == {"id", "reservations", "created", "modified"}
IPReservationList_json == Plain(IPReservationList)

DnsConfiguration == {"ISP", "custom", "primary", "secondary", "primaryV6", "secondaryV6"}
DnsConfiguration_json == Plain(DnsConfiguration)

InternetConnection == {"type", "username", "password", "ipAddress", "subnetMask",
    "defaultGateway", "sendHostname", "primaryDns", "secondaryDns", "created", "modified",
    "ipV6Support", "ipAddressV6", "subnetMaskV6", "defaultGatewayV6", "primaryDnsV6",
    "secondaryDnsV6"}
InternetConnection_json == Plain(InternetConnection)

WifiNetwork == {"type", "name", "password", "encryption", "bands"}
WifiNetwork_json == Plain(WifiNetwork)

WifiNetworkList == {"wifiNetworks", "created", "modified"}
WifiNetworkList_json == Plain(WifiNetworkList)

AccessTime == {"day", "rangeList"}
AccessTime_json == Plain(AccessTime)

AccessTimes == {"schedule", "created", "modified"}
AccessTimes_json == Plain(AccessTimes)

SubscriberDevice == {"name", "description", "macAddress", "manufacturer", "firstContact",
    "lastContact", "group", "icon", "suspended", "ip", "schedule"}
SubscriberDevice_json == Plain(SubscriberDevice)

SubscriberDeviceList == {"devices", "created", "modified"}
SubscriberDeviceList_json == Plain(SubscriberDeviceList)

Association == {"name", "ssid", "macAddress", "rssi", "power", "ipv4", "ipv6", "tx", "rx",
    "manufacturer"}
Association_json == Plain(Association)

AssociationList == {"associations", "created", "modified"}
AssociationList_json == Plain(AssociationList)

Client == {"macAddress", "speed", "mode", "ipv4", "ipv6", "tx", "rx", "manufacturer"}
Client_json == Plain(Client)

ClientList == {"clients", "created", "modified"}
ClientList_json == Plain(ClientList)

Location == {"buildingName", "addressLines", "city", "state", "postal", "country", "phones",
    "mobiles"}
Location_json == Plain(Location)

RadioHE == {"multipleBSSID", "ema", "bssColor"}
RadioHE_json == Plain(RadioHE)

RadioRates == {"beacon", "multicast"}
RadioRates_json == Plain(RadioRates)

RadioInformation == {"band", "bandwidth", "channel", "country", "channelMode", "channelWidth",
    "requireMode", "txpower", "legacyRates", "beaconInterval", "dtimPeriod", "maximumClients",
    "rates", "he", "allowDFS", "mimo", "rawInfo"}
RadioInformation_json == Plain(RadioInformation)

AccessPoint == {"id", "macAddress", "serialNumber", "name", "deviceType", "subscriberDevices",
    "ipReservations", "address", "wifiNetworks", "internetConnection", "deviceMode",
    "dnsConfiguration", "radios", "automaticUpgrade", "configurationUUID", "currentFirmware",
    "currentFirmwareDate", "latestFirmware", "latestFirmwareDate", "newFirmwareAvailable",
    "latestFirmwareURI"}
AccessPoint_json == Plain(AccessPoint)

AccessPointList == {"list"}
AccessPointList_json == Plain(AccessPointList)

SubscriberInfo == {"id", "userId", "firstName", "initials", "lastName", "phoneNumber",
    "secondaryEmail", "accessPoints", "serviceAddress", "billingAddress", "created", "modified"}
SubscriberInfo_json == Plain(SubscriberInfo)

StatsEntry == {"timestamp", "tx", "rx"}
StatsEntry_json == Plain(StatsEntry)

StatsBlock == {"modified", "external", "internal"}
StatsBlock_json == Plain(StatsBlock)

\* The classes by name.
Codecs == [HomeDeviceMode |-> HomeDeviceMode_json, IPReservation |-> IPReservation_json,
    IPReservationList |-> IPReservationList_json, DnsConfiguration |-> DnsConfiguration_json,
    InternetConnection |-> InternetConnection_json, WifiNetwork |-> WifiNetwork_json,
    WifiNetworkList |-> WifiNetworkList_json, AccessTime |-> AccessTime_json,
    AccessTimes |-> AccessTimes_json, SubscriberDevice |-> SubscriberDevice_json,
    SubscriberDeviceList |-> SubscriberDeviceList_json, Association |-> Association_json,
    AssociationList |-> AssociationList_json, Client |-> Client_json,
    ClientList |-> ClientList_json, Location |-> Location_json, RadioHE |-> RadioHE_json,
    RadioRates |-> RadioRates_json, RadioInformation |-> RadioInformation_json,
    AccessPoint |-> AccessPoint_json, AccessPointList |-> AccessPointList_json,
    SubscriberInfo |-> SubscriberInfo_json, StatsEntry |-> StatsEntry_json,
    StatsBlock |-> StatsBlock_json]
=============================================================================
