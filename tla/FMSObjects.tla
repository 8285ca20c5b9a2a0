----------------------------- MODULE FMSObjects -----------------------------
(***************************************************************************)
(* The objects exchanged with or kept for the firmware service (owfms):    *)
(* for every class its members (RESTObjects/RESTAPI_FMSObjects.h) and its  *)
(* to_json and from_json (RESTObjects/RESTAPI_FMSObjects.cpp). The classes *)
(* without a table of members of their own (enumerations, helpers) are     *)
(* left out.                                                               *)
(***************************************************************************)
EXTENDS JsonCodec

Firmware == {"id", "release", "deviceType", "description", "revision", "uri", "image",
    "imageDate", "size", "downloadCount", "firmwareHash", "owner", "location", "uploader",
    "digest", "latest", "notes", "created"}
Firmware_json == Plain(Firmware)

FirmwareList == {"firmwares"}
FirmwareList_json == Plain(FirmwareList)

DeviceType == {"id", "deviceType", "manufacturer", "model", "policy", "notes", "lastUpdate",
    "created"}
DeviceType_json == Plain(DeviceType)

DeviceTypeList == {"deviceTypes"}
DeviceTypeList_json == Plain(DeviceTypeList)

RevisionHistoryEntry == {"id", "serialNumber", "fromRelease", "toRelease", "commandUUID",
    "revisionId", "upgraded"}
RevisionHistoryEntry_json == Plain(RevisionHistoryEntry)

RevisionHistoryEntryList == {"history"}
RevisionHistoryEntryList_json == Renaming(RevisionHistoryEntryList,
    {<<"deviceTypes", "history">>})

FirmwareAgeDetails == {"latestId", "image", "imageDate", "revision", "uri", "age", "latest"}
FirmwareAgeDetails_json == Plain(FirmwareAgeDetails)

DeviceConnectionInformation == {"serialNumber", "revision", "deviceType", "endPoint",
    "lastUpdate", "status"}
DeviceConnectionInformation_json == Plain(DeviceConnectionInformation)

DeviceReport == {"snapshot", "numberOfDevices", "OUI_", "Revisions_", "DeviceTypes_", "Status_",
    "EndPoints_", "UsingLatest_", "UnknownFirmwares_", "totalSecondsOld_"}
DeviceReport_json == WriteOnly(Renaming(DeviceReport, {<<"ouis", "OUI_">>,
    <<"revisions", "Revisions_">>, <<"deviceTypes", "DeviceTypes_">>, <<"status", "Status_">>,
    <<"endPoints", "EndPoints_">>, <<"usingLatest", "UsingLatest_">>,
    <<"unknownFirmwares", "UnknownFirmwares_">>, <<"totalSecondsOld", "totalSecondsOld_">>}))

DeviceInformation == {"serialNumber", "history", "currentFirmware", "currentFirmwareDate",
    "latestFirmware", "latestFirmwareDate", "latestFirmwareAvailable", "latestFirmwareURI"}
DeviceInformation_json == Plain(DeviceInformation)

DeviceCurrentInfo == {"serialNumber", "revision", "upgraded"}
DeviceCurrentInfo_json == Plain(DeviceCurrentInfo)

DeviceCurrentInfoList == {"devices"}
DeviceCurrentInfoList_json == Plain(DeviceCurrentInfoList)

\* The classes by name.
Codecs == [Firmware |-> Firmware_json, FirmwareList |-> FirmwareList_json,
    DeviceType |-> DeviceType_json, DeviceTypeList |-> DeviceTypeList_json,
    RevisionHistoryEntry |-> RevisionHistoryEntry_json,
    RevisionHistoryEntryList |-> RevisionHistoryEntryList_json,
    FirmwareAgeDetails |-> FirmwareAgeDetails_json,
    DeviceConnectionInformation |-> DeviceConnectionInformation_json,
    DeviceReport |-> DeviceReport_json, DeviceInformation |-> DeviceInformation_json,
    DeviceCurrentInfo |-> DeviceCurrentInfo_json,
    DeviceCurrentInfoList |-> DeviceCurrentInfoList_json]
=============================================================================
