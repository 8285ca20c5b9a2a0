-------------------------- MODULE AnalyticsObjects --------------------------
(***************************************************************************)
(* The objects exchanged with or kept for the analytics service            *)
(* (owanalytics): for every class its members                              *)
(* (RESTObjects/RESTAPI_AnalyticsObjects.h) and its to_json and from_json  *)
(* (RESTObjects/RESTAPI_AnalyticsObjects.cpp). The classes without a table *)
(* of members of their own (enumerations, helpers) are left out.           *)
(***************************************************************************)
EXTENDS JsonCodec

VenueInfo == {"id", "name", "description", "retention", "interval", "monitorSubVenues"}
VenueInfo_json == Plain(VenueInfo)

BoardInfo == {"venueList"}
BoardInfo_json == WithInfo(Plain(BoardInfo))

DeviceInfo == {"boardId", "type", "serialNumber", "deviceType", "lastContact", "lastPing",
    "lastState", "lastFirmware", "lastFirmwareUpdate", "lastConnection", "lastDisconnection",
    "pings", "states", "connected", "connectionIp", "associations_2g", "associations_5g",
    "associations_6g", "health", "lastHealth", "locale", "uptime", "memory"}
DeviceInfo_json == Plain(DeviceInfo)

DeviceInfoList == {"devices"}
DeviceInfoList_json == Plain(DeviceInfoList)

TIDstat_entry == {"rx_msdu", "tx_msdu", "tx_msdu_failed", "tx_msdu_retries"}
TIDstat_entry_json == Plain(TIDstat_entry)

UE_rate == {"bitrate", "mcs", "nss", "ht", "sgi", "chwidth"}
UE_rate_json == Plain(UE_rate)

AveragePoint == {"min", "max", "avg"}
AveragePoint_json == Plain(AveragePoint)

UETimePoint == {"station", "rssi", "tx_bytes", "rx_bytes", "tx_duration", "rx_packets",
    "tx_packets", "tx_retries", "tx_failed", "connected", "inactive", "tx_bytes_bw",
    "rx_bytes_bw", "tx_packets_bw", "rx_packets_bw", "tx_failed_pct", "tx_retries_pct",
    "tx_duration_pct", "tx_bytes_delta", "rx_bytes_delta", "tx_duration_delta",
    "rx_packets_delta", "tx_packets_delta", "tx_retries_delta", "tx_failed_delta", "tx_rate",
    "rx_rate", "tidstats"}
UETimePoint_json == Plain(UETimePoint)

SSIDTimePoint == {"bssid", "mode", "ssid", "band", "channel", "associations", "tx_bytes_bw",
    "rx_bytes_bw", "tx_packets_bw", "rx_packets_bw", "tx_failed_pct", "tx_retries_pct",
    "tx_duration_pct"}
SSIDTimePoint_json == Plain(SSIDTimePoint)

APTimePoint == {"collisions", "multicast", "rx_bytes", "rx_dropped", "rx_errors", "rx_packets",
    "tx_bytes", "tx_dropped", "tx_errors", "tx_packets", "tx_bytes_bw", "rx_bytes_bw",
    "rx_dropped_pct", "tx_dropped_pct", "rx_packets_bw", "tx_packets_bw", "rx_errors_pct",
    "tx_errors_pct", "tx_bytes_delta", "rx_bytes_delta", "rx_dropped_delta", "tx_dropped_delta",
    "rx_packets_delta", "tx_packets_delta", "rx_errors_delta", "tx_errors_delta"}
APTimePoint_json == Plain(APTimePoint)

RadioTimePoint == {"band", "channel_width", "active_ms", "busy_ms", "receive_ms", "transmit_ms",
    "tx_power", "channel", "temperature", "noise", "active_pct", "busy_pct", "receive_pct",
    "transmit_pct"}
RadioTimePoint_json == Plain(RadioTimePoint)

DeviceTimePoint == {"id", "boardId", "timestamp", "ap_data", "ssid_data", "radio_data",
    "device_info", "serialNumber"}
DeviceTimePoint_json == Plain(DeviceTimePoint)

DeviceTimePointAnalysis == {"timestamp", "noise", "temperature", "active_pct", "busy_pct",
    "receive_pct", "transmit_pct", "tx_power", "tx_bytes_bw", "rx_bytes_bw", "rx_dropped_pct",
    "tx_dropped_pct", "rx_packets_bw", "tx_packets_bw", "rx_errors_pct", "tx_errors_pct"}
DeviceTimePointAnalysis_json == Omitting(Plain(DeviceTimePointAnalysis), {"timestamp"})

DeviceTimePointList == {"points", "stats"}
DeviceTimePointList_json == Plain(DeviceTimePointList)

DeviceTimePointStats == {"firstPoint", "lastPoint", "count"}
DeviceTimePointStats_json == Plain(DeviceTimePointStats)

WifiClientRate == {"bitrate", "chwidth", "mcs", "nss", "vht"}
WifiClientRate_json == Plain(WifiClientRate)

WifiClientHistory == {"timestamp", "station_id", "bssid", "ssid", "rssi", "rx_bitrate",
    "rx_chwidth", "rx_mcs", "rx_nss", "rx_vht", "tx_bitrate", "tx_chwidth", "tx_mcs", "tx_nss",
    "tx_vht", "rx_bytes", "tx_bytes", "rx_duration", "tx_duration", "rx_packets", "tx_packets",
    "ipv4", "ipv6", "channel_width", "noise", "tx_power", "channel", "active_ms", "busy_ms",
    "receive_ms", "mode", "ack_signal", "ack_signal_avg", "connected", "inactive", "tx_retries",
    "venue_id"}
WifiClientHistory_json == Plain(WifiClientHistory)

\* The classes by name.
Codecs == [VenueInfo |-> VenueInfo_json, BoardInfo |-> BoardInfo_json,
    DeviceInfo |-> DeviceInfo_json, DeviceInfoList |-> DeviceInfoList_json,
    TIDstat_entry |-> TIDstat_entry_json, UE_rate |-> UE_rate_json,
    AveragePoint |-> AveragePoint_json, UETimePoint |-> UETimePoint_json,
    SSIDTimePoint |-> SSIDTimePoint_json, APTimePoint |-> APTimePoint_json,
    RadioTimePoint |-> RadioTimePoint_json, DeviceTimePoint |-> DeviceTimePoint_json,
    DeviceTimePointAnalysis |-> DeviceTimePointAnalysis_json,
    DeviceTimePointList |-> DeviceTimePointList_json,
    DeviceTimePointStats |-> DeviceTimePointStats_json, WifiClientRate |-> WifiClientRate_json,
    WifiClientHistory |-> WifiClientHistory_json]
=============================================================================
