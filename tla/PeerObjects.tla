---------------------------- MODULE PeerObjects -----------------------------
(***************************************************************************)
(* The objects of the certificate service (owca) and of the load simulator *)
(* (owls): for every class its members (RESTObjects/RESTAPI_CertObjects.h, *)
(* RESTAPI_OWLSobjects.h) and its to_json and from_json (the .cpp files of *)
(* these).  The classes without a table of members of their own            *)
(* (enumerations, helpers) are left out.                                   *)
(***************************************************************************)
EXTENDS JsonCodec

CertificateEntry == {"id", "entity", "creator", "type", "status", "certificate", "key", "devid",
    "cas", "manufacturer", "model", "redirector", "commonName", "certificateId", "batch",
    "created", "modified", "revoked", "revokeCount", "synched", "expiryDate"}
CertificateEntry_json == Plain(CertificateEntry)

EntityEntry == {"id", "creator", "name", "description", "defaultRedirector", "apiKey",
    "serverEnrollmentProfile", "clientEnrollmentProfile", "organization", "notes", "suspended",
    "deleted", "created", "modified"}
EntityEntry_json == Plain(EntityEntry)

BatchEntry == {"id", "entity", "creator", "name", "description", "manufacturer", "model",
    "redirector", "commonNames", "jobHistory", "notes", "submitted", "started", "completed",
    "modified"}
BatchEntry_json == Plain(BatchEntry)

JobEntry == {"id", "entity", "creator", "batch", "command", "commonNames", "completedNames",
    "errorNames", "parameters", "status", "submitted", "started", "completed",
    "requesterUsername"}
JobEntry_json == Plain(JobEntry)

DashBoardYearlyStats == {"year", "activeCerts", "revokedCerts"}
DashBoardYearlyStats_json == WriteOnly(Plain(DashBoardYearlyStats))

Dashboard == {"snapshot", "numberOfIssuedCerts", "numberOfRevokedCerts",
    "activeCertsPerOrganization", "revokedCertsPerOrganization", "numberOfRedirectors",
    "deviceTypes", "monthlyNumberOfCerts", "monthlyNumberOfCertsPerOrgPerYear"}
Dashboard_json == WriteOnly(Plain(Dashboard))

\* The classes by name.
CertCodecs == [CertificateEntry |-> CertificateEntry_json, EntityEntry |-> EntityEntry_json,
    BatchEntry |-> BatchEntry_json, JobEntry |-> JobEntry_json,
    DashBoardYearlyStats |-> DashBoardYearlyStats_json, Dashboard |-> Dashboard_json]

-----------------------------------------------------------------------------
SimulationDetails == {"id", "name", "gateway", "certificate", "key", "macPrefix", "deviceType",
    "devices", "healthCheckInterval", "stateInterval", "minAssociations", "maxAssociations",
    "minClients", "maxClients", "simulationLength", "threads", "clientInterval", "keepAlive",
    "reconnectInterval", "concurrentDevices"}
SimulationDetails_json == Plain(SimulationDetails)

SimulationDetailsList == {"list"}
SimulationDetailsList_json == Plain(SimulationDetailsList)

SimulationStatus == {"id", "simulationId", "state", "tx", "rx", "msgsTx", "msgsRx",
    "liveDevices", "timeToFullDevices", "startTime", "endTime", "errorDevices", "owner",
    "expectedDevices"}
SimulationStatus_json == WriteOnly(Plain(SimulationStatus))

\* The classes by name.
OWLSCodecs == [SimulationDetails |-> SimulationDetails_json,
    SimulationDetailsList |-> SimulationDetailsList_json,
    SimulationStatus |-> SimulationStatus_json]
=============================================================================
