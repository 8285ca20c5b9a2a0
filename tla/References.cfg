SPECIFICATION MCSpec
CONSTANTS
    NoId = NoId
    Keep = Keep
    EntityIds = {e1}
    VenueIds = {v1}
    TagIds = {t1}
    ConfigIds = {c1}
    PolicyIds = {p1}
    RecordIds = {r1, r2}
    OperatorIds = {"default", "o1", "o2"}
    DefaultOperator = "default"
    ClassIds = {"k1", "k2", "k3"}
    DeviceIds = {"d1"}
    RegistrationIds = {"reg"}
    NoClass = ""
    EndpointIds = {"ep"}
    Indexes = {1}
    AccountIds = {"account"}
    CertIds = {"certificate"}
    OrionIds = {"orion"}
    Nothing = ""
    MaxTime = 3
    MaxVersion = 1
SYMMETRY RecordSymmetry
INVARIANTS
    ListsExact
    HeldRecordsKept
    OperatorsWhole
    UpdateDueShown
CHECK_DEADLOCK FALSE
