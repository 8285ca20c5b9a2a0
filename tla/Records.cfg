SPECIFICATION MCSpec
CONSTANTS
    KindNames <- MCKindNames
    MaxPuts = 2
    ConfigIds = {"c1", "c2"}
    EntityOf <- MCEntityOf
    ParentOf <- MCParentOf
    NoPlace = ""
    ElementLists <- MCElementLists
    Listings <- MCListings
    Sections <- MCSections
    RuleEntityOf <- MCRuleEntityOf
    RuleParentOf <- MCParentOf
    Rules = {"rcOnly", "rrm"}
    NoOne = ""
    TheDevice = "device"
    TheService = "service"
    MaxRulePuts = 1
INVARIANTS
    StoredAsSent
    ReceivedAsSent
    HeaviestNearestWins
    NearestRuleApplies
PROPERTY PutChangesOneMember
