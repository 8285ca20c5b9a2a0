SPECIFICATION FairSpec
CONSTANTS
    j1 = j1
    j2 = j2
    j3 = j3
    d1 = d1
    d2 = d2
    JobIds = {j1, j2}
    Devices = {d1, d2}
    PoolSize = 2
    TaskPoolSize = 2
    Outcomes = {"updated"}
INVARIANTS DeletedWhenFinished EveryDeviceReported
PROPERTIES JobsFinish
CHECK_DEADLOCK FALSE
