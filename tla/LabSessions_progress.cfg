CONSTANTS
    Students = {u1}
    Scenarios = {sc1}
    WebCalls = {w1}
    CliCalls = {k1}
    WebOps = {"start", "check", "complete"}
    CliOps = {"reap", "prewarm"}
    MaxPerStudent = 1
    PoolTarget = 1
    PoolCeiling = 2
    MaxRows = 1
    MaxIndex = 2
    MaxClock = 2
    MaxCalls = 2
    MaxCrashes = 1
    InitialPool = {}
    Nobody = Nobody
    sc1 = sc1
SPECIFICATION FairSpec
INVARIANTS TypeOK
PROPERTIES LeavesBuilding ExpiredIsRecycled
