CONSTANTS
    Students = {u1}
    Scenarios = {sc1, sc2}
    WebCalls = {w1}
    CliCalls = {k1}
    WebOps = {"start", "end"}
    CliOps = {"reap", "drain"}
    MaxPerStudent = 1
    PoolTarget = 2
    PoolCeiling = 3
    MaxRows = 2
    MaxIndex = 3
    MaxClock = 0
    MaxCalls = 3
    MaxCrashes = 0
    InitialPool = {}
    Nobody = Nobody
    sc1 = sc1
SPECIFICATION Spec
INVARIANTS PoolsWithinBounds ReadyHasMachine
