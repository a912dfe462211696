CONSTANTS
    Students = {u1}
    Scenarios = {sc1}
    WebCalls = {w1, w2}
    CliCalls = {}
    WebOps = {"start", "open", "edit", "check", "complete", "reset", "end"}
    CliOps = {}
    MaxPerStudent = 1
    PoolTarget = 1
    PoolCeiling = 1
    MaxRows = 2
    MaxIndex = 1
    MaxClock = 1
    MaxCalls = 3
    MaxCrashes = 1
    InitialPool <- OneMachine
    Nobody = Nobody
    sc1 = sc1
SPECIFICATION Spec
SYMMETRY Symmetry
INVARIANTS OneBuilderPerProcess ExclusiveMachine ReadyHasMachine OneResult
PROPERTIES TerminalIsFinal
CHECK_DEADLOCK FALSE
