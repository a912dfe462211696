CONSTANTS
    WebCalls = {w1, w2}
    CliCalls = {k1}
    Sids = {s1}
    HasForm = TRUE
    WriteUps <- SomeWriteUps
    MachineMarks <- OneMachine
    Weight = 30
    PassMark = 80
    FormPassMark = 60
    Writers = {w1, w2, p1}
    Keys <- SomeKeys
    Unfiled = Unfiled
    MaxCalls = 2
    MaxCrashes = 1
    MaxDeliveries = 2
SPECIFICATION Spec
SYMMETRY Symmetry
INVARIANTS UngradedNeverPasses ResolvedIsDocumented FiledIsStored
PROPERTIES DraftIsKept FiledOnce
CHECK_DEADLOCK FALSE
