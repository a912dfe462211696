CONSTANTS
    empty = empty
    good = good
    Calls = {c1, c2}
    Ids = {a1, a2}
    Works = {empty, good}
    Opening = empty
    PassesIn <- OncePassed
    None = None
    TimeLimit = 1
    MaxAttempts = 1
    MaxTime = 1
    MaxRubric = 1
    MaxEvents = 2
    MaxCalls = 5
    MaxStops = 1
SPECIFICATION Spec
INVARIANTS GradeIsOfItsWork OneClock DeliveriesTellTheTruth
SYMMETRY Symmetry
CHECK_DEADLOCK FALSE
