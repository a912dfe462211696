SPECIFICATION Spec
CONSTANTS
    Builders = {b1}
    Pages = {p1}
    NumWorkloads = 2
    VirtualMachines = {2}
    OneAtATime = TRUE
    TTL = 1
    MaxClock = 1
    MaxBuilds = 2
    MaxCrashes = 1
INVARIANTS
    TypeOK
    CleanHoldsTheFault
    PageIsRecent
PROPERTIES
    ReadyCanBeCloned
CHECK_DEADLOCK FALSE
