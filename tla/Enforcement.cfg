CONSTANTS
    ann = ann
    ben = ben
    dot = dot
    web = web
    Callers = {c1, c2}
    Sweeper = sweeper
    Actions = {a1, a2}
    People = {ann, ben}
    Proposals <- OneProposal
    Policies <- SomePolicies
    DefaultPolicy <- Cautious
    Hour = 2
    None = None
    MaxTime = 2
    LastCall = 1
    MaxCalls = 3
    MaxStops = 0
SPECIFICATION Spec
INVARIANTS TypeOK RateLimitHolds PlaneMatchesRecord EvidenceMatchesRecord
PROPERTIES ImplementsLife SafeListHolds
SYMMETRY Symmetry
CHECK_DEADLOCK FALSE
