CONSTANTS
    ann = ann
    ben = ben
    dot = dot
    web = web
    Callers = {c1, c2}
    Sweeper = sweeper
    Actions = {a1}
    People = {ann, dot}
    Proposals <- DeskProposals
    Policies <- SomePolicies
    DefaultPolicy <- Cautious
    Hour = 2
    None = None
    MaxTime = 2
    LastCall = 1
    MaxCalls = 3
    MaxStops = 1
SPECIFICATION Spec
PROPERTIES DeadlineIsKept
CHECK_DEADLOCK FALSE
