CONSTANTS
    w1 = w1
    w2 = w2
    w3 = w3
    p1 = p1
    p2 = p2
    Writers = {w1, w2, w3}
    Procs = {p1, p2}
    ProcOf <- TwoInOne
    Events = {e1, e2}
    NoEvent = NoEvent
    Genesis = Genesis
    MaxRows = 3
SPECIFICATION ChainSpec
INVARIANTS ChainVerifies CacheNotAhead
PROPERTIES ImplementsLog
