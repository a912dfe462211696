CONSTANTS
    web = web
    cache = cache
    h1 = h1
    Containers = {web, cache}
    Hosts = {h1}
    HostOf <- OneHost
    Adopts = TRUE
    Cooldown = 1
    MaxPerRun = 2
    MaxPerHost = 1
    None = None
    Released = Released
    MaxImage = 2
    MaxTime = 1
    MaxPasses = 2
    MaxRequests = 1
    MaxLosses = 1
SPECIFICATION Spec
INVARIANTS RecordMatchesContainer RailsHold DecisionsLast
PROPERTIES HeldUntilLookedAt
SYMMETRY Symmetry
CHECK_DEADLOCK FALSE
