CONSTANTS
    Callers = {c1, c2, c3}
    Keys = {k1, k2}
    MaxLinks = 3
SPECIFICATION FairLockSpec
INVARIANTS MutualExclusion
PROPERTIES ServedInOrder NobodyWaitsForever
