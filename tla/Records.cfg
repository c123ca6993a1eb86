SPECIFICATION Spec
CONSTANTS
    Keys = {k1, k2}
    NewKeys = {k2}
    Bogus = {b1}
    Models = {m1, m2}
    Admins = {a1, a2}
    Threads = {t1}
    CacheCap = 1
    NegCap = 1
    MaxOps = 2
INVARIANTS
    CachesFollow
SYMMETRY Symmetry
CONSTRAINT OneCacheInUse
CHECK_DEADLOCK FALSE
