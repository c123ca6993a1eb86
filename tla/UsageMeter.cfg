SPECIFICATION Spec
CONSTANTS
    Keys = {k1, k2}
    AccCap = 1
    ReqCap = 2
    Batch = 1
    FinalCap = 2
    MaxRequests = 3
    LastDay = 1
INVARIANTS
    UsageCountedOnce
    NeverBackdated
    DropsAreCounted
    NoRowTwice
PROPERTIES
    EventuallyFlushed
CHECK_DEADLOCK FALSE
