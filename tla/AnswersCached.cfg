SPECIFICATION Spec
CONSTANTS
    Routes <- MCRoutes
    LineCap = 4
    LineSizes = {2, 3, 4}
    AccCap = 2
    Step = 2
    MaxItems = 2
    MaxBlocks = 2
    MaxParts = 1
    CacheKeys = {"k1", "k2"}
    ModelOf <- MCModelOf
    Readers = {d1, d2}
    Lens = {1, 2}
    MaxBytes = 3
    MaxCount = 2
    MaxSets = 3
SYMMETRY ReaderSymmetry
INVARIANT CachedIsComplete
CHECK_DEADLOCK FALSE
