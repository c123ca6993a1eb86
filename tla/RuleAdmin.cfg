SPECIFICATION Spec
CONSTANTS
    Admins = {a1, a2}
    Readers = {r1}
    Ids = {1, 2}
    Cap = 1
    MaxOps = 4
    MaxFaults = 1
    MaxRestarts = 1
INVARIANTS
    LockedEnginesFollow
PROPERTIES
    DeletedStays
SYMMETRY AdminSymmetry
CHECK_DEADLOCK FALSE
