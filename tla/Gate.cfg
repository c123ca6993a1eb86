SPECIFICATION GateSpec
CONSTANTS
    g1 = g1
    Reqs = {r1, r2}
    Keys = {k1, k2}
    Groups = {g1, g2}
    GroupOf <- MCGroupOf
    Modes = {"local", "open", "closed"}
    Rates = {0, 1}
    Quota = 1
    Budget = 1
    Amounts = {0, 1}
    Scale = 2
    MonthDays = 1
    MaxArrivals = 3
    MaxEvents = 2
    MaxTotal = 4
SYMMETRY GateSymmetry
INVARIANTS
    LimitsHold
    BurstBounded
    
CHECK_DEADLOCK FALSE
