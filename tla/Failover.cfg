SPECIFICATION Spec
CONSTANTS
    N = 2
    Prio <- TwoTiers
    MaxConcurrent <- LimitFirst
    Requests = {1, 2}
    Kinds <- MixedKinds
    Threshold = 1
    Cooloff = 1
    Window = 1
    RatioPct = 40
    RecoverNeed = 1
INVARIANTS
    SlotsReturn
    
PROPERTIES
    EveryStepAdvances
