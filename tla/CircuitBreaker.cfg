SPECIFICATION Spec
CONSTANTS
    Keys = {k1}
    Requests = {r1, r2}
    Threshold = 2
    Cooloff = 2
    Window = 3
    RatioPct = 40
    RecoverNeed = 2
INVARIANTS
    OneProbePerEpisode
    CooloffUnlessRelieved
    FailuresAreConsecutive
    RingIsLastWindow
PROPERTIES
    OpenWindowEnds
