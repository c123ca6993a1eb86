SPECIFICATION Spec
CONSTANTS
    Calls = {c1}
    Budget = 50
    MaxCalls = 2
    ProviderNames = {"a", "b"}
    Answers = {"slow", "failed"}
    MaxIds = 2
    TrackedCap = 2
    MaxProvEdits = 3
    MaxAsked = 1
INVARIANTS
    NoUseAfterFree
    BodyHasOneOwner
    AnswerIfAny
    LoserCancelled
PROPERTIES
    Reclaimed
    HealthFollows
CHECK_DEADLOCK FALSE
