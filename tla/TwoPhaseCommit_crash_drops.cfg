\* What a crash does to the messages that are under way.
SPECIFICATION MCFairSpec
CONSTANTS
    n1 = n1
    Nodes = {n1}
    CoordinatorId = CoordinatorId
    AbortBias = "sometimes"
    VoteAbortBias = "sometimes"
    MaxCrashes = 1
    MaxInFlight = 2
PROPERTIES
    CrashDropsInFlight
