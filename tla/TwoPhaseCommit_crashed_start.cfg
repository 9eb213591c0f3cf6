\* The start of the transaction against a crash of the coordinator.
SPECIFICATION MCFairSpec
CONSTANTS
    n1 = n1
    Nodes = {n1}
    CoordinatorId = CoordinatorId
    AbortBias = "sometimes"
    VoteAbortBias = "sometimes"
    MaxCrashes = 1
    MaxInFlight = 2
PROPERTIES
    CrashedCoordinatorIsStill
