\* No symmetry: it is not sound for liveness.
SPECIFICATION MCFairSpec
CONSTANTS
    n1 = n1
    n2 = n2
    Nodes = {n1, n2}
    CoordinatorId = CoordinatorId
    AbortBias = "sometimes"
    VoteAbortBias = "sometimes"
    MaxCrashes = 1
    MaxInFlight = 2
PROPERTIES
    Termination
    ComesToRest
