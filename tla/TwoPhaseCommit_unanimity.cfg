\* A coordinator that never aborts on its own: the outcome follows the votes.
SPECIFICATION MCFairSpec
CONSTANTS
    n1 = n1
    n2 = n2
    Nodes = {n1, n2}
    CoordinatorId = CoordinatorId
    AbortBias = "never"
    VoteAbortBias = "sometimes"
    MaxCrashes = 1
    MaxInFlight = 2
INVARIANTS
    AbortNeedsAVote
PROPERTIES
    UnanimityLeadsToCommit
