\* The coordinator recovers before the clock has reached the timeout.
SPECIFICATION HarnessSpec
CONSTANTS
    Nodes = {0, 1}
    CoordinatorId = CoordinatorId
    AbortBias = "never"
    VoteAbortBias = "sometimes"
    Delays = {0, 1}
    RetransmitTimeout = 5
    MaxRounds = 60
    Length = 2
    MaxFaults = 1
    Sweep = TRUE
    Deltas = {}
    Programs <- TestPrograms
PROPERTIES
    RecoveredIsDue
