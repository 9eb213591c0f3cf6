\* A timeout longer than drain waits.
SPECIFICATION HarnessSpec
CONSTANTS
    Nodes = {0, 1}
    CoordinatorId = CoordinatorId
    AbortBias = "never"
    VoteAbortBias = "sometimes"
    Delays = {0, 1}
    RetransmitTimeout = 15
    MaxRounds = 60
    Length = 6
    MaxFaults = 1
    Sweep = FALSE
    Deltas = {}
    Programs <- OutagePrograms
PROPERTIES
    DrainReportsQuiescence
