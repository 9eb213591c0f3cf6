\* test_termination_with_crashes: everyone is recovered in the end, and
\* test_termination; delays shorter and longer than the timeout.
SPECIFICATION HarnessSpec
CONSTANTS
    Nodes = {0, 1}
    CoordinatorId = CoordinatorId
    AbortBias = "never"
    VoteAbortBias = "sometimes"
    Delays = {0, 6}
    RetransmitTimeout = 5
    MaxRounds = 60
    Length = 2
    MaxFaults = 2
    Sweep = TRUE
    Deltas = {0, 1, 2, 3, 4, 5, 6, 7, 8, 9, 10}
    Programs <- TerminationPrograms
INVARIANTS
    TestTerminates
PROPERTIES
    ScriptComesFirst
    DrainReportsQuiescence
    DrainedMeansDecided
