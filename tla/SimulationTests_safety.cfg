\* test_safety_with_crashes: some actors may stay crashed; and late events.
SPECIFICATION HarnessSpec
CONSTANTS
    Nodes = {0, 1}
    CoordinatorId = CoordinatorId
    AbortBias = "sometimes"
    VoteAbortBias = "sometimes"
    Delays = {0, 2}
    RetransmitTimeout = 5
    MaxRounds = 30
    Length = 3
    MaxFaults = 2
    Sweep = FALSE
    Deltas = {}
    Programs <- SafetyPrograms
INVARIANTS
    TypeOK
    ControlTypeOK
    NeverPanics
    ObservationsMatchDurableState
    CommitIsObservedUnanimous
    RunEndsSoon
    ProbesAreAnswered
PROPERTIES
    ImplementsTwoPhaseCommit
    OnlyCallersTurnBackTime
    RetransmitsOnlyWhenDue
    DrainTrueExplained
    DrainFalseExplained
