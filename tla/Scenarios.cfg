\* The scenarios with three participants and no delay.
SPECIFICATION HarnessSpec
CONSTANTS
    Nodes = {0, 1, 2}
    CoordinatorId = CoordinatorId
    AbortBias = "never"
    VoteAbortBias = "sometimes"
    Delays = {0}
    RetransmitTimeout = 5
    MaxRounds = 50
    Programs <- All
INVARIANTS
    ScenarioCompletes
PROPERTIES
    CrashesHitTheirWindow
