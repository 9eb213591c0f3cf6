\* Two participants, any two crashes, retransmission while a message is out.
SPECIFICATION MCSpec
CONSTANTS
    n1 = n1
    n2 = n2
    Nodes = {n1, n2}
    CoordinatorId = CoordinatorId
    AbortBias = "sometimes"
    VoteAbortBias = "sometimes"
    MaxCrashes = 2
    MaxInFlight = 2
SYMMETRY NodeSymmetry
INVARIANTS
    TypeOK
    Agreement
    CommitNeedsUnanimity
    VotesNeverConflict
    DecisionsNeverConflict
    PhaseMatchesDurable
    CrashLosesNoVote
    AckMeansDecided
    AwaitsSomeone
    QuiescentMeansDecided
PROPERTIES
    DurableIsFinal
    ImplementsAtomicCommit
