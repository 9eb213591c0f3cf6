-------------------------- MODULE MCTwoPhaseCommit --------------------------
(***************************************************************************)
(* Finite instances of TwoPhaseCommit.  Two things are unbounded there and *)
(* bounded here: how often actors crash, and how far retransmission may    *)
(* run ahead of the network.                                               *)
(***************************************************************************)
EXTENDS TwoPhaseCommit, FiniteSetsExt, TLC

CONSTANTS
    MaxCrashes,   \* crashes in a behaviour, of all actors together
    MaxInFlight   \* messages of one node in transit when a timeout may fire

ASSUME BoundsAssumption == MaxCrashes \in Nat /\ MaxInFlight \in Nat \ {0}

VARIABLE crashes  \* crashes so far

mcVars == <<vars, crashes>>

MCInit == Init /\ crashes = 0

\* Copies in transit of all messages to and from node n.
InFlight(net, n) ==
    MapThenSumSet(LAMBDA m : net[m], {m \in Message : n \in {m.from, m.to}})

\* A coordinator that sends and keeps its phase retransmits, and may do so
\* only up to the bound.  Nothing else is held back, so no delivery, answer or
\* first broadcast ever waits for the bound, and as a node does not send more
\* messages than it gets the network stays finite.
RetransmissionBounded ==
    coordinator'.phase = coordinator.phase =>
        \A m \in Message :
            m.from = CoordinatorId /\ network'[m] > network[m]
                => InFlight(network', m.to) <= MaxInFlight

Bounded(A) == A /\ RetransmissionBounded /\ UNCHANGED crashes

MCCrash(a) ==
    /\ crashes < MaxCrashes
    /\ crashes' = crashes + 1
    /\ Crash(a)

MCNext == Bounded(Progress) \/ \E a \in ActorId : MCCrash(a)

MCSpec == MCInit /\ [][MCNext]_mcVars

\* A tick with the timeout elapsed on which the coin does not abort.  Fairness
\* of Tick(TRUE) as a whole would force an abort wherever it is the only effect
\* a tick can have.
TimeoutTick ==
    /\ Tick(TRUE)
    /\ coordinator.phase = "Voting" => coordinator'.phase = "Voting"

\* Crashes happen at most MaxCrashes times, everything else keeps happening:
\* the queue hands out every event in it, ticks go on until the timeout has
\* elapsed, and crashed actors are recovered.
MCFairness ==
    /\ WF_mcVars(Bounded(StartTransaction))
    /\ WF_mcVars(Bounded(TimeoutTick))
    /\ \A m \in Message : WF_mcVars(Bounded(Deliver(m)))
    /\ WF_mcVars(Bounded(RecoverCoordinator))
    /\ \A n \in Nodes : WF_mcVars(Bounded(RecoverParticipant(n)))

MCFairSpec == MCSpec /\ MCFairness

NodeSymmetry == Permutations(Nodes)
=============================================================================
