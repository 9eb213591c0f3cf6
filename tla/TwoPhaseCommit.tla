--------------------------- MODULE TwoPhaseCommit ---------------------------
(***************************************************************************)
(* The coordinator and the participants driven by an environment that may  *)
(* do whatever the simulator can be told to do (src/simulator/mod.rs):     *)
(* deliver any message in transit, in any order; tick the coordinator at   *)
(* any time; crash and recover any actor at any moment.                    *)
(*                                                                         *)
(* Clock values and the event queue are abstracted: a delay is arbitrary,  *)
(* and whether the retransmission timeout has elapsed is arbitrary at each *)
(* call.  Simulator runs are behaviours of this module with the times left *)
(* out.                                                                    *)
(***************************************************************************)
EXTENDS Coordinator, Participant, Naturals

VARIABLES
    coordinator,    \* Simulator.coordinator
    participants,   \* Simulator.participants
    status,         \* Simulator.actor_status
    network,        \* the Deliver events queued: copies of each message
    started         \* whether the StartTransaction event has been processed

vars == <<coordinator, participants, status, network, started>>

ActorStatus == {"Operating", "Crashed"}

TypeOK ==
    /\ coordinator \in CoordinatorState
    /\ participants \in [Nodes -> ParticipantState]
    /\ status \in [ActorId -> ActorStatus]
    /\ network \in [Message -> Nat]
    /\ started \in BOOLEAN

Init ==
    /\ coordinator = NewCoordinator
    /\ participants = [n \in Nodes |-> NewParticipant]
    /\ status = [a \in ActorId |-> "Operating"]
    /\ network = [m \in Message |-> 0]
    /\ started = FALSE

-----------------------------------------------------------------------------
(* Steps *)

IsOperating(a) == status[a] = "Operating"

InTransit(m) == network[m] > 0

Enqueue(net, sent) ==
    [m \in Message |-> IF m \in sent THEN net[m] + 1 ELSE net[m]]

Dequeue(net, m) == [net EXCEPT ![m] = @ - 1]

\* The coordinator takes one of the outcomes of a handler, and what it sent
\* joins the messages in transit.
CoordinatorTakes(outcomes, net) ==
    /\ \E o \in outcomes :
        /\ coordinator' = o.state
        /\ network' = Enqueue(net, o.sent)
    /\ UNCHANGED <<participants, status>>

ParticipantTakes(n, outcomes, net) ==
    /\ \E o \in outcomes :
        /\ participants' = [participants EXCEPT ![n] = o.state]
        /\ network' = Enqueue(net, o.sent)
    /\ UNCHANGED <<coordinator, status>>

-----------------------------------------------------------------------------
(* Events *)

\* The one StartTransaction event.  Unlike every other event it reaches the
\* coordinator whatever its status.
StartTransaction ==
    /\ ~started
    /\ started' = TRUE
    /\ \E elapsed \in BOOLEAN :
        CoordinatorTakes(CoordinatorOnMessage(coordinator, StartMessage, elapsed),
                         network)

\* Tick of the coordinator, alone or as part of TickAll: the participants'
\* ticks do nothing.
Tick(elapsed) ==
    /\ IsOperating(CoordinatorId)
    /\ CoordinatorTakes(CoordinatorTick(coordinator, elapsed), network)
    /\ UNCHANGED started

DeliverToCoordinator(m) ==
    /\ InTransit(m)
    /\ m.to = CoordinatorId
    /\ IsOperating(CoordinatorId)
    /\ \E elapsed \in BOOLEAN :
        CoordinatorTakes(CoordinatorOnMessage(coordinator, m, elapsed),
                         Dequeue(network, m))
    /\ UNCHANGED started

DeliverToParticipant(m) ==
    /\ InTransit(m)
    /\ m.to \in Nodes
    /\ IsOperating(m.to)
    /\ ParticipantTakes(m.to,
                        ParticipantOnMessage(participants[m.to], m.to, m),
                        Dequeue(network, m))
    /\ UNCHANGED started

\* Variant (see Coordinator): loses a message that was never sent.
DropUnsent(m) ==
    /\ ~IsOperating(m.to)
    /\ network' = Dequeue(network, m)
    /\ UNCHANGED <<coordinator, participants, status, started>>

\* A message that arrives at a crashed actor is lost.
Drop(m) ==
    /\ InTransit(m)
    /\ ~IsOperating(m.to)
    /\ network' = Dequeue(network, m)
    /\ UNCHANGED <<coordinator, participants, status, started>>

Deliver(m) == DeliverToCoordinator(m) \/ DeliverToParticipant(m) \/ Drop(m)

\* A crash leaves the actor's memory in place; it is recover that discards
\* what was not durable.
Crash(a) ==
    /\ IsOperating(a)
    /\ status' = [status EXCEPT ![a] = "Crashed"]
    /\ UNCHANGED <<coordinator, participants, network, started>>

RecoverCoordinator ==
    /\ ~IsOperating(CoordinatorId)
    /\ status' = [status EXCEPT ![CoordinatorId] = "Operating"]
    /\ coordinator' = CoordinatorRecover(coordinator)
    /\ UNCHANGED <<participants, network, started>>

RecoverParticipant(n) ==
    /\ ~IsOperating(n)
    /\ status' = [status EXCEPT ![n] = "Operating"]
    /\ participants' = [participants EXCEPT ![n] = ParticipantRecover(@)]
    /\ UNCHANGED <<coordinator, network, started>>

\* Everything but a crash.
Progress ==
    \/ StartTransaction
    \/ \E elapsed \in BOOLEAN : Tick(elapsed)
    \/ \E m \in Message : Deliver(m)
    \/ RecoverCoordinator
    \/ \E n \in Nodes : RecoverParticipant(n)

Next == Progress \/ \E a \in ActorId : Crash(a)

Spec == Init /\ [][Next]_vars

-----------------------------------------------------------------------------
(* Safety *)

\* AC1 (check_agreement): no two participants hold different decisions, also
\* when one of them learned it before a coordinator crash and the other from
\* a later broadcast.
Agreement ==
    \A m, n \in Nodes :
        /\ participants[m].decision # None
        /\ participants[n].decision # None
        => participants[m].decision = participants[n].decision

\* AC2 (check_validity, commit arm, and its stronger statement in README.md):
\* once Commit is durable, in transit or learned, every node has durably
\* voted Commit, although the votes behind it may have been collected in
\* several rounds and from messages older than the last recovery.
CommitNeedsUnanimity ==
    \/ coordinator.durable = "Commit"
    \/ \E n \in Nodes : \/ participants[n].decision = "Commit"
                        \/ InTransit(DecisionMessage(n, "Commit"))
    => \A n \in Nodes : participants[n].durableVote = "Commit"

\* The converse for a coordinator that never aborts on its own ("commits if
\* and only if every participant votes Commit"): a missing vote, a crash or a
\* second voting round is no reason to abort, only an Abort vote is.
AbortNeedsAVote ==
    AbortBias = "never" /\ coordinator.durable = "Abort"
        => \E n \in Nodes : participants[n].durableVote = "Abort"

\* The assertion of record_vote: whatever a node is heard to vote, in a
\* message of any age or in the coordinator's tally, is the vote it made
\* durable.
VotesNeverConflict ==
    \A n \in Nodes :
        /\ coordinator.votes[n] \in {None, participants[n].durableVote}
        /\ \A v \in Vote :
              InTransit(VoteMessage(n, v)) => participants[n].durableVote = v

\* The assertions of record_coordinator_decision and
\* record_participant_decision: a decision is durable at the coordinator
\* before anyone can hear of it, and everyone hears that one.
DecisionsNeverConflict ==
    \A n \in Nodes, d \in Decision :
        \/ InTransit(DecisionMessage(n, d))
        \/ participants[n].decision = d
        => coordinator.durable = d

\* A coordinator that crashed around its broadcast never reopens the vote: the
\* decision it works on is the durable one, there is none in Waiting and Voting
\* and there is one in every later phase.
PhaseMatchesDurable ==
    /\ coordinator.decision = coordinator.durable
    /\ coordinator.durable = None <=> coordinator.phase \in {"Waiting", "Voting"}

\* Recovering a participant at any moment would restore exactly the state it
\* is in: a crash loses it messages and nothing else.
CrashLosesNoVote ==
    \A n \in Nodes : ParticipantRecover(participants[n]) = participants[n]

\* An Ack, even one sent for a broadcast before the last crash, stands for a
\* durable decision, so Done means that everyone has decided.
AckMeansDecided ==
    \A n \in Nodes :
        \/ InTransit(AckMessage(n))
        \/ n \in coordinator.acks
        \/ coordinator.phase = "Done"
        => participants[n].durableDecision # None

\* The coordinator decides and finishes only when it hears something, so it must
\* never be left waiting with nothing to hear: a vote is missing whenever it is
\* Voting and an Ack whenever it is AwaitingAcks, also after a vote counted
\* twice, an early decision or a recovery.
AwaitsSomeone ==
    Nodes # {} =>
        /\ coordinator.phase = "Voting" => \E n \in Nodes : coordinator.votes[n] = None
        /\ coordinator.phase = "AwaitingAcks" => coordinator.acks # Nodes

\* Simulator.is_quiescent: nothing queued, every operating actor quiescent.
IsQuiescent ==
    /\ \A m \in Message : ~InTransit(m)
    /\ IsOperating(CoordinatorId) => CoordinatorIsQuiescent(coordinator)
    /\ \A n \in Nodes :
          IsOperating(n) => ParticipantIsQuiescent(participants[n])

\* Quiescence is termination once all actors are up: the test suite's drain
\* may stop on is_quiescent and then assert all_decided.
QuiescentMeansDecided ==
    /\ IsQuiescent
    /\ started
    /\ \A a \in ActorId : IsOperating(a)
    => \A n \in Nodes : participants[n].decision # None

\* What an actor has made durable it never takes back or replaces, across any
\* number of crashes, recoveries and repeated messages.
DurableIsFinal ==
    [][/\ coordinator.durable # None => coordinator'.durable = coordinator.durable
       /\ \A n \in Nodes :
            /\ participants[n].durableVote # None =>
                 participants'[n].durableVote = participants[n].durableVote
            /\ participants[n].durableDecision # None =>
                 participants'[n].durableDecision = participants[n].durableDecision
      ]_vars

-----------------------------------------------------------------------------
(* Refinement *)

\* The protocol implements AtomicCommit with what is durable: no crash,
\* repeated message or second voting round shows.
AC == INSTANCE AtomicCommit WITH
        votes     <- [n \in Nodes |-> participants[n].durableVote],
        outcome   <- coordinator.durable,
        decisions <- [n \in Nodes |-> participants[n].durableDecision]

ImplementsAtomicCommit == AC!Spec

-----------------------------------------------------------------------------
(* Liveness, for behaviours in which the crashes stop *)

\* test_termination_with_crashes: every participant decides.
Termination == <>(\A n \in Nodes : participants[n].decision # None)

\* The protocol also comes to rest: the coordinator learns that everyone has
\* decided and stops retransmitting, and nothing stays in transit.
ComesToRest == <>[](coordinator.phase = "Done" /\ IsQuiescent)

\* "With abort_bias = 0.0 the coordinator ... commits if and only if every
\* participant votes Commit": unanimous durable votes lead to Commit
\* everywhere, however often the vote has to be collected again.
UnanimityLeadsToCommit ==
    (\A n \in Nodes : participants[n].durableVote = "Commit")
        ~> (\A n \in Nodes : participants[n].decision = "Commit")

-----------------------------------------------------------------------------
(* Documented, and not so *)

\* "The actor is non-operational until recovered" (ExternalEvent::Crash): no
\* step that leaves the coordinator crashed changes it.
CrashedCoordinatorIsStill ==
    [][status[CoordinatorId] = "Crashed" /\ status'[CoordinatorId] = "Crashed"
        => UNCHANGED coordinator]_vars

\* "A crash drops all in-flight messages to/from the node" (the design decisions
\* of .specs/2pc-crash-recovery/spec.md): of the two, those from the node are
\* not even in danger, unless their receiver is down as well.
CrashDropsInFlight ==
    [][\A a \in ActorId :
          status[a] = "Operating" /\ status'[a] = "Crashed" =>
              \A m \in Message : m.from = a => network'[m] = 0]_vars
=============================================================================
