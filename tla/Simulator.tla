----------------------------- MODULE Simulator -----------------------------
(***************************************************************************)
(* The discrete-event simulator (src/simulator/mod.rs) with its clock and  *)
(* event queue: TwoPhaseCommit with the times put back.  What TwoPhaseCommit *)
(* leaves to chance is decided here by timestamps, and what the simulator  *)
(* observes and asserts is part of the state.                              *)
(*                                                                         *)
(* Variants are marked as in Coordinator.tla.                              *)
(***************************************************************************)
EXTENDS Coordinator, Participant, Observations, EventQueue

CONSTANTS
    Delays,             \* the values of the range delivery_delay, {0} if empty
    RetransmitTimeout   \* the coordinator's config.retransmit_timeout

ASSUME NodesAreNumbered == Nodes \subseteq Nat /\ IsFiniteSet(Nodes)
ASSUME DelaysAssumption ==
    Delays \subseteq Nat /\ \E longest \in Delays : \A d \in Delays : d <= longest
ASSUME RetransmitTimeoutAssumption == RetransmitTimeout \in Nat

VARIABLES
    coordinator, participants, status, started,   \* as in TwoPhaseCommit
    lastSend,       \* last_prepare_time or last_decision_time, 0 in other phases
    queue,          \* event_queue
    clock,
    observations,
    panicked        \* step has panicked

actorVars == <<coordinator, lastSend, participants, status, started>>
simulatorVars == <<actorVars, queue, clock, observations, panicked>>

-----------------------------------------------------------------------------
(* Events *)

StartEvent == [kind |-> "StartTransaction"]
TickAllEvent == [kind |-> "TickAll"]
TickEvent(a) == [kind |-> "Tick", actor |-> a]
CrashEvent(a) == [kind |-> "Crash", actor |-> a]
RecoverEvent(a) == [kind |-> "Recover", actor |-> a]
DeliverEvent(m) == [kind |-> "Deliver", message |-> m]

ExternalEvent ==
    {StartEvent, TickAllEvent}
    \cup [kind : {"Tick", "Crash", "Recover"}, actor : ActorId]

Event == ExternalEvent \cup [kind : {"Deliver"}, message : Message]

TypeOK ==
    /\ coordinator \in CoordinatorState
    /\ participants \in [Nodes -> ParticipantState]
    /\ status \in [ActorId -> {"Operating", "Crashed"}]
    /\ started \in BOOLEAN
    /\ lastSend \in Nat
    /\ queue \in QueueOf(Event)
    /\ IsFiniteSet(queue.entries)
    /\ clock \in Nat
    /\ observations \in ObservationsState
    /\ panicked \in BOOLEAN

Init ==
    /\ coordinator = NewCoordinator
    /\ participants = [n \in Nodes |-> NewParticipant]
    /\ status = [a \in ActorId |-> "Operating"]
    /\ started = FALSE
    /\ lastSend = 0
    /\ queue = NewQueue
    /\ clock = 0
    /\ observations = NewObservations
    /\ panicked = FALSE

-----------------------------------------------------------------------------
(* Time *)

\* Variant: the plain difference.
PlainSub(a, b) == a - b

\* Variant: the difference of unsigned numbers, which wraps around (as u64 does
\* in a release build, at a smaller width).
WrappingSub(a, b) == (a - b) % (2 ^ 16)

SaturatingSub(a, b) == IF a >= b THEN a - b ELSE 0

\* The test for a retransmission at time `now'.
Elapsed(now) == SaturatingSub(now, lastSend) >= RetransmitTimeout

\* The time of the last send after a handler has made c of the coordinator: a
\* phase starts with a broadcast, and the tick of every handler retransmits
\* when the timeout has elapsed.
SendTime(now, c) ==
    IF c.phase \notin {"Voting", "AwaitingAcks"} THEN 0
    ELSE IF c.phase # coordinator.phase \/ Elapsed(now) THEN now
    ELSE lastSend

-----------------------------------------------------------------------------
(* Sending and observing *)

\* The order of a handler's messages: the Prepares of its tick come before the
\* decisions that follow, and both go to the nodes in the order of their ids.
SentBefore(k, m) ==
    \/ k.type = "Prepare" /\ m.type # "Prepare"
    \/ k.type = m.type /\ k.to < m.to

Position(m, sent) == Cardinality({k \in sent \ {m} : SentBefore(k, m)})

\* What becomes of message m of `sent': one entry, numbered by its position.
Departure(q, m, sent, now, delay) ==
    Entry(now + 1 + delay[m], q.next + Position(m, sent), DeliverEvent(m))

EnqueueOutgoing(q, sent, now, delay) ==
    [entries |-> q.entries \cup {Departure(q, m, sent, now, delay) : m \in sent},
     next    |-> q.next + Cardinality(sent)]

\* The end of a step that took e, delivered a message or not, and called a
\* handler that returned `sent'.
Conclude(e, delivered, sent) ==
    /\ \E delay \in [sent -> Delays] :
          queue' = EnqueueOutgoing(Remove(queue, e), sent, e.timestamp, delay)
    /\ observations' = RecordSent(RecordDelivered(observations, delivered), sent)
    /\ panicked' = StepPanics(observations, delivered, sent)

CoordinatorReturns(e, delivered, outcomes) ==
    /\ \E o \in outcomes :
        /\ coordinator' = o.state
        /\ lastSend' = SendTime(e.timestamp, o.state)
        /\ Conclude(e, delivered, o.sent)
    /\ UNCHANGED <<participants, status>>

ParticipantReturns(e, n, delivered, outcomes) ==
    /\ \E o \in outcomes :
        /\ participants' = [participants EXCEPT ![n] = o.state]
        /\ Conclude(e, delivered, o.sent)
    /\ UNCHANGED <<coordinator, lastSend, status, started>>

-----------------------------------------------------------------------------
(* step: one event, at its time *)

IsOperating(a) == status[a] = "Operating"

StartTransaction(e) ==
    /\ e.event = StartEvent
    /\ started' = TRUE
    /\ CoordinatorReturns(e, {},
          CoordinatorOnMessage(coordinator, StartMessage, Elapsed(e.timestamp)))

Tick(e) ==
    /\ e.event \in {TickAllEvent, TickEvent(CoordinatorId)}
    /\ IsOperating(CoordinatorId)
    /\ CoordinatorReturns(e, {}, CoordinatorTick(coordinator, Elapsed(e.timestamp)))
    /\ UNCHANGED started

\* The ticks of participants and of a crashed coordinator.
TickInVain(e) ==
    /\ \/ e.event \in {TickEvent(n) : n \in Nodes}
       \/ e.event \in {TickAllEvent, TickEvent(CoordinatorId)} /\ ~IsOperating(CoordinatorId)
    /\ Conclude(e, {}, {})
    /\ UNCHANGED actorVars

DeliverToCoordinator(e, m) ==
    /\ e.event = DeliverEvent(m)
    /\ m.to = CoordinatorId
    /\ IsOperating(CoordinatorId)
    /\ CoordinatorReturns(e, {m},
          CoordinatorOnMessage(coordinator, m, Elapsed(e.timestamp)))
    /\ UNCHANGED started

DeliverToParticipant(e, m) ==
    /\ e.event = DeliverEvent(m)
    /\ m.to \in Nodes
    /\ IsOperating(m.to)
    /\ ParticipantReturns(e, m.to, {m}, ParticipantOnMessage(participants[m.to], m.to, m))

\* Dropped before anything is observed or checked.
Drop(e, m) ==
    /\ e.event = DeliverEvent(m)
    /\ ~IsOperating(m.to)
    /\ queue' = Remove(queue, e)
    /\ UNCHANGED <<actorVars, observations, panicked>>

Crash(e, a) ==
    /\ e.event = CrashEvent(a)
    /\ status' = [status EXCEPT ![a] = "Crashed"]
    /\ Conclude(e, {}, {})
    /\ UNCHANGED <<coordinator, lastSend, participants, started>>

\* The timestamp recover leaves behind, backdated so that the timeout has
\* elapsed at once, where the clock is late enough for that.
RecoverySendTime(now, c) ==
    IF c.phase = "Voting" THEN SaturatingSub(now, RetransmitTimeout) ELSE 0

\* Variant: does not ask whether it was down.
RecoverCoordinatorAlways(e) ==
    /\ e.event = RecoverEvent(CoordinatorId)
    /\ status' = [status EXCEPT ![CoordinatorId] = "Operating"]
    /\ coordinator' = CoordinatorRecover(coordinator)
    /\ lastSend' = RecoverySendTime(e.timestamp, CoordinatorRecover(coordinator))
    /\ Conclude(e, {}, {})
    /\ UNCHANGED <<participants, started>>

RecoverCoordinator(e) ==
    /\ e.event = RecoverEvent(CoordinatorId)
    /\ ~IsOperating(CoordinatorId)
    /\ status' = [status EXCEPT ![CoordinatorId] = "Operating"]
    /\ coordinator' = CoordinatorRecover(coordinator)
    /\ lastSend' = RecoverySendTime(e.timestamp, CoordinatorRecover(coordinator))
    /\ Conclude(e, {}, {})
    /\ UNCHANGED <<participants, started>>

RecoverParticipant(e, n) ==
    /\ e.event = RecoverEvent(n)
    /\ ~IsOperating(n)
    /\ status' = [status EXCEPT ![n] = "Operating"]
    /\ participants' = [participants EXCEPT ![n] = ParticipantRecover(@)]
    /\ Conclude(e, {}, {})
    /\ UNCHANGED <<coordinator, lastSend, started>>

RecoverInVain(e, a) ==
    /\ e.event = RecoverEvent(a)
    /\ IsOperating(a)
    /\ Conclude(e, {}, {})
    /\ UNCHANGED actorVars

Process(e) ==
    \/ StartTransaction(e)
    \/ Tick(e)
    \/ TickInVain(e)
    \/ \E m \in Message :
          DeliverToCoordinator(e, m) \/ DeliverToParticipant(e, m) \/ Drop(e, m)
    \/ \E a \in ActorId : Crash(e, a) \/ RecoverInVain(e, a)
    \/ RecoverCoordinator(e)
    \/ \E n \in Nodes : RecoverParticipant(e, n)

\* Simulator::step on a queue that is not empty; after a panic there is none.
Step ==
    /\ ~panicked
    /\ \E e \in queue.entries :
        /\ IsEarliest(queue, e)
        /\ clock' = e.timestamp
        /\ Process(e)

-----------------------------------------------------------------------------
(* The other ways into the queue *)

StartEnqueued ==
    started \/ \E e \in queue.entries : e.event = StartEvent

\* enqueue_external.  StartTransaction "happens exactly once" (event.rs).
EnqueueExternal(event, at_time) ==
    /\ ~panicked
    /\ event = StartEvent => ~StartEnqueued
    /\ queue' = Insert(queue, at_time, event)
    /\ UNCHANGED <<actorVars, clock, observations, panicked>>

\* The probe that drain puts into an empty queue, one unit of time later.
InjectProbe ==
    /\ ~panicked
    /\ IsEmpty(queue)
    /\ clock' = clock + 1
    /\ queue' = Insert(queue, clock + 1, TickAllEvent)
    /\ UNCHANGED <<actorVars, observations, panicked>>

Next ==
    \/ Step
    \/ InjectProbe
    \/ \E event \in ExternalEvent, at_time \in Nat : EnqueueExternal(event, at_time)

Spec == Init /\ [][Next]_simulatorVars

\* is_quiescent
IsQuiescent ==
    /\ IsEmpty(queue)
    /\ IsOperating(CoordinatorId) => CoordinatorIsQuiescent(coordinator)
    /\ \A n \in Nodes : IsOperating(n) => ParticipantIsQuiescent(participants[n])

-----------------------------------------------------------------------------
(* Properties *)

\* No assertion of record_* and no check of check_all_invariants ever fails:
\* what is seen on the wire stays consistent through crashes, recoveries,
\* retransmissions and any delays.
NeverPanics == ~panicked

\* The observations are the durable state, at every step: nothing is said
\* before it is durable, and a vote or decision is on the wire, and learned, at
\* the step that makes it so.  The checks thus lose nothing by not looking at
\* the actors, which recovery may have reset.
ObservationsMatchDurableState ==
    /\ \A n \in Nodes :
        /\ observations.votes[n] = participants[n].durableVote
        /\ observations.participantDecisions[n] = participants[n].durableDecision
    /\ Nodes # {} => observations.coordinatorDecision = coordinator.durable

\* AC2 on the wire, in full: check_validity would accept a commit sent before
\* some node was heard to vote, and no execution needs that tolerance.
CommitIsObservedUnanimous ==
    observations.coordinatorDecision = "Commit"
        => \A n \in Nodes : observations.votes[n] = "Commit"

\* "Actors only retransmit on tick if at least retransmit_timeout time has elapsed
\* since the last send": what a coordinator sends in a phase whose messages it
\* has sent before, on a tick or on the tick inside a message, it does not send
\* earlier than that, also when a caller has set the clock back behind the last
\* send.
RetransmitsOnlyWhenDue ==
    [][\A e \in queue'.entries \ queue.entries, n \in Nodes :
          \/ coordinator.phase = "Voting" /\ e.event = DeliverEvent(PrepareMessage(n))
          \/ /\ coordinator.phase = "AwaitingAcks"
             /\ \E d \in {"Commit", "Abort"} : e.event = DeliverEvent(DecisionMessage(n, d))
          => lastSend + RetransmitTimeout <= clock'
      ]_simulatorVars

\* Each message in transit, with the number of its copies in the queue.
CopiesOf(m, entries) == {e \in entries : e.event = DeliverEvent(m)}
NetworkOf(entries) == [m \in Message |-> Cardinality(CopiesOf(m, entries))]
Network == NetworkOf(queue.entries)

\* The module with the theorems about TwoPhaseCommit, which hold here too.
TPC == INSTANCE TwoPhaseCommitProofs WITH network <- Network

\* Clock, delays, timeouts and queue only choose among the behaviours of
\* TwoPhaseCommit, so that its safety properties hold of the simulator.
ImplementsTwoPhaseCommit == TPC!Spec

-----------------------------------------------------------------------------
(* Documented, and not so *)

\* "The very next tick triggers an immediate retransmission (the elapsed time
\* equals the timeout)": whenever the coordinator recovers into Voting.
RecoveredIsDue ==
    [][/\ status[CoordinatorId] = "Crashed"
       /\ status'[CoordinatorId] = "Operating"
       /\ coordinator'.phase = "Voting"
       => clock' - lastSend' >= RetransmitTimeout
      ]_simulatorVars
=============================================================================
