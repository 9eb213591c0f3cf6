# A verification of the two-phase-commit simulation

This directory models the Rust program of this repository (`src/src/`, referred to below
as `coordinator/mod.rs` and so on): a two-phase-commit coordinator and its participants, written
as state machines with durable state, and the discrete-event simulator that delivers their
messages and crashes and recovers them. The specification in the repository's own `tla/` directory
describes the protocol without failures; the modules here are translated from the code, where
crashes, recoveries and retransmissions are most of what can go wrong.

## Inventory

### Components

| Component | State | Operations | Correct when |
|---|---|---|---|
| Coordinator (`coordinator/mod.rs`) | phase (`Waiting`, `Voting` with tally and time of the last Prepare, `Decided`, `AwaitingAcks` with acks and time of the last broadcast, `Done`); durable: decision | `on_message` (starts with a `tick`), `tick`, `recover`, `is_quiescent` | it decides once, commits only on a full tally of Commits, never reopens the vote after a decision is durable, reaches `Done` only when everyone has decided |
| Participant (`participant/mod.rs`) | phase (`Waiting`, `Voted`, `Decided`); durable: vote, decision | `on_message`, `tick` (no-op), `recover`, `is_quiescent` | it votes once and repeats that vote when asked again, takes one decision, answers every repeated decision |
| Types, `StateMachine` trait (`types.rs`, `state_machine.rs`) | none | message constructors, handler signature | - |
| Simulator (`simulator/mod.rs`) | the actors, their status (operating or crashed), event queue, clock, observations, log | `enqueue_external`, `step`, `run`, `drain`, `is_quiescent`, `all_decided` | messages reach operating actors once each and are dropped at crashed ones; crashed actors do nothing; quiescence is termination |
| Event queue (`simulator/event.rs`) | heap of events, next sequence number | `insert`, `next`, `is_empty` | events leave in order of (timestamp, insertion) |
| Observations (`simulator/properties.rs`) | votes sent, decision sent, decisions delivered | `record_sent`, `record_delivered`, `check_all_invariants`, `all_decided` | an execution that violates AC1 or AC2 is reported |
| Action log, examples, visualization | append-only record | formatting | - |

### How they interact

Actors share nothing and call nobody: a handler returns the messages to send and the simulator
puts them in the queue, each with a random delay. `Simulator::step` takes the next event, drops it
if it is a message to a crashed actor, calls one handler and enqueues what it returned. External
events (start, tick, crash, recover) are put in the queue by the caller. A handler is atomic: a
crash falls between events, so the sequence "write durable state, return the messages" is never
interrupted, but a crash may come before any of those messages is delivered.

### What is hard

* **Crash and recovery at any moment.** The coordinator forgets its tally and its acks; votes and
  acks that were sent before the crash arrive after it and are counted in the new round.
* **Reordering.** Delays are independent per message, so a decision can overtake the Prepare of the
  same node, and repeated Prepares and decisions can arrive long after the phase they belong to.
* **Loss.** Messages to crashed actors are gone; the coordinator's timeout is the only retry.
* **A tick inside every message.** The coordinator's `on_message` first ticks, so the message is
  handled in whatever phase a retransmission, spontaneous abort or pending broadcast has left.
* **Two ways to abort.** Spontaneously on any tick while voting, or by the coin after a unanimous vote.

* **A clock that callers can turn back.** `step` sets the clock to the time of the event it processes,
  which for an external event is whatever the caller said.
* **Quiescence by patience.** `drain` stops after twelve probes without an answer. Whether that is
  quiescence depends on the timeout, on the clock, and on who is still crashed.
* **Checks that look only at the wire.** `Observations` sees messages, not actors, keeps the first of
  each kind and compares the rest with it, and is not called for messages that are dropped.

PROJECT.json lists these as hazards, each at its line and with the properties aimed at it.

## Modules

| Module | Models |
|---|---|
| `Types.tla` | `types.rs`; messages; the shape of a handler (`Outcome`); coin flips (`RandomBool`) |
| `Coordinator.tla` | `coordinator/mod.rs`: one operator per handler or branch of it, from the coordinator's state to the set of its outcomes |
| `Participant.tla` | `participant/mod.rs`, likewise |
| `AtomicCommit.tla` | abstract specification: votes, one outcome, everyone learns it; no messages, no crashes |
| `TwoPhaseCommit.tla` | the actors composed by `Simulator::step`, without time: any order, any delay, any timeout |
| `EventQueue.tla` | `simulator/event.rs`: the heap as a set of numbered entries |
| `StableQueue.tla` | abstract specification of the queue: one first-come lane per time |
| `Observations.tla` | `simulator/properties.rs`: recording, assertions, checks |
| `Observer.tla` | those checks against arbitrary traffic, with the true history kept beside them |
| `Simulator.tla` | `Simulator` as it is: queue, clock, delays, retransmission timestamps, observations |
| `Drain.tla` | `Simulator::run` and `Simulator::drain`, loop pass by loop pass |
| `Harness.tla` | a program that calls `enqueue_external`, `run` and `drain` |
| `SimulationTests.tla` | the programs that the strategies of `tests/simulation.rs` generate |
| `Scenarios.tla` | the scripts of `examples/scenarios/mod.rs` |
| `MC*.tla` | bounds, fairness, symmetry and the state machine around the queue, for TLC |
| `*Proofs.tla` | theorems, see Proofs |

There are three layers, each shown to implement the one above it:

    AtomicCommit  <-  TwoPhaseCommit  <-  Simulator  <-  Harness (any program)

### TwoPhaseCommit: the protocol without time

**State.** `coordinator` and `participants` are records with the phase, the payload of the phase
(the empty value where a Rust variant has none) and the durable fields. `status` is
`Simulator.actor_status`. `network` is the multiset of `Deliver` events in the queue: a function
from messages to the number of copies. `started` says that the one `StartTransaction` event has
been processed (`event.rs:20`, "exactly once").

**Actions.** `StartTransaction`, `Tick`, `DeliverToCoordinator`, `DeliverToParticipant`, `Drop`,
`Crash`, `RecoverCoordinator` and `RecoverParticipant` are the arms of `Simulator::step`. Each calls
the handler's operator and puts what it sent into `network`, as `step` does. `TickAll` is a tick
of the coordinator, since a participant's tick is empty. Crashing a crashed actor and recovering an
operating one change nothing and are stuttering steps.

**Abstractions.**

* *Time.* The test `at_time.saturating_sub(last) >= retransmit_timeout` is a free choice `elapsed` at
  every call. `Simulator` makes the choice as the code does.
* *Order of delivery.* Any message may be taken from `network`.
* *Chance.* A bias matters only as 0, as 1, or in between (`Bias`). The spontaneous abort has
  probability `abort_bias / 10`, which is never certain.
* *Payload.* `Message` has sender, receiver and type, as in the code. The vector a handler returns is
  a set: no handler returns the same message twice.
* *Coordinator and node ids* are model values. Messages of the kinds no actor sends (a vote from the
  coordinator, say) do not exist, so the arms that ignore them are not reached.

### Simulator, Drain and Harness: the program as it runs

`Simulator` adds what `TwoPhaseCommit` leaves out. `queue` is the event queue, with the sequence
numbers of the code, so the order of events of one time is the code's and not a choice: `Position`
gives each message the place its handler puts it at. `lastSend` is the timestamp of the phase
(`last_prepare_time` or `last_decision_time`). `clock` is set by each step to the time of the event.
`observations` and `panicked` are recorded and checked in each step as in the code, after the
handler and not at all for a dropped message. A panic ends everything. Nodes are numbered, because
the handlers broadcast in that order. A delay is any member of `Delays`, for each message by itself.

`Drain` puts a program counter (`at`) around it. A pass of `drain`'s loop is one action up to the
return of `step`; a pass that probes is three (`BeginProbe`, `ProcessProbe`, then `ProbeAnswered` or
`ProbeUnanswered`), because the code calls `step` twice in it. `Harness` gives the caller a program,
a sequence of calls, chosen initially from the constant `Programs`. A run of `HarnessSpec` is
then one execution of a test or scenario for some outcome of the random generator. Its variable
`late` is history and not code: an event has been enqueued for a time before the clock's.

Timestamps are natural numbers. The code adds `1 + delay` to a `u64` without a check; only an event
enqueued near the end of that range could make it overflow, which is left out.

### Observer

`Observer` takes the actors away: any message may be sent at any time, and what was sent may arrive
any number of times. `wire` and `arrived` remember the history, so that what the checks say can be
compared with what happened. Within the simulator the checks cannot fail (a theorem), so only here
can one see whether they would notice anything.

A definition marked `Variant` is not the code. It is a plausible mistake in the definition after
it, kept to show that the properties notice the mistake (`mutants` in PROJECT.json).

## Properties

Of the protocol (`TwoPhaseCommit.tla`):

* `Agreement` and `CommitNeedsUnanimity` are AC1 and AC2 of the README, the latter in its full
  strength: where a Commit decision is durable, in transit or learned, *every* node has a durable
  Commit vote. (`check_validity` compares only the votes observed so far.)
* `AbortNeedsAVote` is the other direction for a coordinator without abort bias.
* `VotesNeverConflict` and `DecisionsNeverConflict` are the assertions in `record_vote`,
  `record_coordinator_decision` and `record_participant_decision`, about everything in transit or held
  in memory, not only what has been observed.
* `PhaseMatchesDurable` and `CrashLosesNoVote`: what an actor works with is what it would recover.
* `AckMeansDecided` and `QuiescentMeansDecided`: an Ack of any age, `Done`, and quiescence stand for
  decisions made.
* `DurableIsFinal` (an action property): no step takes back or replaces what is durable.
* `AwaitsSomeone`: the coordinator decides and finishes only when it hears something, so while it is
  `Voting` a vote is missing, and while it is `AwaitingAcks` an Ack.
* `ImplementsAtomicCommit`: the durable fields behave as `AtomicCommit` says.

* Liveness: `Termination`, `ComesToRest` (the coordinator reaches `Done` and nothing stays in transit)
  and `UnanimityLeadsToCommit` (unanimous durable votes lead to Commit everywhere, with
  `abort_bias = 0`).

Of the simulator (`Simulator.tla`):

* `NeverPanics`: no assertion and no check fails, in any execution.
* `ObservationsMatchDurableState`: what was seen on the wire is, after every step, what is durable.
  Nothing is said before it is durable, and nothing becomes durable silently. This is why checking the
  wire is as good as checking the actors.
* `CommitIsObservedUnanimous`: AC2 on the wire in full, where `check_validity` would accept a commit
  with votes missing.
* `ImplementsTwoPhaseCommit`: clock, queue and timeouts only choose among the behaviours of
  `TwoPhaseCommit`, so that all its safety properties hold here.
* `RetransmitsOnlyWhenDue`: what the coordinator has sent in a phase it does not send again in that
  phase before the timeout has passed, whatever makes it tick, and also when a late event has set the
  clock back behind the last send. A difference of timestamps that wraps around would repeat it at
  once.

Of programs (`Harness.tla`, `SimulationTests.tla`, `Scenarios.tla`):

* `DrainReportsQuiescence`: `drain` returns true only in a quiescent system, if everyone is recovered.
* `DrainedMeansDecided`: what the termination tests take `drain`'s true for. Everyone has decided what
  the coordinator did and was seen to, and the coordinator is `Done`.
* `TestTerminates`: at the end of such a test the transaction was started and `drain` has returned true;
  that is, its rounds were enough. The two properties before it say what follows. `RoundsNeeded` in
  `RoundsProofs.tla` says how many are.
* `DrainTrueExplained` and `DrainFalseExplained`: what `drain`'s result means for a program that may
  leave actors crashed and enqueue events late. True may also stand for a crashed coordinator. It may
  stand for one that awaits an answer before its timeout only if an event was enqueued late (`late`), or
  if the timeout is longer than the twelve probes last. False is always a coordinator that keeps
  retransmitting to a crashed participant.
* `ProbesAreAnswered`: twelve probes are enough. While a coordinator that is up awaits someone, fewer
  probes in a row go unanswered than its timeout has units, if nothing was enqueued late.
* `RunEndsSoon`: the queue empties within a bounded time after the last external event, eleven trips of
  at most `1 + Max(Delays)` each. Two are for an answer to what was sent before, four for the votes
  (a vote is recorded after the tick that asks for it, so the last one sets off another Prepare),
  four for the Acks of a decision, and one for a decision repeated to an actor that is down.
* `ScriptComesFirst`, `CrashesHitTheirWindow`: an external event of a time precedes the messages of that
  time, so each crash in a scenario happens in the window that the scenario is named after.
* `OnlyCallersTurnBackTime`: no delivery sets the clock back.
* `ScenarioCompletes`: "runs the protocol to quiescence", with the outcome the votes ask for.

Of the queue and the checks:

* `NextIsDetermined` and `ImplementsStableQueue` (`MCEventQueue.tla`): one event can be next, and it is the first of its time.
* `NoFalsePass` and `NoFalseAlarm`: the checks fail exactly on the histories in which someone voted
  twice, two decisions were sent, or a commit was sent against an Abort vote.

## Runs

| Run | Instance | Shows |
|---|---|---|
| `safety` | 2 nodes, 2 crashes, `MaxInFlight` 2, symmetry | all safety properties of the protocol and its refinement of `AtomicCommit`, with every pair of crashes |
| `liveness` | 2 nodes, 1 crash, `MaxInFlight` 2, no symmetry | `Termination`, `ComesToRest` |
| `unanimity` | as `liveness`, `AbortBias = "never"` | `AbortNeedsAVote`, `UnanimityLeadsToCommit` |
| `queue` | 2 events, 3 times, 5 inserts | the queue's determinism and its refinement of `StableQueue` |
| `audit` | 2 nodes, all messages | exactness of the checks |
| `sim_safety` | 2 nodes, delays 0 or 2, 3 actions, 2 of them faults | the simulator's properties where actors may stay crashed and callers may be late, the timing of retransmissions and probes among them |
| `sim_termination` | 2 nodes, delays 0 or 6, 2 actions and the recovery sweep; and ticks only, 0 to 10 apart | that `drain`'s rounds suffice, the truth of its result and the order of script and deliveries, with a timeout of 5 between the delays |
| `scenarios` | 3 nodes, no delay, every vote | the scripts of the examples |
| `crashed_start`, `crash_drops`, `sim_recovery`, `sim_impatient` | | violations, see Findings |

**Bounds of the protocol runs.** `MaxCrashes` bounds the crashes in a behaviour. Two suffice for the
interesting pairs: the coordinator twice (three voting rounds, or two broadcasts of a recovered
decision), the coordinator and a participant, both participants. `MaxInFlight` bounds retransmission:
a timeout may fire only if afterwards no node it sends to has more than that many messages in transit
to or from it. Only retransmission is bounded. First broadcasts, the broadcasts after a recovery and
the answers to what is delivered are always allowed, so a recovered coordinator can have more copies
in transit than the bound says, and the bound can block no behaviour for good. With 2, a message is
retransmitted while the earlier copy, or the answer to it, is still under way. Since a delivery adds
at most one message for the one it takes, or the first decision broadcast, the network is finite.
That there are only two nodes is made up for by the proofs, which hold for all numbers of them.

**Bounds of the simulator runs.** Nothing in `HarnessSpec` is cut off: programs are finite, and the
state space is finite because they end. `Length` is the number of generated actions, `MaxFaults` how
many are not ticks. Three actions at times 1 to 3 put a crash and a recovery around any of the first
deliveries, and two crashes on top of each other. The code's delays go up to 10 and its timeout is 5;
the two members of `Delays` are chosen on the same side of the timeout (0 and 2) or on both sides
(0 and 6). In the second case answers come later than the retransmissions they make unnecessary.
The programs of ticks have `Deltas` between them, 0 to 10 as in `tick_actions_strategy`
(`tests/simulation.rs:10-12`). A program of `LatePrograms` enqueues an event at time 0 after a `run`.
`MaxRounds` is above what `drain` needs wherever termination is asked (how much it can need in general
is a theorem); in `sim_safety` it is small enough to be used up by a coordinator that waits for a
crashed participant. The graph of each run
has no cycle but `Exited`, the end of a program, since every other step makes a call, raises the
queue's counter, takes an entry out or moves on within `drain`'s counted loop; it is finite and
deadlock is checked: so every program ends.

**Fairness** (`MCFairness`) is weak fairness of `StartTransaction`, of every delivery, of a tick with
the timeout elapsed on which the coin does not abort, and of recovery. The queue hands out every event
in it after a finite delay; `drain` injects ticks, with the clock advancing, whenever the queue is
empty; and the tests recover what they crash ("eventual recovery", README). Nothing is assumed of
crashes, of coin flips or of ticks before the timeout. That crashes stop is the bound `MaxCrashes`.
The runs of programs need no fairness: their termination is an invariant of their last states.

## Proofs

### The protocol (`TwoPhaseCommitProofs`)

`TwoPhaseCommitProofs.tla` proves, for any set of nodes (finite or not), any biases and any number
of crashes and copies, that `Spec` satisfies the safety properties above, `DurableIsFinal` and the
refinement (`theorems` in PROJECT.json). The assumptions are `CoordinatorIsNoNode`,
`AbortBiasAssumption` and `VoteAbortBiasAssumption`; TLC evaluates them in every run.

The invariant is `IInv`, a conjunction of the invariants the runs check and two auxiliary ones:
`DurableCommitUnanimous` (`CommitNeedsUnanimity` for the coordinator only) and `StartedIsUnderWay`
(starting leaves `Waiting` for good).

* `CommitNeedsUnanimity` is not inductive alone. A commit is decided on a tally, so the tally must
  be that of the durable votes (`VotesNeverConflict`), and this must hold of the votes in transit as
  well because they are counted later, possibly after a crash. Those votes must not be replaced, so
  a participant in `Waiting` must have no durable vote (`CrashLosesNoVote`).
* `Agreement` follows from `DecisionsNeverConflict`, which needs that a coordinator with a durable
  decision never decides again (`PhaseMatchesDurable`).

The argument has two layers. The *effect* lemmas (`TickEffect`, `OnMessageEffect`,
`ParticipantOnMessageEffect`, `RecoverEffect`) say, of one actor alone, everything any of its
handlers may do to its state and which messages it may send. `StepMoves` then shows that every
step of the system is one of three: a handler's effect on the coordinator, a handler's effect on
one participant, or neither (`CoordinatorMoves`, `ParticipantMoves`, `NobodyMoves`); recovering a
participant is of the third kind. Each theorem about steps has these three cases only.

`SomeoneIsAwaited` is an induction of its own on top of `IInv`. That a vote is missing while the
coordinator is `Voting` must survive a vote: the one that completes the tally decides in the same call,
and only a vote that is new can complete it. It is stated for systems with participants: without any,
a coordinator that has been started stays in `Voting` and awaits nobody. `NobodyIsAsked` proves that it
never decides then, if it has no abort bias: `try_decide` is called only when a vote arrives
(`coordinator/mod.rs:173-178`). The sentence on `abort_bias` in `coordinator/mod.rs:61-62`, "it commits if
and only if every participant votes Commit", needs at least one participant.

### The simulator (`SimulatorProofs`, `ObservationsProofs`)

For any number of nodes, any delays and timeout, and any external events at any times:

* `SimulatorRefines`: the simulator implements `TwoPhaseCommit`, with the network the multiset of
  queued deliveries. Copies of a message are counted, so the proof is about cardinalities: taking an
  entry removes one copy of its message, and enqueuing what a handler returned adds one copy of
  each. Both need the entries to be distinct, which is `QueueOK`: the queue is finite, its numbers are
  below the counter, `Position` is injective below `Cardinality(sent)`, and `StartTransaction` is queued
  at most once and only before it is processed. The inductive invariant is `QueueOK` together with
  `TwoPhaseCommit`'s own `IInv`, seen through the mapping.
* `AssertionsHold`, `ObservationsAreDurable`, `CommitIsHeardUnanimous`: by induction, the observations are
  the durable state (`ObservedInv`). The step is `Tells`: a handler that makes something durable sends
  it in the same step, all it sends is durable, and what is delivered is what its sender made durable.
  With this the checks on observations follow from `TwoPhaseCommit`'s invariant on durable state.
* `RetransmissionsAreDue`: `RetransmitsOnlyWhenDue`, for a positive timeout. A tick before the timeout
  repeats nothing (`TickRepeatsNothing`). All that a handler can send then is a decision it has
  just made, in `Voting`, and that is none of the messages of `Voting` (`StepRepeatsWhenDue`). That what a
  step adds to the queue is what its handler sent needs `QueueOK`.

### The queue (`EventQueueProofs`)

For any events, any times and any number of inserts, `QueueIsDeterministic` and `QueueIsStable`. The
invariant is `QueueInv`: the entries are finitely many, with distinct numbers below the counter. The
lane of a time is given by rank: its `i`-th event is that of the entry with `i - 1` entries of its time
before it. `Numbered` sets have exactly one entry of each rank, so an insert, whose number is the
largest, appends to a lane, and removing the earliest entry of a time, which has rank 0, lowers the
rank of every other one by 1 and leaves the tail.

### Programs (`HarnessProofs`)

Every program is a behaviour of `Simulator`, whatever it calls in whatever order, hence one of
`TwoPhaseCommit` without a panic. The probes never pass the threshold and the rounds stop at 0
(`ControlInv`). `DeliveriesGoForward` rests on `NoMessageIsLate`: every queued message is due at the
clock or later, because it was sent at the clock's time and the clock follows the earliest entry.

### What drain reports (`HarnessProofs`)

`DrainTrueExplained` and `ProbesAreAnswered` are proved of every program, if there is a participant.
Four invariants carry them.

* `ProbeInv`: a probe is alone in the queue, so if the queue is empty after it, the coordinator sent
  nothing. By `AwaitsSomeone`, an operating coordinator that sends nothing on a tick is either
  quiescent or not yet due (`NothingIsDue`): were it due, there would be somebody to retransmit to.
  Hence the hypothesis that `Nodes` is not empty.
* `PunctualInv`: as long as no event was enqueued late, nothing in the queue is due before the clock,
  and the last send was not after it.
* `PatienceInv`: then also `lastSend + emptyProbes <= clock`, since every unanswered probe has moved
  the clock one unit further from the last send.
* `SilentInv`: after an unanswered probe, a coordinator that is up and awaits someone is not due.

The last two give `PatienceIsEnough`: fewer probes go unanswered than the timeout has units. So when
`drain` returns true at the twelfth for a coordinator that awaits someone, an event was late or the timeout
is above twelve (`DrainIsRight`).

The rest is about programs of two properties, defined in `Harness.tla`. `Scripted`: all external
events are enqueued before `run` or `drain` is called. `RecoversAll`: each crash of an actor is followed by
a recovery of it at a later time.

* `ScriptInv`, for `Scripted` programs: until the last call of `enqueue_external` nothing is delivered
  and the clock is 0; from then on nothing in the queue is due before the clock, and every delivery
  has a higher number than every external event. This gives `ScriptedTimeGoesForward` and
  `ScriptGoesFirst`. No event of such a program is late, so that with a timeout of at most twelve true
  can only mean a quiescent coordinator or a crashed one.
* `RecoveryInv`, for programs that are `RecoversAll` too: a crashed actor has a recovery pending, in the
  queue or in a call to come, and a pending crash has one pending at a later time. When `drain`
  returns nothing is pending, so everyone is up. It is inductive because time goes forward: the
  recovery of an actor cannot be processed before its crash.

`Patient` collects the hypotheses: a participant, a timeout of at most `QuiescenceThreshold` (the code's
is 5, the threshold 12; with 15 the run `sim_impatient` is the counterexample), and programs of both
properties. Under it, `DrainIsReliable` says that true means quiescent and `DrainedIsDecided`, with
`QuiescentMeansDecided` of the protocol and `ObservationsMatchDurableState` of the simulator, that
it means decided.

### That loops end (`RoundsProofs`)

How long `drain` and `run` can go on is a matter of what a queue full of messages can still cause. The
three results hold for any number of participants, any bounded delays, any timeout (a positive one
for `drain`) and every outcome of the coins.

* `DrainFalseIsRight`: `DrainFalseExplained`. If `drain` uses up its rounds, the coordinator is up and waits
  for a participant that is down; no bound of at least `RoundsNeeded` is used up for want of time.
* `DrainSucceeds`, for programs that are `Patient`: everyone is recovered, so `drain` returns true.
* `RunsEndSoon`: `run` is over eleven trips after the last external event.

For `drain`, the hypotheses are `Generous`: a participant, a positive timeout (with 0, every message that
the coordinator hears makes it retransmit), `RoundsNeeded <= MaxRounds`, and that each `drain` comes directly after
a `run`, as it does in every program of the repository, so that it starts with an empty queue.

* A round takes one event. `Load` weighs what is in the queue, 2 for a request to a participant and 1 for
  an answer: a delivery takes off one unit at least, unless the coordinator sends something.
* It sends when a phase begins and when its timeout has passed. While the answer to a broadcast is
  under way, at most `2 * Trip` of time pass (`Trip` is `1` plus the longest delay), so it can
  retransmit at most `Retries`, the quotient of that by the timeout, times. Each broadcast costs at most
  `2 * |Nodes|`, so `Budget`, `2 * |Nodes| * (Retries + 1)`, pays for a phase.
* There are two phases to pay for; one probe may set off both, after which the coordinator is `Done`.
  `RoundsNeeded` is twelve, for the unanswered probes, plus `2 * Budget`.

`RoundsInv` is the inductive invariant: either somebody is down for whom the coordinator waits
(`Hopeless`, and it stays so, for `drain` recovers nobody), or the rounds left pay for what is under way
and what it may cause (`Active`, `Finished`, or `Idle` between probes). In `Active` each node that is
awaited has a request or an answer under way (`AllAsked`), which is how a retransmission that is not
needed is told from one that goes on for ever.

For `run`, `LimitInv` follows the coordinator from the last external event on (`Winding`). In each phase
there is a time at which it had asked everyone it waits for (`Asked`). Two trips later those who are
up have answered, and it only asks those who are down, as long as answers to what it asked before come
in; they do for two trips more. The hypotheses are that no event is enqueued for a time after `last` and that
`drain` is the last call. It is not claimed that eleven is attained. Nine, which the runs would also
let pass, is too few: with three participants, `Delays = {0, 1}` and a timeout of 1, and a start at 0,
crashes of 1 and 2 at 1 and a recovery of 1 at 2, TLC finds a longer run.

### The repository's programs (`ProgramsProofs`)

That the hypotheses are those of the code is a theorem: the programs of `SimulationTests` with the
recovery sweep, those with ticks alone, and the scenarios are `Scripted` and `RecoversAll`, for every
length, any number of faults, and any number of participants numbered from 0 (`NodesFromZero`; the
sweep recovers actors by number). So `TerminationTestsAreSound` and `ScenariosAreSound` hold of them for
all delays and every outcome of the coins.

* `TerminationTestsPass` and `ScenariosPass` carry this to the end of the program (`FinishInv`: after a
  true `drain` nothing can happen any more): `TestTerminates` and `ScenarioCompletes` hold, the latter
  with Commit exactly if all voted for it, when `AbortBias` is "never" as in the scenarios. Their
  hypothesis on `drain` is `RoundsNeeded <= MaxRounds`.
* `TerminationTestsHaveRoundsEnough` puts in the numbers of `tests/simulation.rs`: up to four
  participants, delays of 0 to 9, a timeout of 5. `RoundsNeeded` is then at most 92.
  `test_termination` gives `last_time + 100` rounds and the test with crashes at least 200.
  `ScenariosHaveRoundsEnough` does it for `drain(50)` of the examples: up to three participants,
  delays of 0 to 4, a timeout of 5, and at most 48 rounds. So no seed of the random generator and no
  list of actions, however long, makes these programs fail for want of rounds.
* `SafetyTestsGiveUpRightly` and `SafetyTestsRunSoonEnds` are about the programs that leave actors crashed
  or enqueue an event late: `DrainFalseExplained` for the 200 rounds of `test_safety_with_crashes`, and
  `RunEndsSoon` for all delays and timeouts. (`test_safety` drains for `last_time + 50` rounds, which may
  be fewer than 92, but it does not look at the result.)
* `CrashesHitWindows`: each crash of a scenario falls into the window that the scenario is named after,
  with any number of participants, any votes and coins, without delays and with a timeout of at least
  5. `PlanInv` says what is left of the script: at most a start at 0, one crash, and a later recovery.
  `TimelineInv` says that until the crash everyone is up and every message arrives on time (a Prepare
  at 1, a vote at 2, a decision at 3, an Ack at 4), and that whoever has not moved on yet has its
  message under way. The crash is the first event of its time, so what is due earlier has been
  delivered and what is due then has not. With delays a crash need not hit its window, and nothing
  says so in the code.

### The checks (`ObserverProofs`)

For any set of nodes, `NoFalsePass` and `NoFalseAlarm`. The invariant is `Faithful`: while nothing has
panicked, the observations say exactly which votes and decisions are in the history. Each message
then either agrees with the history, and keeps it consistent, or contradicts it, and panics.

The proofs assume the named assumptions of the modules, which TLC evaluates in the runs. They do not
assume that `Nodes` is not empty, except where a statement says so. That there is a longest delay is
part of `DelaysAssumption`: the code draws delays from a bounded range.

**What stays with TLC.**

* Liveness under fairness: `Termination`, `ComesToRest`, `UnanimityLeadsToCommit`. (That the tests and
  scenarios end quiescent and decided is proved: it is a property of their last states.)
* The runs that expect a violation.

## Findings

* `crashed_start`: `Simulator::step` hands `StartTransaction` to the coordinator without looking at
  its status (`simulator/mod.rs:196-203`); all other events test `is_operating`. A crashed coordinator
  that gets it ticks, enters `Voting` and broadcasts Prepare. `simulator/event.rs:29-30` says of a
  crash: "Messages delivered to crashed actors are dropped. The actor is non-operational until
  recovered." The safety and liveness properties hold nevertheless: the runs include this behaviour.
* `crash_drops`: a crash only sets the actor's status (`simulator/mod.rs:232-235`). What the actor has
  sent is still delivered, and what is on its way to it is dropped when it is due, if the actor is
  still down then (`simulator/mod.rs:180-187`). `.specs/2pc-crash-recovery/spec.md:46-47` says: "Node
  crashes subsume message loss — a crash drops all in-flight messages to/from the node." So votes and
  Acks of before a crash can reach an actor after its recovery; the safety properties, proved
  with such messages, hold nevertheless.
* `sim_recovery`: the timestamp of a recovered coordinator saturates at 0 (`coordinator/mod.rs:387`).
  A recovery before time `retransmit_timeout` is not followed by a retransmission on the very next
  tick, as `coordinator/mod.rs:377-379` says, but by one when the clock reaches the
  timeout. Nothing is lost but time.
* `sim_impatient`: with a timeout of 15, `drain` gives up after twelve probes and returns true while
  the coordinator waits to retransmit to a participant that was down for one unit of time.
  `simulator/mod.rs:313` says "Returns whether the system is quiescent." All programs in the repository
  use a timeout of 5, for which `sim_termination` shows that the result is right.

## Not modelled, and what is left

* The action log, examples' timeline and visualization: formatting of a finished run, read by no
  handler.
* `manual_protocol` and the unit tests of the actors: single executions, which the operators of
  `Coordinator` and `Participant` contain. The repository's own TLA+ and Alloy models are
  specifications and not code.
* The pseudo-random generator is abstracted to choice, so that a run covers every seed; overflow of
  `u64` timestamps is left out.

Worth adding: an abstract contract of one actor in an arbitrary environment (answers to repeated
messages, empty ticks of a quiescent actor); and whether eleven trips, or `RoundsNeeded` rounds, are
ever all used.
