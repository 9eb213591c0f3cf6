---------------------------- MODULE HarnessProofs ----------------------------
(***************************************************************************)
(* Theorems about every program that uses a simulator through              *)
(* enqueue_external, run and drain: it is one of the behaviours of         *)
(* Simulator, only its own calls turn back the clock, and drain's probes   *)
(* measure the timeout unless they do.  For programs that are Scripted, as *)
(* those of the repository are, their external events come first and their *)
(* clock goes forward, and drain's "true" means that all has been decided. *)
(***************************************************************************)
EXTENDS Harness, ObservationsProofs

-----------------------------------------------------------------------------
(* A program makes steps of the simulator *)

\* The pass through drain's loop that a probe belongs to has been counted.
ControlInv ==
    /\ ControlTypeOK
    /\ program \in Seq(Call)
    /\ at \in {"probe", "probed"} => rounds > 0

LEMMA InCallSteps ==
    ASSUME InCall
    PROVE  [Next]_simulatorVars
<1>1. CASE RunStep \/ DrainStep \/ ProcessProbe \/ ProbeAnswered
  BY <1>1 DEF RunStep, DrainStep, ProcessProbe, ProbeAnswered, Next
<1>2. CASE BeginProbe
  BY <1>2 DEF BeginProbe, Next
<1>3. CASE RunReturns \/ OutOfRounds \/ FoundQuiescent \/ ProbeUnanswered
  BY <1>3 DEF RunReturns, OutOfRounds, FoundQuiescent, ProbeUnanswered
<1>4. QED
  BY <1>1, <1>2, <1>3 DEF InCall

LEMMA MakeCallSteps ==
    ASSUME program \in Seq(Call), MakeCall
    PROVE  [Next]_simulatorVars /\ program' \in Seq(Call)
<1>1. program # <<>> /\ program' = Tail(program)
  BY DEF MakeCall
<1>2. Head(program) \in Call /\ program' \in Seq(Call)
  BY <1>1
<1> DEFINE c == Head(program)
<1>3. CASE c.call = "enqueue_external" /\ Enqueue(c.event, c.at_time)
  <2>1. c.event \in ExternalEvent /\ c.at_time \in Nat
    BY <1>2, <1>3 DEF Call, RunCall, DrainCall
  <2>2. EnqueueExternal(c.event, c.at_time)
    BY <1>3 DEF Enqueue
  <2>3. Next
    BY <2>1, <2>2 DEF Next
  <2>4. QED
    BY <1>2, <2>3
<1>4. CASE CallRun \/ CallDrain
  BY <1>2, <1>4 DEF CallRun, CallDrain
<1>5. QED
  BY <1>3, <1>4 DEF MakeCall

LEMMA HarnessSteps ==
    ASSUME program \in Seq(Call), [HarnessNext]_harnessVars
    PROVE  [Next]_simulatorVars /\ program' \in Seq(Call)
<1>1. CASE MakeCall
  BY <1>1, MakeCallSteps
<1>2. CASE InCall /\ UNCHANGED program
  BY <1>2, InCallSteps
<1>3. CASE UNCHANGED harnessVars
  BY <1>3 DEF harnessVars, drainVars
<1>4. QED
  BY <1>1, <1>2, <1>3 DEF HarnessNext, Exited

LEMMA ControlPreserved ==
    ASSUME ControlInv, [HarnessNext]_harnessVars
    PROVE  ControlInv'
<1> DEFINE Kept == ControlTypeOK' /\ (at' \in {"probe", "probed"} => rounds' > 0)
<1> SUFFICES Kept
  BY HarnessSteps DEF ControlInv
<1> USE MaxRoundsAssumption DEF ControlInv, ControlTypeOK
<1>1. CASE MakeCall
  BY <1>1 DEF MakeCall, Enqueue, CallRun, CallDrain, controlVars, QuiescenceThreshold, None
<1>2. CASE InCall
  <2>1. CASE RunStep \/ RunReturns
    BY <2>1 DEF RunStep, RunReturns, controlVars
  <2>2. CASE OutOfRounds \/ FoundQuiescent
    BY <2>2 DEF OutOfRounds, FoundQuiescent, Return
  <2>3. CASE DrainStep
    BY <2>3 DEF DrainStep, Return, Continue, QuiescenceThreshold
  <2>4. CASE BeginProbe \/ ProcessProbe
    BY <2>4 DEF BeginProbe, ProcessProbe
  <2>5. CASE ProbeAnswered \/ ProbeUnanswered
    <3>1. at = "probed" /\ rounds > 0
      BY <2>5 DEF ProbeAnswered, ProbeUnanswered
    <3>2. rounds' \in 0..MaxRounds /\ at' \in {"caller", "drain"}
      BY <2>5, <3>1 DEF ProbeAnswered, ProbeUnanswered, Return, Continue
    <3>3. emptyProbes' \in 0..(QuiescenceThreshold - 1) /\ drained' \in {None, "true", "false"}
      BY <2>5 DEF ProbeAnswered, ProbeUnanswered, Return, Continue, QuiescenceThreshold
    <3>4. QED
      BY <3>2, <3>3
  <2>6. QED
    BY <1>2, <2>1, <2>2, <2>3, <2>4, <2>5 DEF InCall
<1>3. CASE UNCHANGED harnessVars
  BY <1>3 DEF harnessVars, drainVars, controlVars
<1>4. QED
  BY <1>1, <1>2, <1>3 DEF HarnessNext, Exited

-----------------------------------------------------------------------------
(* The clock *)

\* No message in transit is overdue, also after the clock was turned back.
NoMessageIsLate ==
    \A e \in queue.entries : ~IsExternal(e) => e.timestamp >= clock

\* A step takes one entry out of the queue, and sends.
LEMMA StepQueue ==
    ASSUME IInv, NEW e \in queue.entries, Process(e)
    PROVE  \/ queue' = Remove(queue, e)
           \/ \E sent \in SUBSET Message : \E delay \in [sent -> Delays] :
                 queue' = EnqueueOutgoing(Remove(queue, e), sent, e.timestamp, delay)
<1>1. ASSUME NEW delivered, NEW sent \in SUBSET Message, Conclude(e, delivered, sent)
      PROVE  \E delay \in [sent -> Delays] :
                queue' = EnqueueOutgoing(Remove(queue, e), sent, e.timestamp, delay)
  BY <1>1 DEF Conclude
<1>2. Elapsed(e.timestamp) \in BOOLEAN /\ TPC!IInv
  BY ElapsedTyped DEF IInv
<1>3. CASE StartTransaction(e)
  <2>1. PICK o \in CoordinatorOnMessage(coordinator, StartMessage, Elapsed(e.timestamp)) :
          Conclude(e, {}, o.sent)
    BY <1>3 DEF StartTransaction, CoordinatorReturns
  <2>2. o.sent \in SUBSET Message
    BY <1>2, CoordinatorSends
  <2>3. QED
    BY <1>1, <2>1, <2>2
<1>4. CASE Tick(e)
  <2>1. PICK o \in CoordinatorTick(coordinator, Elapsed(e.timestamp)) :
          Conclude(e, {}, o.sent)
    BY <1>4 DEF Tick, CoordinatorReturns
  <2>2. o.sent \in SUBSET Message
    BY <1>2, CoordinatorSends
  <2>3. QED
    BY <1>1, <2>1, <2>2
<1>5. ASSUME NEW m \in Message, DeliverToCoordinator(e, m)
      PROVE  \E sent \in SUBSET Message : \E delay \in [sent -> Delays] :
                queue' = EnqueueOutgoing(Remove(queue, e), sent, e.timestamp, delay)
  <2>1. PICK o \in CoordinatorOnMessage(coordinator, m, Elapsed(e.timestamp)) :
          Conclude(e, {m}, o.sent)
    BY <1>5 DEF DeliverToCoordinator, CoordinatorReturns
  <2>2. o.sent \in SUBSET Message
    BY <1>2, CoordinatorSends
  <2>3. QED
    BY <1>1, <2>1, <2>2
<1>6. ASSUME NEW m \in Message, DeliverToParticipant(e, m)
      PROVE  \E sent \in SUBSET Message : \E delay \in [sent -> Delays] :
                queue' = EnqueueOutgoing(Remove(queue, e), sent, e.timestamp, delay)
  <2>1. PICK o \in ParticipantOnMessage(participants[m.to], m.to, m) :
          Conclude(e, {m}, o.sent)
    BY <1>6 DEF DeliverToParticipant, ParticipantReturns
  <2>2. o.sent \in SUBSET Message
    BY <1>2, <1>6, ParticipantSends DEF DeliverToParticipant
  <2>3. QED
    BY <1>1, <2>1, <2>2
<1>7. ASSUME \/ TickInVain(e)
             \/ \E a \in ActorId : Crash(e, a) \/ RecoverInVain(e, a)
             \/ RecoverCoordinator(e)
             \/ \E n \in Nodes : RecoverParticipant(e, n)
      PROVE  \E sent \in SUBSET Message : \E delay \in [sent -> Delays] :
                queue' = EnqueueOutgoing(Remove(queue, e), sent, e.timestamp, delay)
  <2> DEFINE none == {}
  <2>1. Conclude(e, {}, none)
    BY <1>7 DEF TickInVain, Crash, RecoverInVain, RecoverCoordinator, RecoverParticipant
  <2>2. none \in SUBSET Message
    OBVIOUS
  <2> HIDE DEF none
  <2>3. QED
    BY <1>1, <2>1, <2>2
<1>8. ASSUME NEW m \in Message, Drop(e, m) PROVE queue' = Remove(queue, e)
  BY <1>8 DEF Drop
<1>9. QED
  BY <1>3, <1>4, <1>5, <1>6, <1>7, <1>8 DEF Process

\* What a step leaves in the queue, and that what it takes is gone.
LEMMA StepOrder ==
    ASSUME IInv, NEW e \in queue.entries, IsEarliest(queue, e), Process(e)
    PROVE  /\ e \notin queue'.entries
           /\ \A f \in queue'.entries : f.timestamp >= e.timestamp
<1> USE DEF QueueOf
<1>1. /\ QueueOK(queue, started)
      /\ queue.next \in Nat
      /\ \A f \in queue.entries : f.timestamp \in Nat /\ f.sequence \in Nat
                                  /\ f.sequence < queue.next
  BY Typed DEF QueueOK
<1>2. \A f \in queue.entries \ {e} : f.timestamp >= e.timestamp
  BY <1>1 DEF IsEarliest, Precedes
<1> DEFINE r == Remove(queue, e)
<1>3. r.entries = queue.entries \ {e} /\ r.next = queue.next
  BY <1>1 DEF Remove, QueueOK
<1>4. CASE queue' = r
  BY <1>2, <1>3, <1>4
<1> HIDE DEF r
<1>5. ASSUME NEW sent \in SUBSET Message, NEW delay \in [sent -> Delays],
             queue' = EnqueueOutgoing(r, sent, e.timestamp, delay)
      PROVE  /\ e \notin queue'.entries
             /\ \A f \in queue'.entries : f.timestamp >= e.timestamp
  <2>1. queue'.entries = r.entries \cup {Departure(r, m, sent, e.timestamp, delay) : m \in sent}
    BY <1>5 DEF EnqueueOutgoing
  <2>2. ASSUME NEW m \in sent
        PROVE  /\ Departure(r, m, sent, e.timestamp, delay) # e
               /\ Departure(r, m, sent, e.timestamp, delay).timestamp >= e.timestamp
    <3> DEFINE d == Departure(r, m, sent, e.timestamp, delay)
    <3>1. /\ d.timestamp \in Nat /\ d.timestamp > e.timestamp
          /\ d.sequence \in Nat /\ d.sequence >= queue.next
      BY <1>1, <1>3, DepartureTyped
    <3> HIDE DEF d
    <3>2. d # e /\ d.timestamp >= e.timestamp
      BY <1>1, <3>1
    <3>3. QED
      BY <3>2 DEF d
  <2>3. QED
    BY <1>2, <1>3, <2>1, <2>2
<1>6. QED
  BY <1>4, <1>5, StepQueue DEF r

LEMMA NextKeepsTime ==
    ASSUME IInv, IInv', NoMessageIsLate, [Next]_simulatorVars
    PROVE  /\ NoMessageIsLate'
           /\ clock' < clock => \E e \in queue.entries : Takes(e) /\ IsExternal(e)
<1>1. clock \in Nat /\ \A f \in queue.entries : f.timestamp \in Nat
  BY Typed DEF IInv, QueueOK, QueueOf
<1>2. CASE Step
  <2>1. PICK e \in queue.entries :
          IsEarliest(queue, e) /\ clock' = e.timestamp /\ Process(e)
    BY <1>2 DEF Step
  <2>2. Takes(e) /\ NoMessageIsLate'
    BY <2>1, StepOrder DEF Takes, NoMessageIsLate
  <2>3. clock' < clock => IsExternal(e)
    BY <1>1, <2>1 DEF NoMessageIsLate
  <2>4. QED
    BY <2>2, <2>3
<1>3. CASE InjectProbe
  <2>1. clock' = clock + 1 /\ queue.entries = {} /\ queue' = Insert(queue, clock', TickAllEvent)
    BY <1>3 DEF InjectProbe, IsEmpty
  <2>2. \A f \in queue'.entries : f.event = TickAllEvent
    BY <2>1 DEF Insert, Entry
  <2>3. QED
    BY <1>1, <2>1, <2>2 DEF NoMessageIsLate, IsExternal, TickAllEvent
<1>4. ASSUME NEW event \in ExternalEvent, NEW t \in Nat, EnqueueExternal(event, t)
      PROVE  clock' = clock /\ NoMessageIsLate'
  <2>1. clock' = clock /\ queue' = Insert(queue, t, event)
    BY <1>4 DEF EnqueueExternal
  <2>2. queue'.entries = queue.entries \cup {Entry(t, queue.next, event)}
    BY <2>1 DEF Insert
  <2>3. IsExternal(Entry(t, queue.next, event))
    BY DEF IsExternal, Entry, ExternalEvent, StartEvent, TickAllEvent
  <2>4. QED
    BY <2>1, <2>2, <2>3 DEF NoMessageIsLate
<1>5. CASE UNCHANGED simulatorVars
  BY <1>1, <1>5 DEF simulatorVars, NoMessageIsLate
<1>6. QED
  BY <1>1, <1>2, <1>3, <1>4, <1>5 DEF Next

-----------------------------------------------------------------------------
(* Theorems *)

HarnessInv == IInv /\ ControlInv /\ NoMessageIsLate

LEMMA HarnessInvHolds == HarnessSpec => []HarnessInv
<1>1. HarnessInit => HarnessInv
  <2> SUFFICES ASSUME HarnessInit PROVE HarnessInv
    OBVIOUS
  <2>1. Init /\ IInv
    BY InitRefines DEF HarnessInit, DrainInit
  <2>2. ControlInv
    BY ProgramsAssumption, MaxRoundsAssumption
       DEF HarnessInit, DrainInit, ControlInv, ControlTypeOK, QuiescenceThreshold, None
  <2>3. NoMessageIsLate
    BY <2>1 DEF Init, NewQueue, NoMessageIsLate
  <2>4. QED
    BY <2>1, <2>2, <2>3 DEF HarnessInv
<1>2. HarnessInv /\ [HarnessNext]_harnessVars => HarnessInv'
  <2> SUFFICES ASSUME HarnessInv, [HarnessNext]_harnessVars PROVE HarnessInv'
    OBVIOUS
  <2>1. [Next]_simulatorVars
    BY HarnessSteps DEF HarnessInv, ControlInv
  <2>2. IInv'
    BY <2>1, NextRefines DEF HarnessInv
  <2>3. QED
    BY <2>1, <2>2, NextKeepsTime, ControlPreserved DEF HarnessInv
<1>3. QED
  BY <1>1, <1>2, PTL DEF HarnessSpec

\* Whatever a program calls, run and drain included, is a behaviour of the
\* simulator: the theorems of SimulatorProofs and ObservationsProofs hold.
THEOREM ProgramsUseTheSimulator == HarnessSpec => Spec
<1>1. HarnessInit => Init
  BY DEF HarnessInit, DrainInit
<1>2. HarnessInv /\ [HarnessNext]_harnessVars => [Next]_simulatorVars
  BY HarnessSteps DEF HarnessInv, ControlInv
<1>3. QED
  BY <1>1, <1>2, HarnessInvHolds, PTL DEF HarnessSpec, Spec

\* In particular every program sees TwoPhaseCommit, and no panic.
THEOREM ProgramsSeeTwoPhaseCommit ==
    HarnessSpec => ImplementsTwoPhaseCommit /\ []NeverPanics
BY ProgramsUseTheSimulator, SimulatorRefines, AssertionsHold, PTL

\* Type correctness of run and drain: rounds are counted down to 0 and no
\* further, and the threshold is never passed.
THEOREM ControlTypeCorrect == HarnessSpec => []ControlTypeOK
<1>1. HarnessInv => ControlTypeOK
  BY DEF HarnessInv, ControlInv
<1>2. QED
  BY <1>1, HarnessInvHolds, PTL

\* Time goes back for no message: only an event that the program itself put
\* into the past can do it.
THEOREM DeliveriesGoForward == HarnessSpec => OnlyCallersTurnBackTime
<1>1. HarnessInv /\ HarnessInv' /\ [HarnessNext]_harnessVars =>
        [clock' < clock => \E e \in queue.entries : Takes(e) /\ IsExternal(e)]_harnessVars
  <2> SUFFICES ASSUME HarnessInv, HarnessInv', [HarnessNext]_harnessVars
               PROVE  clock' < clock => \E e \in queue.entries : Takes(e) /\ IsExternal(e)
    OBVIOUS
  <2>1. [Next]_simulatorVars
    BY HarnessSteps DEF HarnessInv, ControlInv
  <2>2. QED
    BY <2>1, NextKeepsTime DEF HarnessInv
<1>2. QED
  BY <1>1, HarnessInvHolds, PTL DEF HarnessSpec, OnlyCallersTurnBackTime

-----------------------------------------------------------------------------
(* Calls *)

NoEnqueuesLeft(p) == \A i \in DOMAIN p : ~Enqueues(p[i])

LEMMA TailOfCalls ==
    ASSUME NEW p \in Seq(Call), p # <<>>
    PROVE  /\ Head(p) = p[1] /\ Head(p) \in Call
           /\ DOMAIN p = 1..Len(p) /\ Len(p) \in Nat \ {0}
           /\ Tail(p) \in Seq(Call)
           /\ DOMAIN Tail(p) = 1..(Len(p) - 1)
           /\ \A i \in 1..(Len(p) - 1) : Tail(p)[i] = p[i + 1]
OBVIOUS

LEMMA ScriptedTail ==
    ASSUME NEW p \in Seq(Call), p # <<>>, Scripted(p)
    PROVE  /\ Scripted(Tail(p))
           /\ ~Enqueues(Head(p)) => NoEnqueuesLeft(p) /\ NoEnqueuesLeft(Tail(p))
<1>1. Scripted(Tail(p))
  BY TailOfCalls DEF Scripted
<1>2. ASSUME ~Enqueues(Head(p)) PROVE NoEnqueuesLeft(p)
  BY <1>2, TailOfCalls DEF Scripted, NoEnqueuesLeft
<1>3. NoEnqueuesLeft(p) => NoEnqueuesLeft(Tail(p))
  BY TailOfCalls DEF NoEnqueuesLeft
<1>4. QED
  BY <1>1, <1>2, <1>3

\* A program makes a call while it has control and none while it has not.
MakesEnqueue(event, t) ==
    /\ at = "caller" /\ UNCHANGED controlVars
    /\ program # <<>> /\ Head(program) = EnqueueCall(event, t) /\ program' = Tail(program)
    /\ EnqueueExternal(event, t)
    /\ late' = (late \/ t < clock)

MakesOther ==
    /\ at = "caller" /\ UNCHANGED <<simulatorVars, late>>
    /\ program # <<>> /\ ~Enqueues(Head(program)) /\ program' = Tail(program)
    /\ CallRun \/ CallDrain

LEMMA HarnessMoves ==
    ASSUME program \in Seq(Call), [HarnessNext]_harnessVars
    PROVE  \/ \E event \in ExternalEvent, t \in Nat : MakesEnqueue(event, t)
           \/ MakesOther
           \/ InCall /\ UNCHANGED <<program, late>>
           \/ UNCHANGED harnessVars
<1>1. CASE MakeCall
  <2>1. program # <<>> /\ program' = Tail(program) /\ Head(program) \in Call
    BY <1>1, TailOfCalls DEF MakeCall
  <2> DEFINE c == Head(program)
  <2>2. \/ /\ c.call = "enqueue_external" /\ Enqueue(c.event, c.at_time)
           /\ late' = (late \/ c.at_time < clock)
        \/ c.call = "run" /\ CallRun /\ UNCHANGED late
        \/ c.call = "drain" /\ CallDrain /\ UNCHANGED late
    BY <1>1 DEF MakeCall
  <2>3. CASE /\ c.call = "enqueue_external" /\ Enqueue(c.event, c.at_time)
             /\ late' = (late \/ c.at_time < clock)
    <3>1. /\ c.event \in ExternalEvent /\ c.at_time \in Nat
          /\ c = EnqueueCall(c.event, c.at_time)
      BY <2>1, <2>3 DEF Call, RunCall, DrainCall, EnqueueCall
    <3>2. MakesEnqueue(c.event, c.at_time)
      BY <2>1, <2>3, <3>1 DEF MakesEnqueue, Enqueue
    <3>3. QED
      BY <3>1, <3>2
  <2>4. CASE \/ c.call = "run" /\ CallRun /\ UNCHANGED late
             \/ c.call = "drain" /\ CallDrain /\ UNCHANGED late
    <3>1. ~Enqueues(c)
      BY <2>4 DEF Enqueues
    <3>2. at = "caller" /\ UNCHANGED <<simulatorVars, late>>
      BY <2>4 DEF CallRun, CallDrain
    <3> HIDE DEF c
    <3>3. CallRun \/ CallDrain
      BY <2>4
    <3>4. QED
      BY <2>1, <3>1, <3>2, <3>3 DEF MakesOther, c
  <2>5. QED
    BY <2>2, <2>3, <2>4
<1>2. CASE InCall /\ UNCHANGED <<program, late>>
  BY <1>2
<1>3. CASE Exited
  BY <1>3 DEF Exited
<1>4. QED
  BY <1>1, <1>2, <1>3 DEF HarnessNext

LEMMA InCallMoves ==
    ASSUME InCall
    PROVE  at # "caller" /\ (Step \/ InjectProbe \/ UNCHANGED simulatorVars)
BY DEF InCall, RunStep, RunReturns, OutOfRounds, DrainStep, FoundQuiescent, BeginProbe,
       ProcessProbe, ProbeAnswered, ProbeUnanswered

-----------------------------------------------------------------------------
(* Steps *)

\* What a step that takes e may add to the queue.
IsSent(e, d) ==
    /\ ~IsExternal(d)
    /\ d.timestamp \in Nat /\ d.timestamp > e.timestamp
    /\ d.sequence \in Nat /\ d.sequence >= queue.next

\* A step takes one entry and adds deliveries only, all of them later.
LEMMA StepEntries ==
    ASSUME IInv, NEW e \in queue.entries, Process(e)
    PROVE  \E added :
              /\ queue'.entries = (queue.entries \ {e}) \cup added
              /\ \A d \in added : IsSent(e, d)
<1>1. queue.next \in Nat /\ e.timestamp \in Nat
  BY Typed DEF QueueOK, QueueOf
<1> DEFINE r == Remove(queue, e)
<1>2. r.entries = queue.entries \ {e} /\ r.next = queue.next
  BY Typed DEF Remove, QueueOK, QueueOf
<1>3. CASE queue' = r
  <2>1. PICK none : none = {}
    OBVIOUS
  <2>2. queue'.entries = (queue.entries \ {e}) \cup none /\ \A d \in none : IsSent(e, d)
    BY <1>2, <1>3, <2>1
  <2>3. QED
    BY <2>2
<1> HIDE DEF r
<1>4. ASSUME NEW sent \in SUBSET Message, NEW delay \in [sent -> Delays],
             queue' = EnqueueOutgoing(r, sent, e.timestamp, delay)
      PROVE  \E added :
                /\ queue'.entries = (queue.entries \ {e}) \cup added
                /\ \A d \in added : IsSent(e, d)
  <2> DEFINE added == {Departure(r, m, sent, e.timestamp, delay) : m \in sent}
  <2>1. queue'.entries = (queue.entries \ {e}) \cup added
    BY <1>2, <1>4 DEF EnqueueOutgoing
  <2>2. ASSUME NEW m \in sent
        PROVE  IsSent(e, Departure(r, m, sent, e.timestamp, delay))
    <3> DEFINE d == Departure(r, m, sent, e.timestamp, delay)
    <3>1. /\ d.timestamp \in Nat /\ d.timestamp > e.timestamp
          /\ d.sequence \in Nat /\ d.sequence >= queue.next
          /\ d.event = DeliverEvent(m)
      BY <1>1, <1>2, DepartureTyped
    <3> HIDE DEF d
    <3>2. IsSent(e, d)
      BY <3>1 DEF IsSent, IsExternal, DeliverEvent
    <3>3. QED
      BY <3>2 DEF d
  <2>3. \A d \in added : IsSent(e, d)
    BY <2>2
  <2> HIDE DEF added
  <2>4. QED
    BY <2>1, <2>3
<1>5. QED
  BY <1>3, <1>4, StepQueue DEF r

\* The coordinator's timestamp is the time of a step at the latest.
LEMMA StepSendTime ==
    ASSUME TypeOK, NEW e \in queue.entries, Process(e)
    PROVE  lastSend' = lastSend \/ lastSend' <= e.timestamp
<1>1. e.timestamp \in Nat /\ RetransmitTimeout \in Nat
  BY RetransmitTimeoutAssumption DEF TypeOK, QueueOf
<1>2. \A c : SendTime(e.timestamp, c) = lastSend \/ SendTime(e.timestamp, c) <= e.timestamp
  BY <1>1 DEF SendTime
<1>3. \A c : RecoverySendTime(e.timestamp, c) <= e.timestamp
  <2>1. SaturatingSub(e.timestamp, RetransmitTimeout) <= e.timestamp
    BY <1>1 DEF SaturatingSub
  <2>2. QED
    BY <1>1, <2>1 DEF RecoverySendTime
<1>4. CASE \/ StartTransaction(e) \/ Tick(e)
           \/ \E m \in Message : DeliverToCoordinator(e, m)
  <2>1. ASSUME NEW delivered, NEW outcomes, CoordinatorReturns(e, delivered, outcomes)
        PROVE  lastSend' = lastSend \/ lastSend' <= e.timestamp
    BY <1>2, <2>1 DEF CoordinatorReturns
  <2>2. QED
    BY <1>4, <2>1 DEF StartTransaction, Tick, DeliverToCoordinator
<1>5. CASE RecoverCoordinator(e)
  BY <1>3, <1>5 DEF RecoverCoordinator
<1>6. QED
  BY <1>4, <1>5 DEF Process, TickInVain, DeliverToParticipant, ParticipantReturns, Drop,
     Crash, RecoverParticipant, RecoverInVain, actorVars

-----------------------------------------------------------------------------
(* What every program can rely on *)

BaseInv == HarnessInv /\ TypeOK

LEMMA BaseInvHolds == HarnessSpec => []BaseInv
<1>1. HarnessSpec => []TypeOK
  BY ProgramsUseTheSimulator, TypeCorrect, PTL
<1>2. HarnessInv /\ TypeOK => BaseInv
  BY DEF BaseInv
<1>3. QED
  BY <1>1, <1>2, HarnessInvHolds, PTL

LEMMA BaseFacts ==
    ASSUME BaseInv
    PROVE  /\ IInv /\ program \in Seq(Call)
           /\ clock \in Nat /\ lastSend \in Nat /\ queue.next \in Nat
           /\ \A e \in queue.entries :
                 e.timestamp \in Nat /\ e.sequence \in Nat /\ e.sequence < queue.next
BY Typed DEF BaseInv, HarnessInv, ControlInv, TypeOK, QueueOf, QueueOK

-----------------------------------------------------------------------------
(* Programs whose external events come first *)

\* Until the program has put in all its events, nothing else has happened; from
\* then on time goes forward, and a delivery is younger than any such event.
ScriptInv ==
    /\ Scripted(program)
    /\ \/ NoEnqueuesLeft(program)
       \/ at = "caller" /\ clock = 0 /\ \A e \in queue.entries : IsExternal(e)
    /\ \A e \in queue.entries : e.timestamp >= clock
    /\ \A e, f \in queue.entries :
          ~IsExternal(e) /\ IsExternal(f) => f.sequence < e.sequence
    /\ lastSend <= clock
    /\ ~late

LEMMA StepKeepsScript ==
    ASSUME BaseInv, ScriptInv, Step, NoEnqueuesLeft(program), program' = program,
           late' = late
    PROVE  ScriptInv' /\ clock' >= clock
<1> USE BaseFacts
<1>1. PICK e \in queue.entries : IsEarliest(queue, e) /\ clock' = e.timestamp /\ Process(e)
  BY DEF Step
<1>2. PICK added : /\ queue'.entries = (queue.entries \ {e}) \cup added
                   /\ \A d \in added : IsSent(e, d)
  BY <1>1, StepEntries
<1>3. clock' >= clock /\ lastSend' <= clock'
  <2>1. e.timestamp >= clock /\ lastSend <= clock
    BY DEF ScriptInv
  <2>2. lastSend' = lastSend \/ lastSend' <= e.timestamp
    BY <1>1, StepSendTime DEF BaseInv
  <2>3. e.timestamp \in Nat /\ clock \in Nat /\ lastSend \in Nat
    OBVIOUS
  <2>4. QED
    BY <1>1, <2>1, <2>2, <2>3
<1>4. \A f \in queue'.entries : f.timestamp >= clock'
  BY <1>1, StepOrder
<1>5. ASSUME NEW d \in queue'.entries, NEW f \in queue'.entries,
             ~IsExternal(d), IsExternal(f)
      PROVE  f.sequence < d.sequence
  <2>1. f \in queue.entries
    BY <1>2, <1>5 DEF IsSent
  <2>2. CASE d \in queue.entries
    BY <1>5, <2>1, <2>2 DEF ScriptInv
  <2>3. CASE d \in added
    <3>1. d.sequence \in Nat /\ d.sequence >= queue.next /\ queue.next \in Nat
      BY <1>2, <2>3 DEF IsSent
    <3>2. f.sequence \in Nat /\ f.sequence < queue.next
      BY <2>1
    <3>3. QED
      BY <3>1, <3>2
  <2>4. QED
    BY <1>2, <2>2, <2>3
<1>6. Scripted(program') /\ NoEnqueuesLeft(program')
  BY DEF ScriptInv
<1>7. QED
  BY <1>3, <1>4, <1>5, <1>6 DEF ScriptInv, Scripted, NoEnqueuesLeft, IsExternal

LEMMA ProbeKeepsScript ==
    ASSUME BaseInv, ScriptInv, InjectProbe, NoEnqueuesLeft(program), program' = program,
           late' = late
    PROVE  ScriptInv' /\ clock' >= clock
<1>1. /\ clock' = clock + 1 /\ lastSend' = lastSend
      /\ queue'.entries = {Entry(clock + 1, queue.next, TickAllEvent)}
  BY DEF InjectProbe, IsEmpty, Insert, actorVars
<1>2. clock \in Nat /\ lastSend \in Nat /\ lastSend <= clock
  BY BaseFacts DEF ScriptInv
<1>3. \A e \in queue'.entries : e.timestamp = clock + 1 /\ IsExternal(e)
  BY <1>1 DEF Entry, IsExternal, TickAllEvent
<1>4. Scripted(program') /\ NoEnqueuesLeft(program')
  BY DEF ScriptInv
<1>5. QED
  BY <1>1, <1>2, <1>3, <1>4 DEF ScriptInv, Scripted, NoEnqueuesLeft, IsExternal

LEMMA ScriptPreserved ==
    ASSUME BaseInv, ScriptInv, [HarnessNext]_harnessVars
    PROVE  ScriptInv' /\ clock' >= clock
<1> USE BaseFacts
<1>1. ASSUME NEW event \in ExternalEvent, NEW t \in Nat, MakesEnqueue(event, t)
      PROVE  ScriptInv' /\ clock' >= clock
  <2>1. program # <<>> /\ Enqueues(Head(program)) /\ program' = Tail(program)
    BY <1>1 DEF MakesEnqueue, EnqueueCall, Enqueues
  <2>2. ~NoEnqueuesLeft(program)
    BY <2>1, TailOfCalls DEF NoEnqueuesLeft
  <2>3. at = "caller" /\ clock = 0 /\ \A e \in queue.entries : IsExternal(e)
    BY <2>2 DEF ScriptInv
  <2>4. /\ queue'.entries = queue.entries \cup {Entry(t, queue.next, event)}
        /\ clock' = clock /\ lastSend' = lastSend /\ at' = at
        /\ late' = (late \/ t < clock)
    BY <1>1 DEF MakesEnqueue, EnqueueExternal, Insert, actorVars, controlVars
  <2>5. \A e \in queue'.entries : IsExternal(e) /\ e.timestamp >= 0
    <3>1. /\ IsExternal(Entry(t, queue.next, event))
          /\ Entry(t, queue.next, event).timestamp = t
      BY DEF IsExternal, Entry, ExternalEvent, StartEvent, TickAllEvent
    <3>2. \A e \in queue.entries : e.timestamp >= 0
      BY <2>3 DEF ScriptInv
    <3>3. QED
      BY <2>3, <2>4, <3>1, <3>2
  <2>6. Scripted(program')
    BY <2>1, ScriptedTail DEF ScriptInv
  <2>7. ~late'
    <3>1. ~late /\ ~(t < clock)
      BY <2>3 DEF ScriptInv
    <3>2. QED
      BY <2>4, <3>1, Zenon
  <2>8. QED
    BY <2>3, <2>4, <2>5, <2>6, <2>7 DEF ScriptInv, Scripted, IsExternal
<1>2. CASE MakesOther
  <2>1. Scripted(program') /\ NoEnqueuesLeft(program')
    BY <1>2, ScriptedTail DEF MakesOther, ScriptInv
  <2>2. queue' = queue /\ clock' = clock /\ lastSend' = lastSend /\ late' = late
    BY <1>2 DEF MakesOther, simulatorVars, actorVars
  <2>3. QED
    BY <2>1, <2>2 DEF ScriptInv, Scripted, NoEnqueuesLeft, IsExternal
<1>3. CASE InCall /\ UNCHANGED <<program, late>>
  <2>1. NoEnqueuesLeft(program) /\ program' = program /\ late' = late
    BY <1>3, InCallMoves DEF ScriptInv
  <2>2. CASE UNCHANGED simulatorVars
    <3>1. queue' = queue /\ clock' = clock /\ lastSend' = lastSend
      BY <2>2 DEF simulatorVars, actorVars
    <3>2. QED
      BY <2>1, <3>1 DEF ScriptInv, Scripted, NoEnqueuesLeft, IsExternal
  <2>3. QED
    BY <1>3, <2>1, <2>2, InCallMoves, StepKeepsScript, ProbeKeepsScript
<1>4. CASE UNCHANGED harnessVars
  BY <1>4 DEF harnessVars, drainVars, simulatorVars, actorVars, controlVars, ScriptInv,
              Scripted, NoEnqueuesLeft, IsExternal
<1>5. QED
  BY <1>1, <1>2, <1>3, <1>4, HarnessMoves

LEMMA ScriptInvHolds ==
    ASSUME \A p \in Programs : Scripted(p)
    PROVE  HarnessSpec => [](BaseInv /\ ScriptInv)
<1>1. HarnessInit => ScriptInv
  <2> SUFFICES ASSUME HarnessInit PROVE ScriptInv
    OBVIOUS
  <2>1. /\ Scripted(program) /\ at = "caller" /\ clock = 0 /\ lastSend = 0
        /\ queue.entries = {} /\ ~late
    BY DEF HarnessInit, DrainInit, Init, NewQueue
  <2>2. QED
    BY <2>1 DEF ScriptInv
<1>2. BaseInv /\ ScriptInv /\ [HarnessNext]_harnessVars => ScriptInv'
  BY ScriptPreserved
<1>3. QED
  BY <1>1, <1>2, BaseInvHolds, PTL DEF HarnessSpec

\* A program that enqueues all its events first, as every test and scenario does,
\* sees the clock go forward only.
THEOREM ScriptedTimeGoesForward ==
    ASSUME \A p \in Programs : Scripted(p)
    PROVE  HarnessSpec => [][clock' >= clock]_harnessVars
<1>1. BaseInv /\ ScriptInv /\ [HarnessNext]_harnessVars => [clock' >= clock]_harnessVars
  BY ScriptPreserved
<1>2. QED
  BY <1>1, ScriptInvHolds, PTL DEF HarnessSpec

\* Its external events come before the deliveries of their time.
THEOREM ScriptGoesFirst ==
    ASSUME \A p \in Programs : Scripted(p)
    PROVE  HarnessSpec => ScriptComesFirst
<1>1. ASSUME BaseInv, ScriptInv, [HarnessNext]_harnessVars,
             NEW e \in queue.entries, Takes(e), ~IsExternal(e),
             NEW f \in queue.entries, IsExternal(f)
      PROVE  e.timestamp < f.timestamp
  <2>1. PICK d \in queue.entries : IsEarliest(queue, d) /\ Process(d)
    <3>1. [Next]_simulatorVars /\ e \notin queue'.entries
      BY <1>1, HarnessSteps DEF Takes, BaseInv, HarnessInv, ControlInv
    <3>2. QED
      BY <3>1 DEF Next, Step, InjectProbe, EnqueueExternal, Insert, simulatorVars
  <2>2. e = d
    BY <1>1, <2>1, StepEntries, BaseFacts DEF Takes
  <2>3. Precedes(e, f)
    BY <1>1, <2>1, <2>2 DEF IsEarliest
  <2>4. f.sequence < e.sequence
    BY <1>1 DEF ScriptInv
  <2>5. QED
    BY <1>1, <2>3, <2>4, BaseFacts DEF Precedes
<1>2. BaseInv /\ ScriptInv /\ [HarnessNext]_harnessVars =>
        [\A e \in queue.entries :
            Takes(e) /\ ~IsExternal(e) =>
                \A f \in queue.entries : IsExternal(f) => e.timestamp < f.timestamp]_harnessVars
  BY <1>1
<1>3. QED
  BY <1>2, ScriptInvHolds, PTL DEF HarnessSpec, ScriptComesFirst

-----------------------------------------------------------------------------
(* A probe without an answer *)

\* What TwoPhaseCommit and Simulator have as theorems.
Inherited ==
    /\ BaseInv
    /\ TPC!AwaitsSomeone
    /\ TPC!Untouched
    /\ ObservationsMatchDurableState

LEMMA InheritedHolds == HarnessSpec => []Inherited
<1>1. HarnessSpec => TPC!Spec
  BY ProgramsSeeTwoPhaseCommit, PTL DEF ImplementsTwoPhaseCommit
<1>2. TPC!Spec => [](TPC!AwaitsSomeone /\ TPC!Untouched)
  BY TPC!SomeoneIsAwaited, TPC!UntouchedHolds,
     CoordinatorIsNoNode, AbortBiasAssumption, VoteAbortBiasAssumption, PTL DEF Bias, TPC!Bias
<1>3. HarnessSpec => []ObservationsMatchDurableState
  BY ProgramsUseTheSimulator, ObservationsAreDurable, PTL
<1>4. /\ BaseInv /\ ObservationsMatchDurableState
      /\ TPC!AwaitsSomeone /\ TPC!Untouched
      => Inherited
  BY DEF Inherited
<1>5. QED
  BY <1>1, <1>2, <1>3, <1>4, BaseInvHolds, PTL

\* A coordinator that still waits for a node and has waited long enough sends.
LEMMA TickSilent ==
    ASSUME Nodes # {}, NEW c, c.acks \subseteq Nodes,
           c.phase \in CoordinatorPhase,
           c.phase = "Voting" => \E n \in Nodes : c.votes[n] = None,
           c.phase = "AwaitingAcks" => c.acks # Nodes,
           NEW elapsed \in BOOLEAN, NEW o \in CoordinatorTick(c, elapsed), o.sent = {}
    PROVE  /\ o.state = c
           /\ \/ c.phase \in {"Waiting", "Done"}
              \/ c.phase \in {"Voting", "AwaitingAcks"} /\ ~elapsed
<1>1. ASSUME NEW d, d.phase = "Decided", o = TrySendDecision(d) PROVE FALSE
  BY <1>1 DEF TrySendDecision, Outcome
<1>2. CASE c.phase = "Voting"
  <2>1. PICK n \in Nodes : c.votes[n] = None
    BY <1>2
  <2>2. o # TrySendDecision(Decide(c, "Abort"))
    <3>1. \A d : o = TrySendDecision(Decide(c, d)) => o.sent # {}
      BY DEF TrySendDecision, Outcome, Decide
    <3>2. QED
      BY <3>1
  <2>3. o = Outcome(c, When(elapsed, {PrepareMessage(u) : u \in {w \in Nodes : c.votes[w] = None}}))
    BY <1>2, <2>2 DEF CoordinatorTick, TickVoting
  <2>4. o.state = c /\ ~elapsed
    BY <2>1, <2>3 DEF Outcome, When
  <2>5. QED
    BY <1>2, <2>4
<1>3. CASE c.phase = "AwaitingAcks"
  <2>1. o = Outcome(c, When(elapsed, {DecisionMessage(n, c.decision) : n \in Nodes \ c.acks}))
    BY <1>3 DEF CoordinatorTick, TickAwaitingAcks
  <2>2. PICK n \in Nodes : n \notin c.acks
    BY <1>3
  <2>3. o.state = c /\ ~elapsed
    BY <2>1, <2>2 DEF Outcome, When
  <2>4. QED
    BY <1>3, <2>3
<1>4. CASE c.phase = "Decided"
  BY <1>1, <1>4 DEF CoordinatorTick
<1>5. CASE c.phase \in {"Waiting", "Done"}
  BY <1>5 DEF CoordinatorTick, Outcome
<1>6. QED
  BY <1>2, <1>3, <1>4, <1>5 DEF CoordinatorPhase

\* The probe is alone in the queue; when the queue is empty after it, the
\* coordinator has nothing to do, is not due, or is down.
NothingIsDue ==
    \/ CoordinatorIsQuiescent(coordinator)
    \/ coordinator.phase \in {"Voting", "AwaitingAcks"} /\ ~Elapsed(clock)

ProbeInv ==
    /\ at = "probe" =>
          /\ \E x : queue.entries = {x}
          /\ \A x \in queue.entries : x.event = TickAllEvent /\ x.timestamp = clock
    /\ at = "probed" /\ IsEmpty(queue) /\ IsOperating(CoordinatorId) => NothingIsDue

LEMMA NothingSent ==
    ASSUME NEW e, NEW delivered, NEW sent, Conclude(e, delivered, sent), queue'.entries = {}
    PROVE  sent = {}
BY DEF Conclude, EnqueueOutgoing

LEMMA TicksDiffer ==
    /\ TickAllEvent # StartEvent
    /\ \A m : TickAllEvent # DeliverEvent(m)
    /\ \A a : /\ TickAllEvent # TickEvent(a)
             /\ TickAllEvent # CrashEvent(a) /\ TickAllEvent # RecoverEvent(a)
BY DEF TickAllEvent, StartEvent, DeliverEvent, TickEvent, CrashEvent, RecoverEvent

\* A probe after which the queue is empty has changed nothing, and not because
\* something was due.
LEMMA ProbeSilent ==
    ASSUME Nodes # {}, Inherited, ProbeInv, ProcessProbe, queue'.entries = {}
    PROVE  /\ clock' = clock /\ lastSend' \in {lastSend, 0}
           /\ status' = status
           /\ IsOperating(CoordinatorId) => NothingIsDue'
<1>1. PICK e \in queue.entries : clock' = e.timestamp /\ Process(e)
  BY DEF ProcessProbe, Step
<1>2. e.event = TickAllEvent /\ clock' = clock
  BY <1>1 DEF ProcessProbe, ProbeInv
<1>3. Tick(e) \/ TickInVain(e)
  BY <1>1, <1>2, TicksDiffer DEF Process, StartTransaction, DeliverToCoordinator,
     DeliverToParticipant, Drop, Crash, RecoverInVain, RecoverCoordinator, RecoverParticipant
<1>4. CASE TickInVain(e)
  BY <1>2, <1>4, TicksDiffer DEF TickInVain, actorVars
<1>5. CASE Tick(e)
  <2>1. PICK o \in CoordinatorTick(coordinator, Elapsed(e.timestamp)) :
          /\ coordinator' = o.state
          /\ lastSend' = SendTime(e.timestamp, o.state)
          /\ Conclude(e, {}, o.sent)
    BY <1>5 DEF Tick, CoordinatorReturns
  <2>2. status' = status
    BY <1>5 DEF Tick, CoordinatorReturns
  <2>3. o.sent = {}
    BY <2>1, NothingSent
  <2>4. /\ coordinator' = coordinator
        /\ \/ coordinator.phase \in {"Waiting", "Done"}
           \/ coordinator.phase \in {"Voting", "AwaitingAcks"} /\ ~Elapsed(e.timestamp)
    <3>1. coordinator.acks \subseteq Nodes /\ coordinator.phase \in CoordinatorPhase
      BY DEF Inherited, BaseInv, TypeOK, CoordinatorState
    <3>2. /\ coordinator.phase = "Voting" => \E n \in Nodes : coordinator.votes[n] = None
          /\ coordinator.phase = "AwaitingAcks" => coordinator.acks # Nodes
      BY DEF Inherited, TPC!AwaitsSomeone, None, TPC!None
    <3>3. QED
      BY <2>1, <2>3, <3>1, <3>2, TickSilent, ElapsedTyped
  <2>5. CASE coordinator.phase \in {"Waiting", "Done"}
    <3>1. lastSend' = 0
      BY <2>1, <2>4, <2>5 DEF SendTime
    <3>2. QED
      BY <1>2, <2>2, <2>4, <2>5, <3>1 DEF NothingIsDue, CoordinatorIsQuiescent
  <2>6. CASE coordinator.phase \in {"Voting", "AwaitingAcks"} /\ ~Elapsed(e.timestamp)
    <3>1. lastSend' = lastSend
      BY <2>1, <2>4, <2>6 DEF SendTime
    <3>2. ~Elapsed(clock)'
      BY <1>1, <2>6, <3>1 DEF Elapsed
    <3>3. QED
      BY <1>2, <2>2, <2>4, <2>6, <3>1, <3>2 DEF NothingIsDue
  <2>7. QED
    BY <2>4, <2>5, <2>6
<1>6. QED
  BY <1>3, <1>4, <1>5

LEMMA ProbeProcessed ==
    ASSUME Nodes # {}, Inherited, ProbeInv, ProcessProbe
    PROVE  ProbeInv'
<1> SUFFICES ASSUME queue'.entries = {}, status'[CoordinatorId] = "Operating"
             PROVE  NothingIsDue'
  BY DEF ProbeInv, ProcessProbe, IsEmpty, IsOperating
<1> QED
  BY ProbeSilent DEF IsOperating

LEMMA ProbePreserved ==
    ASSUME Nodes # {}, Inherited, ProbeInv, [HarnessNext]_harnessVars
    PROVE  ProbeInv'
<1>1. CASE BeginProbe
  <2>1. queue'.entries = {Entry(clock + 1, queue.next, TickAllEvent)} /\ clock' = clock + 1
    BY <1>1 DEF BeginProbe, InjectProbe, IsEmpty, Insert
  <2>2. at' = "probe"
    BY <1>1 DEF BeginProbe
  <2>3. \A x \in queue'.entries : x.event = TickAllEvent /\ x.timestamp = clock'
    BY <2>1 DEF Entry
  <2>4. \E x : queue'.entries = {x}
    BY <2>1
  <2>5. QED
    BY <2>2, <2>3, <2>4 DEF ProbeInv
<1>2. CASE ProcessProbe
  BY <1>2, ProbeProcessed
<1>3. CASE at' \notin {"probe", "probed"}
  BY <1>3 DEF ProbeInv
<1>4. CASE UNCHANGED harnessVars
  BY <1>4 DEF harnessVars, drainVars, simulatorVars, actorVars, controlVars, ProbeInv,
              NothingIsDue, Elapsed, IsOperating, IsEmpty
<1>5. MakeCall => at' \notin {"probe", "probed"}
  BY DEF MakeCall, Enqueue, CallRun, CallDrain, controlVars
<1>6. InCall => BeginProbe \/ ProcessProbe \/ at' \notin {"probe", "probed"}
  BY DEF InCall, RunStep, RunReturns, OutOfRounds, DrainStep, FoundQuiescent,
         ProbeAnswered, ProbeUnanswered, Return, Continue, controlVars
<1>7. QED
  BY <1>1, <1>2, <1>3, <1>4, <1>5, <1>6 DEF HarnessNext, Exited

LEMMA ProbeInvHolds ==
    ASSUME Nodes # {}
    PROVE  HarnessSpec => [](Inherited /\ ProbeInv)
<1>1. HarnessInit => ProbeInv
  BY DEF HarnessInit, DrainInit, ProbeInv
<1>2. Inherited /\ ProbeInv /\ [HarnessNext]_harnessVars => ProbeInv'
  BY ProbePreserved
<1>3. QED
  BY <1>1, <1>2, InheritedHolds, PTL DEF HarnessSpec

\* Drain returns "true" either with the system quiescent or after a probe that
\* nobody answered.
LEMMA ReturnsTrue ==
    ASSUME [HarnessNext]_harnessVars, Returns("true")
    PROVE  \/ IsQuiescent'
           \/ /\ at = "probed" /\ IsEmpty(queue) /\ UNCHANGED simulatorVars
              /\ emptyProbes + 1 >= QuiescenceThreshold
<1>1. at \in {"drain", "probed"} /\ at' = "caller" /\ drained' = "true"
  BY DEF Returns
<1>2. OutOfRounds \/ DrainStep \/ FoundQuiescent \/ ProbeUnanswered
  BY <1>1 DEF HarnessNext, Exited, MakeCall, Enqueue, CallRun, CallDrain, InCall, RunStep,
     RunReturns, BeginProbe, ProcessProbe, ProbeAnswered, Continue, harnessVars, drainVars,
     controlVars
<1>3. CASE OutOfRounds
  BY <1>1, <1>3 DEF OutOfRounds, Return
<1>4. CASE DrainStep
  BY <1>1, <1>4 DEF DrainStep, Continue
<1>5. CASE FoundQuiescent
  <2>1. IsQuiescent /\ UNCHANGED simulatorVars
    BY <1>5 DEF FoundQuiescent
  <2>2. QED
    BY <2>1 DEF IsQuiescent, IsOperating, IsEmpty, simulatorVars, actorVars
<1>6. CASE ProbeUnanswered
  BY <1>1, <1>6 DEF ProbeUnanswered, Continue
<1>7. QED
  BY <1>2, <1>3, <1>4, <1>5, <1>6

\* With an empty queue and the coordinator quiescent, everyone is: nobody has
\* voted yet or everyone has decided.
LEMMA CoordinatorAtRest ==
    ASSUME Inherited, IsEmpty(queue), CoordinatorIsQuiescent(coordinator)
    PROVE  IsQuiescent
<1>1. ASSUME NEW n \in Nodes PROVE ParticipantIsQuiescent(participants[n])
  <2>1. TPC!IInv
    BY DEF Inherited, BaseInv, HarnessInv, IInv
  <2>2. CASE coordinator.phase = "Waiting"
    BY <2>2 DEF Inherited, TPC!Untouched, ParticipantIsQuiescent
  <2>3. CASE coordinator.phase = "Done"
    <3>1. participants[n].durableDecision # TPC!None
      BY <2>1, <2>3 DEF TPC!IInv, TPC!AckMeansDecided
    <3>2. TPC!ParticipantRecover(participants[n]) = participants[n]
      BY <2>1 DEF TPC!IInv, TPC!CrashLosesNoVote
    <3>3. participants[n] \in ParticipantState
      BY DEF Inherited, BaseInv, TypeOK
    <3>4. participants[n].phase = "Decided"
      BY <3>1, <3>2, <3>3 DEF TPC!ParticipantRecover, ParticipantState
    <3>5. QED
      BY <3>4 DEF ParticipantIsQuiescent
  <2>4. QED
    BY <2>2, <2>3 DEF CoordinatorIsQuiescent
<1>2. QED
  BY <1>1 DEF IsQuiescent

-----------------------------------------------------------------------------
(* Twelve probes are patience enough *)

\* As long as the program has put no event into the past, nothing in the queue
\* is overdue, and neither is the coordinator's last send ahead of the clock.
PunctualInv ==
    ~late => lastSend <= clock /\ \A e \in queue.entries : e.timestamp >= clock

LEMMA LateStays ==
    ASSUME BaseInv, [HarnessNext]_harnessVars, ~late'
    PROVE  ~late
BY BaseFacts, HarnessMoves DEF MakesEnqueue, MakesOther, harnessVars

LEMMA PunctualPreserved ==
    ASSUME BaseInv, PunctualInv, [HarnessNext]_harnessVars
    PROVE  PunctualInv'
<1> SUFFICES ASSUME ~late'
             PROVE  lastSend' <= clock' /\ \A e \in queue'.entries : e.timestamp >= clock'
  BY DEF PunctualInv
<1> USE BaseFacts
<1>1. lastSend <= clock /\ \A e \in queue.entries : e.timestamp >= clock
  BY LateStays DEF PunctualInv
<1>2. ASSUME NEW event \in ExternalEvent, NEW t \in Nat, MakesEnqueue(event, t)
      PROVE  lastSend' <= clock' /\ \A e \in queue'.entries : e.timestamp >= clock'
  <2>0. ~(t < clock)
    BY <1>2, Zenon DEF MakesEnqueue
  <2>1. t >= clock /\ clock' = clock /\ lastSend' = lastSend
    BY <1>2, <2>0 DEF MakesEnqueue, EnqueueExternal, actorVars
  <2>2. queue'.entries = queue.entries \cup {Entry(t, queue.next, event)}
    BY <1>2 DEF MakesEnqueue, EnqueueExternal, Insert
  <2>3. QED
    BY <1>1, <2>1, <2>2 DEF Entry
<1>3. CASE Step
  <2>1. PICK e \in queue.entries : IsEarliest(queue, e) /\ clock' = e.timestamp /\ Process(e)
    BY <1>3 DEF Step
  <2>2. \A f \in queue'.entries : f.timestamp >= clock'
    BY <2>1, StepOrder
  <2>3. lastSend' = lastSend \/ lastSend' <= e.timestamp
    BY <2>1, StepSendTime DEF BaseInv
  <2>4. e.timestamp >= clock /\ e.timestamp \in Nat /\ clock \in Nat /\ lastSend \in Nat
    BY <1>1
  <2>5. QED
    BY <1>1, <2>1, <2>2, <2>3, <2>4
<1>4. CASE InjectProbe
  <2>1. /\ clock' = clock + 1 /\ lastSend' = lastSend
        /\ queue'.entries = {Entry(clock + 1, queue.next, TickAllEvent)}
    BY <1>4 DEF InjectProbe, IsEmpty, Insert, actorVars
  <2>2. \A e \in queue'.entries : e.timestamp = clock + 1
    BY <2>1 DEF Entry
  <2>3. QED
    BY <1>1, <2>1, <2>2
<1>5. CASE UNCHANGED simulatorVars
  BY <1>1, <1>5 DEF simulatorVars, actorVars
<1>6. QED
  BY <1>2, <1>3, <1>4, <1>5, HarnessMoves, InCallMoves DEF MakesOther, harnessVars, drainVars

\* Each probe that nobody answered has put the clock one unit further from the
\* last send.
PatienceInv ==
    ~late =>
        /\ at = "drain" => lastSend + emptyProbes <= clock
        /\ at = "probe" => lastSend + emptyProbes + 1 <= clock
        /\ at = "probed" /\ IsEmpty(queue) => lastSend + emptyProbes + 1 <= clock

LEMMA Sums ==
    \A s, t, k, c \in Nat :
        /\ k = 0 /\ s <= c => s + k <= c
        /\ t \in {s, 0} /\ s + k + 1 <= c => t + k + 1 <= c
OBVIOUS

LEMMA PatiencePreserved ==
    ASSUME Nodes # {}, Inherited, ProbeInv, PunctualInv', BaseInv', PatienceInv,
           [HarnessNext]_harnessVars
    PROVE  PatienceInv'
<1> SUFFICES ASSUME ~late' PROVE PatienceInv'
  BY DEF PatienceInv
<1>0. ~late
  BY LateStays DEF Inherited
<1>1. /\ clock \in Nat /\ lastSend \in Nat /\ emptyProbes \in Nat
      /\ clock' \in Nat /\ lastSend' \in Nat /\ lastSend' <= clock'
  BY DEF Inherited, BaseInv, TypeOK, HarnessInv, ControlInv, ControlTypeOK, PunctualInv,
         QuiescenceThreshold
<1>2. CASE at' = "drain" /\ emptyProbes' = 0
  <2>1. lastSend' + emptyProbes' <= clock'
    BY <1>1, <1>2, Sums
  <2>2. QED
    BY <1>2, <2>1 DEF PatienceInv
<1>3. CASE at' \notin {"drain", "probe", "probed"}
  BY <1>3 DEF PatienceInv
<1>4. CASE BeginProbe
  <2>1. /\ at = "drain" /\ at' = "probe" /\ clock' = clock + 1
        /\ lastSend' = lastSend /\ emptyProbes' = emptyProbes
    BY <1>4 DEF BeginProbe, InjectProbe, actorVars
  <2>2. QED
    BY <1>0, <1>1, <2>1 DEF PatienceInv
<1>5. CASE ProcessProbe
  <2>1. at = "probe" /\ at' = "probed" /\ emptyProbes' = emptyProbes
    BY <1>5 DEF ProcessProbe
  <2>2. CASE queue'.entries = {}
    <3>1. clock' = clock /\ lastSend' \in {lastSend, 0}
      BY <1>5, <2>2, ProbeSilent
    <3>2. lastSend + emptyProbes + 1 <= clock
      BY <1>0, <2>1 DEF PatienceInv
    <3>3. lastSend' + emptyProbes' + 1 <= clock'
      BY <1>1, <2>1, <3>1, <3>2, Sums
    <3>4. QED
      BY <2>1, <3>3 DEF PatienceInv
  <2>3. CASE queue'.entries # {}
    BY <2>1, <2>3 DEF PatienceInv, IsEmpty
  <2>4. QED
    BY <2>2, <2>3
<1>6. CASE ProbeUnanswered /\ at' = "drain"
  <2>1. /\ at = "probed" /\ IsEmpty(queue) /\ emptyProbes' = emptyProbes + 1
        /\ clock' = clock /\ lastSend' = lastSend
    BY <1>6 DEF ProbeUnanswered, Return, Continue, simulatorVars, actorVars
  <2>2. QED
    BY <1>0, <1>1, <1>6, <2>1 DEF PatienceInv
<1>7. CASE UNCHANGED harnessVars
  BY <1>7 DEF harnessVars, drainVars, simulatorVars, actorVars, controlVars, PatienceInv,
              IsEmpty
<1>8. MakeCall => \/ at' \notin {"drain", "probe", "probed"}
                  \/ at' = "drain" /\ emptyProbes' = 0
  BY DEF MakeCall, Enqueue, CallRun, CallDrain, controlVars
<1>9. InCall => \/ at' \notin {"drain", "probe", "probed"}
                \/ at' = "drain" /\ emptyProbes' = 0
                \/ BeginProbe \/ ProcessProbe
                \/ ProbeUnanswered /\ at' = "drain"
  BY DEF InCall, RunStep, RunReturns, OutOfRounds, DrainStep, FoundQuiescent,
         ProbeAnswered, ProbeUnanswered, Return, Continue, controlVars
<1>10. QED
  BY <1>2, <1>3, <1>4, <1>5, <1>6, <1>7, <1>8, <1>9 DEF HarnessNext, Exited

\* A pass of drain's loop that follows a probe without an answer finds the queue
\* empty and nothing due.
SilentInv ==
    at = "drain" /\ emptyProbes > 0 =>
        IsEmpty(queue) /\ (IsOperating(CoordinatorId) => NothingIsDue)

LEMMA SilentPreserved ==
    ASSUME ProbeInv, SilentInv, [HarnessNext]_harnessVars
    PROVE  SilentInv'
<1>1. CASE ~(at' = "drain" /\ emptyProbes' > 0)
  BY <1>1 DEF SilentInv
<1>2. CASE ProbeUnanswered
  <2>1. /\ IsEmpty(queue) /\ (IsOperating(CoordinatorId) => NothingIsDue)
        /\ UNCHANGED simulatorVars
    BY <1>2 DEF ProbeUnanswered, ProbeInv
  <2>2. QED
    BY <2>1 DEF SilentInv, NothingIsDue, Elapsed, IsOperating, IsEmpty, simulatorVars, actorVars
<1>3. CASE UNCHANGED harnessVars
  BY <1>3 DEF harnessVars, drainVars, simulatorVars, actorVars, controlVars, SilentInv,
              NothingIsDue, Elapsed, IsOperating, IsEmpty
<1>4. MakeCall => at' # "drain" \/ emptyProbes' = 0
  BY DEF MakeCall, Enqueue, CallRun, CallDrain, controlVars
<1>5. InCall => ProbeUnanswered \/ at' # "drain" \/ emptyProbes' = 0
  BY DEF InCall, RunStep, RunReturns, OutOfRounds, DrainStep, FoundQuiescent, BeginProbe,
         ProcessProbe, ProbeAnswered, Return, Continue, controlVars
<1>6. QED
  BY <1>1, <1>2, <1>3, <1>4, <1>5 DEF HarnessNext, Exited

\* What drain knows of every program.
DrainInv == Inherited /\ ProbeInv /\ PunctualInv /\ PatienceInv /\ SilentInv

LEMMA DrainInvHolds ==
    ASSUME Nodes # {}
    PROVE  HarnessSpec => []DrainInv
<1> DEFINE I == PunctualInv /\ PatienceInv /\ SilentInv
<1>1. HarnessInit => I
  BY DEF HarnessInit, DrainInit, Init, NewQueue, PunctualInv, PatienceInv, SilentInv
<1>2. /\ Inherited /\ ProbeInv /\ Inherited' /\ I /\ [HarnessNext]_harnessVars
      => I'
  BY PunctualPreserved, PatiencePreserved, SilentPreserved DEF Inherited
<1>3. Inherited /\ ProbeInv /\ I => DrainInv
  BY DEF DrainInv
<1>4. QED
  BY <1>1, <1>2, <1>3, ProbeInvHolds, PTL DEF HarnessSpec

\* A coordinator with nothing due, while someone is awaited, has not waited for
\* as long as the timeout.
LEMMA AwaitedNotDue ==
    ASSUME Inherited, ~late, NothingIsDue, Awaited # {}, NEW k \in Nat, lastSend + k <= clock
    PROVE  ~Elapsed(clock) /\ k < RetransmitTimeout
<1>1. ~CoordinatorIsQuiescent(coordinator)
  BY DEF Awaited, CoordinatorIsQuiescent
<1>2. ~Elapsed(clock)
  BY <1>1 DEF NothingIsDue
<1>3. clock \in Nat /\ lastSend \in Nat
  BY BaseFacts DEF Inherited
<1>4. QED
  BY <1>2, <1>3, RetransmitTimeoutAssumption DEF Elapsed, SaturatingSub

\* Drain is as patient as its probes are many: for a program that puts no event
\* into the past, a coordinator that waits is heard of within its timeout.
THEOREM PatienceIsEnough ==
    ASSUME Nodes # {}
    PROVE  HarnessSpec => []ProbesAreAnswered
<1>1. ASSUME DrainInv, at = "drain", emptyProbes > 0, IsOperating(CoordinatorId),
             Awaited # {}, ~late
      PROVE  emptyProbes < RetransmitTimeout
  <2>1. NothingIsDue /\ lastSend + emptyProbes <= clock /\ Inherited
    BY <1>1 DEF DrainInv, SilentInv, PatienceInv
  <2>2. emptyProbes \in Nat
    BY <2>1 DEF Inherited, BaseInv, HarnessInv, ControlInv, ControlTypeOK, QuiescenceThreshold
  <2>3. QED
    BY <1>1, <2>1, <2>2, AwaitedNotDue
<1>2. DrainInv => ProbesAreAnswered
  BY <1>1 DEF ProbesAreAnswered
<1>3. QED
  BY <1>2, DrainInvHolds, PTL

TrueExplained ==
    \/ IsQuiescent
    \/ ~IsOperating(CoordinatorId)
    \/ /\ Awaited # {} /\ ~Elapsed(clock)
       /\ late \/ RetransmitTimeout > QuiescenceThreshold

\* Drain's "true" is never a mistake about actors that are up, except when a late
\* event has set the clock back or the timeout is longer than the probes last.
THEOREM DrainIsRight ==
    ASSUME Nodes # {}
    PROVE  HarnessSpec => DrainTrueExplained
<1>1. ASSUME DrainInv, at = "probed", IsEmpty(queue), emptyProbes + 1 >= QuiescenceThreshold
      PROVE  TrueExplained
  <2>1. ~IsOperating(CoordinatorId) \/ NothingIsDue
    BY <1>1 DEF DrainInv, ProbeInv
  <2>2. CASE CoordinatorIsQuiescent(coordinator)
    BY <1>1, <2>2, CoordinatorAtRest DEF TrueExplained, DrainInv
  <2>3. CASE coordinator.phase \in {"Voting", "AwaitingAcks"} /\ ~Elapsed(clock)
    <3>1. coordinator.acks \subseteq Nodes
      BY <1>1 DEF DrainInv, Inherited, BaseInv, TypeOK, CoordinatorState
    <3>2. Awaited # {}
      BY <1>1, <2>3, <3>1 DEF DrainInv, Inherited, TPC!AwaitsSomeone, TPC!None, None, Awaited
    <3>3. ASSUME ~late PROVE RetransmitTimeout > QuiescenceThreshold
      <4>1. /\ emptyProbes \in Nat /\ lastSend \in Nat /\ clock \in Nat
            /\ lastSend + emptyProbes + 1 <= clock
        BY <1>1, <3>3 DEF DrainInv, PatienceInv, Inherited, BaseInv, HarnessInv, ControlInv,
           ControlTypeOK, TypeOK, QuiescenceThreshold
      <4>2. PICK k \in Nat : k = emptyProbes + 1 /\ lastSend + k <= clock
        BY <4>1
      <4>3. k < RetransmitTimeout
        BY <1>1, <2>3, <3>2, <3>3, <4>2, AwaitedNotDue DEF DrainInv, NothingIsDue
      <4>4. QED
        BY <1>1, <4>1, <4>2, <4>3, RetransmitTimeoutAssumption DEF QuiescenceThreshold
    <3>4. QED
      BY <2>3, <3>2, <3>3 DEF TrueExplained
  <2>4. QED
    BY <2>1, <2>2, <2>3 DEF NothingIsDue, TrueExplained
<1>2. ASSUME DrainInv, [HarnessNext]_harnessVars, Returns("true")
      PROVE  TrueExplained'
  <2>1. CASE IsQuiescent'
    BY <2>1 DEF TrueExplained
  <2>2. CASE /\ at = "probed" /\ IsEmpty(queue) /\ UNCHANGED simulatorVars
             /\ emptyProbes + 1 >= QuiescenceThreshold
    <3>1. TrueExplained
      BY <1>1, <1>2, <2>2
    <3>2. late => late'
      BY <1>2, BaseFacts, HarnessMoves DEF DrainInv, Inherited, MakesEnqueue, MakesOther,
         harnessVars
    <3>3. QED
      BY <2>2, <3>1, <3>2 DEF TrueExplained, IsQuiescent, IsEmpty, IsOperating, Awaited,
         Elapsed, simulatorVars, actorVars
  <2>3. QED
    BY <1>2, <2>1, <2>2, ReturnsTrue
<1>3. DrainInv /\ [HarnessNext]_harnessVars =>
        [Returns("true") => TrueExplained']_harnessVars
  BY <1>2
<1>4. [][Returns("true") => TrueExplained']_harnessVars => DrainTrueExplained
  BY DEF DrainTrueExplained, TrueExplained
<1>5. QED
  BY <1>3, <1>4, DrainInvHolds, PTL DEF HarnessSpec

-----------------------------------------------------------------------------
(* Every crash has its recovery ahead *)

\* An external event that is in the queue or in a call still to be made.
Pending(event, t) ==
    \/ \E e \in queue.entries : e.event = event /\ e.timestamp = t
    \/ \E i \in DOMAIN program :
          Enqueues(program[i]) /\ program[i].event = event /\ program[i].at_time = t

RecoveryInv ==
    \A a \in ActorId :
        /\ \A t \in Nat : Pending(CrashEvent(a), t) =>
              \E u \in Nat : u > t /\ Pending(RecoverEvent(a), u)
        /\ ~IsOperating(a) => \E u \in Nat : Pending(RecoverEvent(a), u)

LEMMA SamePending ==
    ASSUME RecoveryInv, status' = status,
           \A a \in ActorId, t \in Nat :
              /\ Pending(CrashEvent(a), t)' = Pending(CrashEvent(a), t)
              /\ Pending(RecoverEvent(a), t)' = Pending(RecoverEvent(a), t)
    PROVE  RecoveryInv'
<1>1. ASSUME NEW a \in ActorId, NEW t \in Nat, Pending(CrashEvent(a), t)'
      PROVE  \E u \in Nat : u > t /\ Pending(RecoverEvent(a), u)'
  BY <1>1 DEF RecoveryInv
<1>2. ASSUME NEW a \in ActorId, ~IsOperating(a)'
      PROVE  \E u \in Nat : Pending(RecoverEvent(a), u)'
  BY <1>2 DEF RecoveryInv, IsOperating
<1>3. QED
  BY <1>1, <1>2 DEF RecoveryInv

LEMMA FaultsDiffer ==
    \A a, b :
        /\ CrashEvent(a) # RecoverEvent(b)
        /\ CrashEvent(a) = CrashEvent(b) => a = b
        /\ RecoverEvent(a) = RecoverEvent(b) => a = b
        /\ CrashEvent(a).kind = "Crash" /\ RecoverEvent(a).kind = "Recover"
        /\ StartEvent # RecoverEvent(b)
        /\ TickAllEvent # RecoverEvent(b) /\ TickEvent(a) # RecoverEvent(b)
        /\ DeliverEvent(a) # RecoverEvent(b)
<1>1. \A a : /\ StartEvent.kind = "StartTransaction" /\ TickAllEvent.kind = "TickAll"
             /\ TickEvent(a).kind = "Tick" /\ DeliverEvent(a).kind = "Deliver"
             /\ CrashEvent(a).kind = "Crash" /\ RecoverEvent(a).kind = "Recover"
             /\ CrashEvent(a).actor = a /\ RecoverEvent(a).actor = a
  BY DEF StartEvent, TickAllEvent, TickEvent, DeliverEvent, CrashEvent, RecoverEvent
<1>2. QED
  BY <1>1

LEMMA StartDiffers ==
    /\ StartEvent # TickAllEvent
    /\ \A a : /\ StartEvent # DeliverEvent(a) /\ StartEvent # TickEvent(a)
             /\ StartEvent # CrashEvent(a) /\ StartEvent # RecoverEvent(a)
    /\ StartEvent.kind # "Deliver"
BY DEF TickAllEvent, StartEvent, DeliverEvent, TickEvent, CrashEvent, RecoverEvent

LEMMA StatusMoves ==
    ASSUME IInv, NEW e \in queue.entries, Process(e),
           NEW a \in ActorId, ~IsOperating(a)'
    PROVE  \/ e.event = CrashEvent(a)
           \/ ~IsOperating(a) /\ e.event # RecoverEvent(a)
<1>1. status \in [ActorId -> {"Operating", "Crashed"}]
  BY Typed
<1>2. ASSUME NEW b \in ActorId, Crash(e, b)
      PROVE  e.event = CrashEvent(a) \/ (~IsOperating(a) /\ e.event # RecoverEvent(a))
  BY <1>1, <1>2, FaultsDiffer DEF Crash, IsOperating
<1>3. ASSUME NEW b \in ActorId, RecoverInVain(e, b)
      PROVE  ~IsOperating(a) /\ e.event # RecoverEvent(a)
  BY <1>3, FaultsDiffer DEF RecoverInVain, IsOperating, actorVars
<1>4. ASSUME NEW b \in ActorId, e.event = RecoverEvent(b),
             status' = [status EXCEPT ![b] = "Operating"]
      PROVE  ~IsOperating(a) /\ e.event # RecoverEvent(a)
  BY <1>1, <1>4, FaultsDiffer DEF IsOperating
<1>5. CASE \/ RecoverCoordinator(e)
           \/ \E n \in Nodes : RecoverParticipant(e, n)
  BY <1>4, <1>5 DEF RecoverCoordinator, RecoverParticipant, ActorId
<1>6. CASE \/ StartTransaction(e) \/ Tick(e) \/ TickInVain(e)
           \/ \E m \in Message :
                 DeliverToCoordinator(e, m) \/ DeliverToParticipant(e, m) \/ Drop(e, m)
  <2>1. status' = status
    BY <1>6 DEF StartTransaction, Tick, TickInVain, DeliverToCoordinator,
       DeliverToParticipant, Drop, CoordinatorReturns, ParticipantReturns, actorVars
  <2>2. e.event # RecoverEvent(a)
    BY <1>6, FaultsDiffer DEF StartTransaction, Tick, TickInVain, DeliverToCoordinator,
       DeliverToParticipant, Drop
  <2>3. QED
    BY <2>1, <2>2 DEF IsOperating
<1>7. QED
  BY <1>2, <1>3, <1>5, <1>6 DEF Process

\* Once all events are enqueued, a step takes one of those that are pending and
\* adds none.
LEMMA StepTakesPending ==
    ASSUME BaseInv, NoEnqueuesLeft(program), program' = program,
           NEW e \in queue.entries, Process(e), NEW event, NEW t
    PROVE  /\ Pending(event, t) <=> \E d \in queue.entries : d.event = event /\ d.timestamp = t
           /\ event.kind # "Deliver" /\ Pending(event, t)' => Pending(event, t)
           /\ Pending(event, t) /\ (e.event # event \/ e.timestamp # t) => Pending(event, t)'
<1>1. PICK added : /\ queue'.entries = (queue.entries \ {e}) \cup added
                   /\ \A d \in added : IsSent(e, d)
  BY BaseFacts, StepEntries
<1>2. /\ Pending(event, t) <=> \E d \in queue.entries : d.event = event /\ d.timestamp = t
      /\ Pending(event, t)' <=> \E d \in queue'.entries : d.event = event /\ d.timestamp = t
  BY DEF Pending, NoEnqueuesLeft, Enqueues
<1>3. event.kind # "Deliver" /\ Pending(event, t)' => Pending(event, t)
  BY <1>1, <1>2 DEF IsSent, IsExternal
<1>4. Pending(event, t) /\ (e.event # event \/ e.timestamp # t) => Pending(event, t)'
  BY <1>1, <1>2
<1>5. QED
  BY <1>2, <1>3, <1>4

LEMMA StepKeepsRecovery ==
    ASSUME BaseInv, RecoveryInv, Step, NoEnqueuesLeft(program), program' = program
    PROVE  RecoveryInv'
<1> USE BaseFacts
<1>1. PICK e \in queue.entries : IsEarliest(queue, e) /\ Process(e)
  BY DEF Step
<1>2. \A event, t :
        Pending(event, t) <=> \E d \in queue.entries : d.event = event /\ d.timestamp = t
  BY <1>1, StepTakesPending
<1>3. ASSUME NEW event, NEW t, event.kind # "Deliver", Pending(event, t)'
      PROVE  Pending(event, t)
  BY <1>1, <1>3, StepTakesPending
<1>4. ASSUME NEW event, NEW t, Pending(event, t), e.event # event \/ e.timestamp # t
      PROVE  Pending(event, t)'
  BY <1>1, <1>4, StepTakesPending
<1>5. ASSUME NEW a \in ActorId, NEW t \in Nat, Pending(CrashEvent(a), t)'
      PROVE  \E u \in Nat : u > t /\ Pending(RecoverEvent(a), u)'
  <2>1. Pending(CrashEvent(a), t)
    BY <1>3, <1>5, FaultsDiffer
  <2>2. PICK u \in Nat : u > t /\ Pending(RecoverEvent(a), u)
    BY <2>1 DEF RecoveryInv
  <2>3. PICK d \in queue.entries : d.event = CrashEvent(a) /\ d.timestamp = t
    BY <1>2, <2>1
  <2>4. e.timestamp <= t
    BY <1>1, <2>3 DEF IsEarliest, Precedes
  <2>5. e.timestamp # u
    BY <2>2, <2>4
  <2>6. QED
    BY <1>4, <2>2, <2>5
<1>6. ASSUME NEW a \in ActorId, ~IsOperating(a)'
      PROVE  \E u \in Nat : Pending(RecoverEvent(a), u)'
  <2>1. CASE e.event = CrashEvent(a)
    <3>1. Pending(CrashEvent(a), e.timestamp) /\ e.timestamp \in Nat
      BY <1>2, <2>1
    <3>2. PICK u \in Nat : Pending(RecoverEvent(a), u)
      BY <3>1 DEF RecoveryInv
    <3>3. QED
      BY <1>4, <2>1, <3>2, FaultsDiffer
  <2>2. CASE ~IsOperating(a) /\ e.event # RecoverEvent(a)
    <3>1. PICK u \in Nat : Pending(RecoverEvent(a), u)
      BY <2>2 DEF RecoveryInv
    <3>2. QED
      BY <1>4, <2>2, <3>1
  <2>3. QED
    BY <1>1, <1>6, <2>1, <2>2, StatusMoves
<1>7. QED
  BY <1>5, <1>6 DEF RecoveryInv

\* A call moves its event from the program to the queue.
LEMMA EnqueueKeepsPending ==
    ASSUME BaseInv, NEW event, NEW t, MakesEnqueue(event, t), NEW ev, NEW u
    PROVE  Pending(ev, u)' = Pending(ev, u)
<1>1. /\ program # <<>> /\ Head(program) = EnqueueCall(event, t)
      /\ program' = Tail(program)
      /\ queue'.entries = queue.entries \cup {Entry(t, queue.next, event)}
  BY DEF MakesEnqueue, EnqueueExternal, Insert
<1>2. CASE Pending(ev, u)
  <2>1. CASE \E d \in queue.entries : d.event = ev /\ d.timestamp = u
    BY <1>1, <1>2, <2>1 DEF Pending
  <2>2. CASE \E i \in DOMAIN program : /\ Enqueues(program[i]) /\ program[i].event = ev
                                       /\ program[i].at_time = u
    <3>1. PICK i \in DOMAIN program : /\ Enqueues(program[i]) /\ program[i].event = ev
                                      /\ program[i].at_time = u
      BY <2>2
    <3>2. CASE i = 1
      <4>1. ev = event /\ u = t
        BY <1>1, <3>1, <3>2, TailOfCalls, BaseFacts DEF EnqueueCall
      <4> DEFINE d == Entry(t, queue.next, event)
      <4>2. d \in queue'.entries /\ d.event = event /\ d.timestamp = t
        BY <1>1 DEF Entry
      <4> HIDE DEF d
      <4>3. QED
        BY <1>2, <4>1, <4>2 DEF Pending
    <3>3. CASE i # 1
      <4>1. /\ i - 1 \in DOMAIN Tail(program) /\ Tail(program)[i - 1] = program[i]
        BY <1>1, <3>1, <3>3, TailOfCalls, BaseFacts
      <4>2. QED
        BY <1>1, <1>2, <3>1, <4>1 DEF Pending
    <3>4. QED
      BY <3>2, <3>3
  <2>3. QED
    BY <1>2, <2>1, <2>2 DEF Pending
<1>3. CASE Pending(ev, u)'
  <2>1. CASE \E d \in queue.entries : d.event = ev /\ d.timestamp = u
    BY <1>3, <2>1 DEF Pending
  <2>2. CASE ev = event /\ u = t
    <3>1. 1 \in DOMAIN program /\ program[1] = EnqueueCall(event, t)
      BY <1>1, TailOfCalls, BaseFacts
    <3>2. QED
      BY <1>3, <2>2, <3>1 DEF Pending, EnqueueCall, Enqueues
  <2>3. CASE \E i \in DOMAIN program' : /\ Enqueues(program'[i]) /\ program'[i].event = ev
                                        /\ program'[i].at_time = u
    <3>1. PICK i \in DOMAIN program' : /\ Enqueues(program'[i]) /\ program'[i].event = ev
                                       /\ program'[i].at_time = u
      BY <2>3
    <3>2. i + 1 \in DOMAIN program /\ program[i + 1] = program'[i]
      BY <1>1, <3>1, TailOfCalls, BaseFacts
    <3>3. QED
      BY <1>3, <3>1, <3>2 DEF Pending
  <2>4. QED
    BY <1>1, <1>3, <2>1, <2>2, <2>3 DEF Pending, Entry
<1>4. QED
  BY <1>2, <1>3 DEF Pending

\* And nothing but a call or a step touches them.
LEMMA OthersKeepPending ==
    ASSUME BaseInv, ScriptInv, [HarnessNext]_harnessVars, ~Step,
           NEW ev, ev # TickAllEvent, NEW u
    PROVE  Pending(ev, u)' = Pending(ev, u) /\ UNCHANGED actorVars
<1>1. ASSUME NEW event \in ExternalEvent, NEW t \in Nat, MakesEnqueue(event, t)
      PROVE  Pending(ev, u)' = Pending(ev, u) /\ UNCHANGED actorVars
  BY <1>1, EnqueueKeepsPending DEF MakesEnqueue, EnqueueExternal
<1>2. ASSUME NoEnqueuesLeft(program), NoEnqueuesLeft(program'),
             \A e \in queue.entries : e \in queue'.entries,
             \A e \in queue'.entries \ queue.entries : e.event = TickAllEvent
      PROVE  Pending(ev, u)' = Pending(ev, u)
  BY <1>2 DEF Pending, NoEnqueuesLeft
<1>3. CASE MakesOther
  <2>1. NoEnqueuesLeft(program) /\ NoEnqueuesLeft(program')
    BY <1>3, BaseFacts, ScriptedTail DEF MakesOther, ScriptInv
  <2>2. UNCHANGED <<actorVars, queue>>
    BY <1>3 DEF MakesOther, simulatorVars
  <2>3. QED
    BY <1>2, <2>1, <2>2
<1>4. CASE InCall /\ UNCHANGED program
  <2>1. NoEnqueuesLeft(program) /\ program' = program
    BY <1>4, InCallMoves DEF ScriptInv
  <2>2. CASE InjectProbe
    <3>1. UNCHANGED actorVars
      BY <2>2 DEF InjectProbe
    <3>2. queue'.entries = queue.entries \cup {Entry(clock + 1, queue.next, TickAllEvent)}
      BY <2>2 DEF InjectProbe, Insert
    <3>3. QED
      BY <1>2, <2>1, <3>1, <3>2 DEF Entry, NoEnqueuesLeft
  <2>3. CASE UNCHANGED simulatorVars
    BY <1>2, <2>1, <2>3 DEF simulatorVars, NoEnqueuesLeft
  <2>4. QED
    BY <1>4, <2>2, <2>3, InCallMoves
<1>5. CASE UNCHANGED harnessVars
  BY <1>5 DEF harnessVars, drainVars, simulatorVars, Pending
<1>6. QED
  BY <1>1, <1>3, <1>4, <1>5, HarnessMoves, BaseFacts

\* A program that steps has nothing more to enqueue.
LEMMA StepsAreInCalls ==
    ASSUME BaseInv, ScriptInv, [HarnessNext]_harnessVars, Step
    PROVE  NoEnqueuesLeft(program) /\ program' = program
<1>1. PICK e \in queue.entries : e \notin queue'.entries
  BY BaseFacts, StepOrder DEF Step
<1>2. ~UNCHANGED harnessVars /\ ~MakesOther
  BY <1>1 DEF harnessVars, drainVars, simulatorVars, MakesOther
<1>3. \A event, t : ~MakesEnqueue(event, t)
  BY <1>1 DEF MakesEnqueue, EnqueueExternal, Insert
<1>4. InCall /\ program' = program
  BY <1>2, <1>3, HarnessMoves, BaseFacts
<1>5. QED
  BY <1>4, InCallMoves DEF ScriptInv

LEMMA RecoveryPreserved ==
    ASSUME BaseInv, ScriptInv, RecoveryInv, [HarnessNext]_harnessVars
    PROVE  RecoveryInv'
<1>1. CASE Step
  BY <1>1, StepsAreInCalls, StepKeepsRecovery
<1>2. CASE ~Step
  <2>1. \A a : CrashEvent(a) # TickAllEvent /\ RecoverEvent(a) # TickAllEvent
    BY TicksDiffer
  <2>2. CoordinatorId \in ActorId
    BY DEF ActorId
  <2>3. status' = status
    BY <1>2, <2>1, <2>2, OthersKeepPending DEF actorVars
  <2>4. QED
    BY <1>2, <2>1, <2>3, OthersKeepPending, SamePending
<1>3. QED
  BY <1>1, <1>2

-----------------------------------------------------------------------------
(* Programs that recover everyone *)

\* The programs of test_termination and test_termination_with_crashes and the
\* scenarios are Patient.
Patient ==
    /\ Nodes # {}
    /\ RetransmitTimeout <= QuiescenceThreshold
    /\ \A p \in Programs : Scripted(p) /\ RecoversAll(p)

PatientInv == Inherited /\ ProbeInv /\ ScriptInv /\ PatienceInv /\ RecoveryInv

LEMMA PatientInvHolds ==
    ASSUME Patient
    PROVE  HarnessSpec => []PatientInv
<1>1. HarnessInit => RecoveryInv
  <2> SUFFICES ASSUME HarnessInit PROVE RecoveryInv
    OBVIOUS
  <2>1. /\ queue.entries = {} /\ RecoversAll(program)
        /\ program \in Seq(Call) /\ \A a \in ActorId : IsOperating(a)
    BY ProgramsAssumption
       DEF HarnessInit, DrainInit, Init, NewQueue, IsOperating, Patient
  <2>2. ASSUME NEW a \in ActorId, NEW t \in Nat, Pending(CrashEvent(a), t)
        PROVE  \E u \in Nat : u > t /\ Pending(RecoverEvent(a), u)
    <3>1. PICK i \in DOMAIN program : /\ Enqueues(program[i])
                                      /\ program[i].event = CrashEvent(a)
                                      /\ program[i].at_time = t
      BY <2>1, <2>2 DEF Pending
    <3>2. PICK j \in DOMAIN program : /\ Enqueues(program[j])
                                      /\ program[j].event = RecoverEvent(a)
                                      /\ program[j].at_time > t
      BY <2>1, <3>1 DEF RecoversAll
    <3>3. program[j] \in Call
      BY <2>1
    <3>4. program[j].at_time \in Nat
      BY <3>2, <3>3 DEF Call, RunCall, DrainCall, Enqueues
    <3>5. QED
      BY <3>2, <3>4 DEF Pending
  <2>3. QED
    BY <2>1, <2>2 DEF RecoveryInv
<1>2. BaseInv /\ ScriptInv /\ RecoveryInv /\ [HarnessNext]_harnessVars => RecoveryInv'
  BY RecoveryPreserved
<1>3. HarnessSpec => []DrainInv /\ [](BaseInv /\ ScriptInv)
  BY DrainInvHolds, ScriptInvHolds DEF Patient
<1>4. DrainInv /\ ScriptInv /\ RecoveryInv => PatientInv
  BY DEF PatientInv, DrainInv
<1>5. QED
  BY <1>1, <1>2, <1>3, <1>4, PTL DEF HarnessSpec

\* With the program out of calls that enqueue and the queue empty, nobody is down.
LEMMA EveryoneIsUp ==
    ASSUME RecoveryInv, NoEnqueuesLeft(program), IsEmpty(queue)
    PROVE  \A a \in ActorId : IsOperating(a)
BY DEF RecoveryInv, NoEnqueuesLeft, IsEmpty, Pending

\* When drain returns "true", the queue is empty, all is quiescent and all are up.
LEMMA ReturnsQuiescent ==
    ASSUME Patient, PatientInv, PatientInv', [HarnessNext]_harnessVars, Returns("true")
    PROVE  IsQuiescent' /\ \A a \in ActorId : IsOperating(a)'
<1>1. NoEnqueuesLeft(program) /\ program' = program
  <2>1. at \in {"drain", "probed"} /\ at' = "caller"
    BY DEF Returns
  <2>2. ~MakesOther /\ ~UNCHANGED harnessVars
    BY <2>1 DEF MakesOther, harnessVars, drainVars, controlVars
  <2>3. \A event, t : ~MakesEnqueue(event, t)
    BY <2>1 DEF MakesEnqueue
  <2>4. program \in Seq(Call)
    BY BaseFacts DEF PatientInv, Inherited
  <2>5. program' = program
    BY <2>2, <2>3, <2>4, HarnessMoves
  <2>6. QED
    BY <2>1, <2>5 DEF PatientInv, ScriptInv
<1>2. IsQuiescent'
  <2>1. CASE /\ at = "probed" /\ IsEmpty(queue) /\ UNCHANGED simulatorVars
             /\ emptyProbes + 1 >= QuiescenceThreshold
    <3>1. /\ clock \in Nat /\ lastSend \in Nat /\ emptyProbes \in Nat
          /\ RetransmitTimeout \in Nat /\ RetransmitTimeout <= 12
      BY RetransmitTimeoutAssumption
         DEF PatientInv, Inherited, BaseInv, TypeOK, HarnessInv, ControlInv, ControlTypeOK,
             QuiescenceThreshold, Patient
    <3>2. lastSend + emptyProbes + 1 <= clock
      BY <2>1 DEF PatientInv, PatienceInv, ScriptInv
    <3>3. Elapsed(clock)
      BY <2>1, <3>1, <3>2 DEF Elapsed, SaturatingSub, QuiescenceThreshold
    <3>4. IsOperating(CoordinatorId)
      BY <1>1, <2>1, EveryoneIsUp DEF PatientInv, ActorId
    <3>5. CoordinatorIsQuiescent(coordinator)
      BY <2>1, <3>3, <3>4 DEF PatientInv, ProbeInv, NothingIsDue
    <3>6. IsQuiescent
      BY <2>1, <3>5, CoordinatorAtRest DEF PatientInv
    <3>7. QED
      BY <2>1, <3>6 DEF IsQuiescent, IsOperating, IsEmpty, simulatorVars, actorVars
  <2>2. QED
    BY <2>1, ReturnsTrue
<1>3. NoEnqueuesLeft(program)' /\ IsEmpty(queue)' /\ RecoveryInv'
  BY <1>1, <1>2 DEF IsQuiescent, NoEnqueuesLeft, PatientInv
<1>4. QED
  BY <1>2, <1>3 DEF RecoveryInv, NoEnqueuesLeft, IsEmpty, Pending

\* Drain's "true" is what it says for every program that enqueues its events first
\* and recovers whom it crashes, if the timeout is not longer than drain waits:
\* twelve probes in a row, one unit of time apart, reach it.
THEOREM DrainIsReliable ==
    ASSUME Patient
    PROVE  HarnessSpec => DrainReportsQuiescence
<1>1. PatientInv /\ PatientInv' /\ [HarnessNext]_harnessVars =>
        [Returns("true") => IsQuiescent']_harnessVars
  BY ReturnsQuiescent
<1>2. QED
  BY <1>1, PatientInvHolds, PTL DEF HarnessSpec, DrainReportsQuiescence

LEMMA StartIsKept ==
    ASSUME [HarnessNext]_harnessVars, program \in Seq(Call), started
    PROVE  started'
<1>1. [Next]_simulatorVars
  BY HarnessSteps
<1>2. ASSUME NEW e, Process(e) PROVE started'
  BY <1>2 DEF Process, StartTransaction, Tick, TickInVain, DeliverToCoordinator,
     DeliverToParticipant, Drop, Crash, RecoverInVain, RecoverCoordinator,
     RecoverParticipant, ParticipantReturns, actorVars
<1>3. QED
  BY <1>1, <1>2 DEF Next, Step, InjectProbe, EnqueueExternal, simulatorVars, actorVars

\* What it then means that all is quiescent and all are up.
AllIsDone ==
    /\ coordinator.phase = "Done"
    /\ AllDecided(observations)
    /\ \A n \in Nodes : participants[n].decision = coordinator.durable

LEMMA QuiescentMeansDone ==
    Inherited /\ IsQuiescent /\ started /\ IsOperating(CoordinatorId) => AllIsDone
<1> SUFFICES ASSUME Inherited, IsQuiescent, started, IsOperating(CoordinatorId)
             PROVE  AllIsDone
  OBVIOUS
<1>1. TPC!IInv
  BY DEF Inherited, BaseInv, HarnessInv, IInv
<1>2. coordinator.phase = "Done"
  BY <1>1 DEF IsQuiescent, CoordinatorIsQuiescent, TPC!IInv, TPC!StartedIsUnderWay
<1>3. ASSUME NEW n \in Nodes
      PROVE  /\ observations.participantDecisions[n] # None
             /\ participants[n].decision = coordinator.durable
  <2>1. participants[n].durableDecision # None
    BY <1>1, <1>2 DEF TPC!IInv, TPC!AckMeansDecided, TPC!None, None
  <2>2. participants[n] \in ParticipantState
    BY DEF Inherited, BaseInv, TypeOK
  <2>3. participants[n].decision = participants[n].durableDecision
    <3>1. TPC!ParticipantRecover(participants[n]) = participants[n]
      BY <1>1 DEF TPC!IInv, TPC!CrashLosesNoVote
    <3>2. TPC!ParticipantRecover(participants[n]).decision = participants[n].durableDecision
      BY <2>2 DEF TPC!ParticipantRecover, ParticipantState
    <3>3. QED
      BY <3>1, <3>2
  <2>4. participants[n].decision \in Decision
    BY <2>1, <2>2, <2>3 DEF ParticipantState
  <2>5. participants[n].decision = coordinator.durable
    BY <1>1, <2>4 DEF TPC!IInv, TPC!DecisionsNeverConflict, TPC!Decision, Decision
  <2>6. observations.participantDecisions[n] = participants[n].durableDecision
    BY DEF Inherited, ObservationsMatchDurableState
  <2>7. QED
    BY <2>1, <2>5, <2>6
<1>4. QED
  BY <1>2, <1>3 DEF AllIsDone, AllDecided

\* What the termination tests assert after drain: everyone has decided, and they
\* have all decided what the coordinator did.
THEOREM DrainedIsDecided ==
    ASSUME Patient
    PROVE  HarnessSpec => DrainedMeansDecided
<1>1. ASSUME PatientInv, PatientInv', [HarnessNext]_harnessVars, Returns("true"), started
      PROVE  AllIsDone'
  <2>1. IsQuiescent' /\ IsOperating(CoordinatorId)'
    BY <1>1, ReturnsQuiescent DEF ActorId
  <2>2. started'
    BY <1>1, StartIsKept, BaseFacts DEF PatientInv, Inherited
  <2>3. Inherited'
    BY <1>1 DEF PatientInv
  <2>4. QED
    BY <2>1, <2>2, <2>3, QuiescentMeansDone, PTL
<1>2. PatientInv /\ PatientInv' /\ [HarnessNext]_harnessVars =>
        [Returns("true") /\ started => AllIsDone']_harnessVars
  BY <1>1
<1>3. [][Returns("true") /\ started => AllIsDone']_harnessVars => DrainedMeansDecided
  BY DEF DrainedMeansDecided, AllIsDone
<1>4. QED
  BY <1>2, <1>3, PatientInvHolds, PTL DEF HarnessSpec

-----------------------------------------------------------------------------
(* What such programs leave behind *)

\* Drain's "true" stays true: there is nothing left that could happen.
FinishInv ==
    /\ NoEnqueuesLeft(program) \/ drained = None
    /\ drained = "true" => IsQuiescent /\ \A a \in ActorId : IsOperating(a)

LEMMA ResultMoves ==
    ASSUME InCall, drained' # drained, drained' = "true"
    PROVE  Returns("true")
BY DEF InCall, RunStep, RunReturns, OutOfRounds, DrainStep, FoundQuiescent, BeginProbe,
       ProcessProbe, ProbeAnswered, ProbeUnanswered, Return, Continue, controlVars, Returns

LEMMA FinishPreserved ==
    ASSUME Patient, PatientInv, PatientInv', FinishInv, [HarnessNext]_harnessVars
    PROVE  FinishInv'
<1>1. BaseInv /\ ScriptInv /\ program \in Seq(Call)
  BY BaseFacts DEF PatientInv, Inherited
<1>2. ASSUME NEW event \in ExternalEvent, NEW t \in Nat, MakesEnqueue(event, t)
      PROVE  drained = None /\ drained' = None
  <2>1. ~NoEnqueuesLeft(program)
    BY <1>1, <1>2, TailOfCalls DEF MakesEnqueue, EnqueueCall, NoEnqueuesLeft, Enqueues
  <2>2. QED
    BY <1>2, <2>1 DEF FinishInv, MakesEnqueue, controlVars
<1>3. ASSUME MakesOther
      PROVE  /\ NoEnqueuesLeft(program') /\ UNCHANGED simulatorVars
             /\ drained' = None \/ drained' = drained
  BY <1>1, <1>3, ScriptedTail DEF MakesOther, ScriptInv, CallRun, CallDrain
<1>4. ASSUME InCall, program' = program
      PROVE  NoEnqueuesLeft(program) /\ NoEnqueuesLeft(program')
  BY <1>1, <1>4, InCallMoves DEF ScriptInv
<1>5. NoEnqueuesLeft(program') \/ drained' = None
  BY <1>1, <1>2, <1>3, <1>4, HarnessMoves
     DEF FinishInv, harnessVars, drainVars, controlVars
<1>6. ASSUME drained' = "true" PROVE IsQuiescent' /\ \A a \in ActorId : IsOperating(a)'
  <2>1. CASE drained = "true"
    <3>1. IsQuiescent /\ \A a \in ActorId : IsOperating(a)
      BY <2>1 DEF FinishInv
    <3>2. ~Step /\ ~BeginProbe
      BY <3>1 DEF IsQuiescent, IsEmpty, Step, BeginProbe
    <3>3. InCall => UNCHANGED simulatorVars
      BY <3>2 DEF InCall, RunStep, RunReturns, OutOfRounds, DrainStep, FoundQuiescent,
         ProcessProbe, ProbeAnswered, ProbeUnanswered
    <3>4. \A event \in ExternalEvent, t \in Nat : ~MakesEnqueue(event, t)
      BY <1>2, <2>1 DEF None
    <3>5. UNCHANGED simulatorVars
      BY <1>1, <1>3, <3>3, <3>4, HarnessMoves DEF harnessVars, drainVars
    <3>6. QED
      BY <3>1, <3>5 DEF IsQuiescent, IsEmpty, IsOperating, simulatorVars, actorVars
  <2>2. CASE drained # "true"
    <3>1. InCall
      BY <1>1, <1>2, <1>3, <1>6, <2>2, HarnessMoves
         DEF None, harnessVars, drainVars, controlVars
    <3>2. Returns("true")
      BY <1>6, <2>2, <3>1, ResultMoves
    <3>3. QED
      BY <3>2, ReturnsQuiescent
  <2>3. QED
    BY <2>1, <2>2
<1>7. QED
  BY <1>5, <1>6 DEF FinishInv, NoEnqueuesLeft

LEMMA FinishInvHolds ==
    ASSUME Patient
    PROVE  HarnessSpec => [](PatientInv /\ FinishInv)
<1>1. HarnessInit => FinishInv
  BY DEF HarnessInit, DrainInit, FinishInv, None
<1>2. PatientInv /\ PatientInv' /\ FinishInv /\ [HarnessNext]_harnessVars => FinishInv'
  BY FinishPreserved
<1>3. QED
  BY <1>1, <1>2, PatientInvHolds, PTL DEF HarnessSpec

\* The transaction is started, or about to be.
Starts(p) == \E i \in DOMAIN p : Enqueues(p[i]) /\ p[i].event = StartEvent

StartInv == started \/ \E t : Pending(StartEvent, t)

LEMMA StartPreserved ==
    ASSUME BaseInv, ScriptInv, StartInv, [HarnessNext]_harnessVars
    PROVE  StartInv'
<1>1. CASE started
  BY <1>1, StartIsKept, BaseFacts DEF StartInv
<1>2. ASSUME NEW t, Pending(StartEvent, t) PROVE StartInv'
  <2>1. CASE Step
    <3>1. PICK e \in queue.entries : Process(e)
      BY <2>1 DEF Step
    <3>2. CASE e.event = StartEvent
      <4>1. started'
        BY <3>1, <3>2, StartDiffers DEF Process, StartTransaction, Tick, TickInVain,
           DeliverToCoordinator, DeliverToParticipant, Drop, Crash, RecoverInVain,
           RecoverCoordinator, RecoverParticipant
      <4>2. QED
        BY <4>1 DEF StartInv
    <3>3. CASE e.event # StartEvent
      <4>1. Pending(StartEvent, t)'
        BY <1>2, <2>1, <3>1, <3>3, StepsAreInCalls, StepTakesPending
      <4>2. QED
        BY <4>1 DEF StartInv
    <3>4. QED
      BY <3>2, <3>3
  <2>2. CASE ~Step
    <3>1. Pending(StartEvent, t)' = Pending(StartEvent, t)
      BY <2>2, TicksDiffer, OthersKeepPending
    <3>2. QED
      BY <1>2, <3>1 DEF StartInv
  <2>3. QED
    BY <2>1, <2>2
<1>3. QED
  BY <1>1, <1>2 DEF StartInv

\* A program that starts the transaction and ends with drain's "true" ends with
\* everyone decided.
EndsDecided == ProgramEnded /\ drained = "true" => started /\ AllIsDone

LEMMA EndsDecidedHolds ==
    ASSUME Patient, \A p \in Programs : Starts(p)
    PROVE  HarnessSpec => [](PatientInv /\ EndsDecided)
<1>1. HarnessInit => StartInv
  <2> SUFFICES ASSUME HarnessInit PROVE StartInv
    OBVIOUS
  <2>1. Starts(program)
    BY DEF HarnessInit
  <2>2. QED
    BY <2>1 DEF Starts, StartInv, Pending
<1>2. PatientInv /\ StartInv /\ [HarnessNext]_harnessVars => StartInv'
  BY StartPreserved DEF PatientInv, Inherited
<1>3. PatientInv /\ FinishInv /\ StartInv => EndsDecided
  <2> SUFFICES ASSUME PatientInv, FinishInv, StartInv, program = <<>>, drained = "true"
               PROVE  started /\ AllIsDone
    BY DEF EndsDecided, ProgramEnded
  <2>1. IsQuiescent /\ \A a \in ActorId : IsOperating(a)
    BY DEF FinishInv
  <2>2. started
    <3>1. \A t : ~Pending(StartEvent, t)
      <4>1. DOMAIN program = {}
        OBVIOUS
      <4>2. queue.entries = {}
        BY <2>1 DEF IsQuiescent, IsEmpty
      <4>3. QED
        BY <4>1, <4>2 DEF Pending
    <3>2. QED
      BY <3>1 DEF StartInv
  <2>3. QED
    BY <2>1, <2>2, QuiescentMeansDone DEF PatientInv, ActorId
<1>4. QED
  BY <1>1, <1>2, <1>3, PatientInvHolds, FinishInvHolds, PTL DEF HarnessSpec
=============================================================================
