--------------------------- MODULE SimulatorProofs ---------------------------
(***************************************************************************)
(* Theorems about Simulator for any number of nodes, any delays, any       *)
(* timeout and any calls of enqueue_external: it implements                *)
(* TwoPhaseCommit, and its own checks never fail.                          *)
(***************************************************************************)
EXTENDS Simulator, FiniteSetTheorems, TLAPS

-----------------------------------------------------------------------------
(* Messages *)

\* TPC!Message is Message: the instance shares Nodes and CoordinatorId.
LEMMA SameMessages ==
    /\ Message = TPC!Message
    /\ StartMessage = TPC!StartMessage
BY DEF Message, TPC!Message, StartMessage, TPC!StartMessage

LEMMA ToEachNode ==
    ASSUME NEW make, make \in [Nodes -> Message]
    PROVE  IsFiniteSet({make[n] : n \in Nodes})
<1>1. make \in Surjection(Nodes, {make[n] : n \in Nodes})
  BY DEF Surjection
<1>2. QED
  BY <1>1, FS_Surjection, NodesAreNumbered

LEMMA MessagesAreFinite == IsFiniteSet(Message)
<1> DEFINE
      to(t) == [n \in Nodes |-> [type |-> t, from |-> CoordinatorId, to |-> n]]
      from(t) == [n \in Nodes |-> [type |-> t, from |-> n, to |-> CoordinatorId]]
      T(t) == {to(t)[n] : n \in Nodes}
      F(t) == {from(t)[n] : n \in Nodes}
<1>1. ASSUME NEW t \in {"Prepare", "DecisionCommit", "DecisionAbort"}
      PROVE  IsFiniteSet(T(t))
  <2>1. to(t) \in [Nodes -> Message]
    BY DEF Message
  <2>2. QED
    BY <2>1, ToEachNode
<1>2. ASSUME NEW t \in {"VoteCommit", "VoteAbort", "Ack"}
      PROVE  IsFiniteSet(F(t))
  <2>1. from(t) \in [Nodes -> Message]
    BY DEF Message
  <2>2. QED
    BY <2>1, ToEachNode
<1>3. Message = UNION {T("Prepare"), T("DecisionCommit"), T("DecisionAbort"),
                       F("VoteCommit"), F("VoteAbort"), F("Ack")}
  BY DEF Message
<1>4. Message = T("Prepare") \cup T("DecisionCommit") \cup T("DecisionAbort")
                \cup F("VoteCommit") \cup F("VoteAbort") \cup F("Ack")
  BY <1>3
<1> HIDE DEF T, F
<1>5. IsFiniteSet(T("Prepare") \cup T("DecisionCommit"))
  BY <1>1, FS_Union
<1>6. IsFiniteSet(T("Prepare") \cup T("DecisionCommit") \cup T("DecisionAbort"))
  BY <1>1, <1>5, FS_Union
<1>7. IsFiniteSet(T("Prepare") \cup T("DecisionCommit") \cup T("DecisionAbort")
                  \cup F("VoteCommit"))
  BY <1>2, <1>6, FS_Union
<1>8. IsFiniteSet(T("Prepare") \cup T("DecisionCommit") \cup T("DecisionAbort")
                  \cup F("VoteCommit") \cup F("VoteAbort"))
  BY <1>2, <1>7, FS_Union
<1>9. QED
  BY <1>2, <1>4, <1>8, FS_Union

-----------------------------------------------------------------------------
(* The queue *)

\* What the queue's operations keep: entries are numbered below `next', which
\* is why a new entry never coincides with an old one, and StartTransaction is
\* queued once at most and not any more when it has been processed.
QueueOK(q, hasStarted) ==
    /\ q \in QueueOf(Event)
    /\ IsFiniteSet(q.entries)
    /\ \A e \in q.entries : e.sequence < q.next
    /\ \A e \in q.entries : e.event = StartEvent => ~hasStarted
    /\ \A e, f \in q.entries : e.event = StartEvent /\ f.event = StartEvent => e = f

LEMMA PositionTyped ==
    ASSUME NEW sent \in SUBSET Message, NEW m \in sent
    PROVE  /\ Cardinality(sent) \in Nat
           /\ Position(m, sent) \in Nat
           /\ Position(m, sent) < Cardinality(sent)
<1> DEFINE before == {k \in sent \ {m} : SentBefore(k, m)}
<1>1. IsFiniteSet(sent)
  BY MessagesAreFinite, FS_Subset
<1>2. IsFiniteSet(sent \ {m}) /\ Cardinality(sent \ {m}) = Cardinality(sent) - 1
  BY <1>1, FS_RemoveElement
<1>3. IsFiniteSet(before) /\ Cardinality(before) <= Cardinality(sent \ {m})
  <2>1. before \in SUBSET (sent \ {m})
    OBVIOUS
  <2> HIDE DEF before
  <2>2. QED
    BY <1>2, <2>1, FS_Subset
<1>4. Cardinality(sent) \in Nat /\ Cardinality(before) \in Nat
  BY <1>1, <1>3, FS_CardinalityType
<1>5. Position(m, sent) = Cardinality(before)
  BY DEF Position
<1> HIDE DEF before
<1>6. QED
  BY <1>2, <1>3, <1>4, <1>5

LEMMA DepartureTyped ==
    ASSUME NEW q, q.next \in Nat, NEW sent \in SUBSET Message, NEW m \in sent,
           NEW now \in Nat, NEW delay \in [sent -> Delays]
    PROVE  LET d == Departure(q, m, sent, now, delay)
           IN  /\ d.timestamp \in Nat
               /\ d.timestamp > now
               /\ d.sequence \in Nat
               /\ d.sequence >= q.next
               /\ d.sequence < q.next + Cardinality(sent)
               /\ d.event = DeliverEvent(m)
<1> DEFINE position == Position(m, sent)
           size == Cardinality(sent)
<1>1. delay[m] \in Nat
  BY DelaysAssumption
<1>2. position \in Nat /\ size \in Nat /\ position < size
  BY PositionTyped
<1>3. Departure(q, m, sent, now, delay) =
        [timestamp |-> now + 1 + delay[m], sequence |-> q.next + position,
         event |-> DeliverEvent(m)]
  BY DEF Departure, Entry
<1> HIDE DEF position, size
<1>4. /\ now + 1 + delay[m] \in Nat /\ now + 1 + delay[m] > now
      /\ q.next + position \in Nat /\ q.next + position >= q.next
      /\ q.next + position < q.next + size
  BY <1>1, <1>2
<1>5. QED
  BY <1>3, <1>4 DEF size

LEMMA EventsDiffer ==
    ASSUME NEW m, NEW k
    PROVE  /\ DeliverEvent(m) # StartEvent
           /\ DeliverEvent(m) = DeliverEvent(k) => m = k
BY DEF DeliverEvent, StartEvent

\* Removing e and sending keeps the queue in order.
LEMMA QueueKept ==
    ASSUME NEW q, NEW s, NEW t, QueueOK(q, s), NEW e \in q.entries,
           t => s \/ e.event = StartEvent,
           NEW sent \in SUBSET Message, NEW now \in Nat, NEW delay \in [sent -> Delays]
    PROVE  QueueOK(EnqueueOutgoing(Remove(q, e), sent, now, delay), t)
<1> DEFINE r == Remove(q, e)
           new(m) == Departure(r, m, sent, now, delay)
           after == EnqueueOutgoing(r, sent, now, delay)
<1>1. r.next = q.next /\ r.entries = q.entries \ {e} /\ q.next \in Nat
  BY DEF Remove, QueueOK, QueueOf
<1>2. /\ after = [entries |-> after.entries, next |-> after.next]
      /\ after.entries = (q.entries \ {e}) \cup {new(m) : m \in sent}
      /\ after.next = q.next + Cardinality(sent)
  BY <1>1 DEF EnqueueOutgoing
<1>3. Cardinality(sent) \in Nat
  BY MessagesAreFinite, FS_Subset, FS_CardinalityType
<1>4. ASSUME NEW m \in sent
      PROVE  /\ new(m) \in [timestamp : Nat, sequence : Nat, event : Event]
             /\ new(m).sequence < after.next
             /\ new(m).event # StartEvent
  <2>1. /\ new(m).timestamp \in Nat /\ new(m).sequence \in Nat
        /\ new(m).sequence < r.next + Cardinality(sent)
        /\ new(m).event = DeliverEvent(m)
    BY <1>1, DepartureTyped
  <2>2. DeliverEvent(m) \in Event
    BY DEF DeliverEvent, Event
  <2>3. new(m) = [timestamp |-> new(m).timestamp, sequence |-> new(m).sequence,
                  event |-> new(m).event]
    BY DEF Departure, Entry
  <2> HIDE DEF new, after
  <2>4. QED
    BY <1>1, <1>2, <2>1, <2>2, <2>3, EventsDiffer
<1>5. IsFiniteSet(after.entries)
  <2> DEFINE f == [m \in sent |-> new(m)]
             departures == {new(m) : m \in sent}
  <2>1. f \in Surjection(sent, departures)
    BY DEF Surjection
  <2>2. IsFiniteSet(departures)
    BY <2>1, FS_Surjection, MessagesAreFinite, FS_Subset
  <2>3. IsFiniteSet(q.entries \ {e})
    BY FS_RemoveElement DEF QueueOK
  <2> HIDE DEF departures
  <2>4. IsFiniteSet((q.entries \ {e}) \cup departures)
    BY <2>2, <2>3, FS_Union
  <2>5. QED
    BY <1>2, <2>4 DEF departures
<1> HIDE DEF new, after, r
<1>6. after \in QueueOf(Event)
  <2>1. after.next \in Nat
    BY <1>1, <1>2, <1>3
  <2>2. after.entries \in SUBSET [timestamp : Nat, sequence : Nat, event : Event]
    BY <1>2, <1>4 DEF QueueOK, QueueOf
  <2>3. QED
    BY <1>2, <2>1, <2>2 DEF QueueOf
<1>7. \A f \in after.entries : f.sequence < after.next
  <2>1. ASSUME NEW f \in q.entries PROVE f.sequence < after.next
    <3>1. f.sequence \in Nat /\ f.sequence < q.next
      BY DEF QueueOK, QueueOf
    <3>2. QED
      BY <1>1, <1>2, <1>3, <3>1
  <2>2. QED
    BY <1>2, <1>4, <2>1
<1>8. \A f \in after.entries :
        f.event = StartEvent => f \in q.entries /\ f # e
  BY <1>2, <1>4
<1>9. QED
  BY <1>5, <1>6, <1>7, <1>8 DEF QueueOK, after, r

\* The copies of a message in the queue: one less if it was taken, one more if
\* it was sent.
LEMMA CopiesCounted ==
    ASSUME NEW q, NEW s, QueueOK(q, s), NEW e \in q.entries,
           NEW sent \in SUBSET Message, NEW now \in Nat, NEW delay \in [sent -> Delays],
           NEW m \in Message
    PROVE  LET after == EnqueueOutgoing(Remove(q, e), sent, now, delay)
               before == Cardinality(CopiesOf(m, q.entries))
               left == IF e.event = DeliverEvent(m) THEN before - 1 ELSE before
           IN  /\ before \in Nat
               /\ e.event = DeliverEvent(m) => before > 0
               /\ Cardinality(CopiesOf(m, after.entries)) =
                     IF m \in sent THEN left + 1 ELSE left
<1> DEFINE r == Remove(q, e)
           new(k) == Departure(r, k, sent, now, delay)
           after == EnqueueOutgoing(r, sent, now, delay)
           copies == CopiesOf(m, q.entries)
           rest == CopiesOf(m, q.entries) \ {e}
<1>1. r.next = q.next /\ r.entries = q.entries \ {e} /\ q.next \in Nat
  BY DEF Remove, QueueOK, QueueOf
<1>2. after.entries = (q.entries \ {e}) \cup {new(k) : k \in sent}
  BY <1>1 DEF EnqueueOutgoing
<1>3. IsFiniteSet(copies)
  BY FS_Subset DEF CopiesOf, QueueOK
<1>4. Cardinality(copies) \in Nat
  BY <1>3, FS_CardinalityType
<1>5. /\ IsFiniteSet(rest)
      /\ Cardinality(rest) = IF e \in copies THEN Cardinality(copies) - 1
                                              ELSE Cardinality(copies)
  BY <1>3, FS_RemoveElement
<1>6. e \in copies <=> e.event = DeliverEvent(m)
  BY DEF CopiesOf
<1>7. e \in copies => Cardinality(copies) # 0
  BY <1>3, FS_EmptySet
<1>8. \A k \in sent : new(k).event = DeliverEvent(k) /\ new(k) \notin q.entries
  <2>1. ASSUME NEW k \in sent
        PROVE  new(k).event = DeliverEvent(k) /\ new(k).sequence >= q.next
                                             /\ new(k).sequence \in Nat
    BY <1>1, DepartureTyped
  <2>2. \A f \in q.entries : f.sequence \in Nat /\ f.sequence < q.next
    BY DEF QueueOK, QueueOf
  <2> HIDE DEF new
  <2>3. QED
    BY <1>1, <2>1, <2>2
<1> HIDE DEF new, r, after
<1>9. CASE m \in sent
  <2>1. CopiesOf(m, after.entries) = rest \cup {new(m)}
    BY <1>2, <1>8, <1>9, EventsDiffer DEF CopiesOf
  <2>2. new(m) \notin rest
    BY <1>8, <1>9 DEF CopiesOf
  <2>3. Cardinality(CopiesOf(m, after.entries)) = Cardinality(rest) + 1
    <3> HIDE DEF rest
    <3> DEFINE x == new(m)
    <3>1. x \notin rest
      BY <2>2
    <3> HIDE DEF x
    <3>2. Cardinality(rest \cup {x}) = Cardinality(rest) + 1
      BY <1>5, <3>1, FS_AddElement
    <3>3. QED
      BY <2>1, <3>2 DEF x
  <2>4. QED
    BY <1>4, <1>5, <1>6, <1>7, <1>9, <2>3 DEF after, r
<1>10. CASE m \notin sent
  <2>1. CopiesOf(m, after.entries) = rest
    BY <1>2, <1>8, <1>10, EventsDiffer DEF CopiesOf
  <2>2. QED
    BY <1>4, <1>5, <1>6, <1>7, <1>10, <2>1 DEF after, r
<1>11. QED
  BY <1>9, <1>10

\* Removing e alone is sending nothing.
LEMMA RemovedOnly ==
    ASSUME NEW q, NEW s, QueueOK(q, s), NEW e \in q.entries, NEW now, NEW delay
    PROVE  EnqueueOutgoing(Remove(q, e), {}, now, delay) = Remove(q, e)
<1>1. Remove(q, e) = [entries |-> q.entries \ {e}, next |-> q.next] /\ q.next \in Nat
  BY DEF Remove, QueueOK, QueueOf
<1>2. Cardinality({}) = 0
  BY FS_EmptySet
<1> DEFINE r == Remove(q, e)
<1>3. {Departure(r, m, {}, now, delay) : m \in {}} = {}
  OBVIOUS
<1>4. r.entries = q.entries \ {e} /\ r.next = q.next /\ r.next + 0 = q.next
  BY <1>1
<1>5. EnqueueOutgoing(r, {}, now, delay) = [entries |-> r.entries \cup {}, next |-> r.next + 0]
  BY <1>2, <1>3 DEF EnqueueOutgoing
<1> HIDE DEF r
<1>6. EnqueueOutgoing(r, {}, now, delay) = [entries |-> q.entries \ {e}, next |-> q.next]
  BY <1>4, <1>5
<1>7. QED
  BY <1>1, <1>6 DEF r

-----------------------------------------------------------------------------
(* The network seen in the queue *)

NetworkAfter(e, sent) ==
    /\ \A k \in Message :
          e.event = DeliverEvent(k) =>
              /\ TPC!InTransit(k)
              /\ Network' = TPC!Enqueue(TPC!Dequeue(Network, k), sent)
    /\ (\A k \in Message : e.event # DeliverEvent(k)) =>
          Network' = TPC!Enqueue(Network, sent)

LEMMA NetworkOfQueue ==
    ASSUME QueueOK(queue, started), NEW e \in queue.entries, NEW sent \in SUBSET Message,
           NEW now \in Nat, NEW delay \in [sent -> Delays],
           queue' = EnqueueOutgoing(Remove(queue, e), sent, now, delay)
    PROVE  NetworkAfter(e, sent)
<1> DEFINE count(m) == Cardinality(CopiesOf(m, queue.entries))
           left(m) == IF e.event = DeliverEvent(m) THEN count(m) - 1 ELSE count(m)
<1>1. ASSUME NEW m \in Message
      PROVE  /\ count(m) \in Nat
             /\ e.event = DeliverEvent(m) => count(m) > 0
             /\ Cardinality(CopiesOf(m, queue'.entries)) =
                   IF m \in sent THEN left(m) + 1 ELSE left(m)
  BY CopiesCounted
<1>2. /\ Network = [m \in Message |-> count(m)]
      /\ Network' = [m \in Message |-> IF m \in sent THEN left(m) + 1 ELSE left(m)]
  BY <1>1 DEF Network, NetworkOf
<1> HIDE DEF count
<1>3. ASSUME NEW k \in Message, e.event = DeliverEvent(k)
      PROVE  /\ TPC!InTransit(k)
             /\ Network' = TPC!Enqueue(TPC!Dequeue(Network, k), sent)
  <2>1. \A m \in Message : e.event = DeliverEvent(m) <=> m = k
    BY <1>3, EventsDiffer
  <2>2. TPC!InTransit(k)
    BY <1>1, <1>2, <1>3 DEF TPC!InTransit
  <2>3. Network' = [m \in Message |->
                     IF m \in sent THEN (IF m = k THEN count(m) - 1 ELSE count(m)) + 1
                                   ELSE (IF m = k THEN count(m) - 1 ELSE count(m))]
    BY <1>2, <2>1
  <2>4. TPC!Dequeue(Network, k) =
          [m \in Message |-> IF m = k THEN count(m) - 1 ELSE count(m)]
    BY <1>2 DEF TPC!Dequeue
  <2>5. QED
    BY <2>2, <2>3, <2>4, SameMessages DEF TPC!Enqueue
<1>4. ASSUME \A k \in Message : e.event # DeliverEvent(k)
      PROVE  Network' = TPC!Enqueue(Network, sent)
  BY <1>2, <1>4, SameMessages DEF TPC!Enqueue
<1>5. QED
  BY <1>3, <1>4 DEF NetworkAfter

\* The end of every step, seen in the queue.
LEMMA Concluded ==
    ASSUME QueueOK(queue, started), NEW e \in queue.entries, NEW delivered,
           NEW sent \in SUBSET Message, Conclude(e, delivered, sent),
           started' => started \/ e.event = StartEvent
    PROVE  QueueOK(queue', started') /\ NetworkAfter(e, sent)
<1>1. PICK delay \in [sent -> Delays] :
        queue' = EnqueueOutgoing(Remove(queue, e), sent, e.timestamp, delay)
  BY DEF Conclude
<1>2. e.timestamp \in Nat
  BY DEF QueueOK, QueueOf
<1>3. QED
  BY <1>1, <1>2, QueueKept, NetworkOfQueue

\* The same for a message that is dropped.
LEMMA Dropped ==
    ASSUME QueueOK(queue, started), NEW e \in queue.entries,
           queue' = Remove(queue, e), started' = started
    PROVE  QueueOK(queue', started') /\ NetworkAfter(e, {})
<1> DEFINE none == {}
           delay == [m \in none |-> 0]
<1>1. delay \in [none -> Delays] /\ none \in SUBSET Message /\ e.timestamp \in Nat
  BY DEF QueueOK, QueueOf
<1>2. queue' = EnqueueOutgoing(Remove(queue, e), none, e.timestamp, delay)
  BY RemovedOnly
<1> HIDE DEF delay, none
<1>3. QueueOK(EnqueueOutgoing(Remove(queue, e), none, e.timestamp, delay), started')
  BY <1>1, QueueKept
<1>4. NetworkAfter(e, none)
  BY <1>1, <1>2, NetworkOfQueue
<1>5. QED
  BY <1>2, <1>3, <1>4 DEF none

\* An external event joins the queue.
LEMMA Inserted ==
    ASSUME QueueOK(queue, started), NEW event \in ExternalEvent, NEW t \in Nat,
           event = StartEvent => ~StartEnqueued,
           queue' = Insert(queue, t, event), started' = started
    PROVE  QueueOK(queue', started') /\ Network' = Network
<1> DEFINE x == Entry(t, queue.next, event)
<1>1. /\ queue' = [entries |-> queue.entries \cup {x}, next |-> queue.next + 1]
      /\ queue.next \in Nat
  BY DEF Insert, QueueOK, QueueOf
<1>2. x \in [timestamp : Nat, sequence : Nat, event : Event] /\ x.sequence = queue.next
      /\ x.event = event
  BY <1>1 DEF Entry, Event
<1>3. \A m : event # DeliverEvent(m)
  BY DEF ExternalEvent, StartEvent, TickAllEvent, DeliverEvent
<1> HIDE DEF x
<1>4. queue' \in QueueOf(Event) /\ IsFiniteSet(queue'.entries)
  <2>1. IsFiniteSet(queue.entries \cup {x})
    BY FS_AddElement DEF QueueOK
  <2>2. queue.entries \cup {x} \in SUBSET [timestamp : Nat, sequence : Nat, event : Event]
    BY <1>2 DEF QueueOK, QueueOf
  <2>3. QED
    BY <1>1, <2>1, <2>2 DEF QueueOf
<1>5. \A f \in queue'.entries : f.sequence < queue'.next
  <2>1. \A f \in queue.entries : f.sequence \in Nat /\ f.sequence < queue.next
    BY DEF QueueOK, QueueOf
  <2>2. queue'.next = queue.next + 1 /\ queue'.entries = queue.entries \cup {x}
    BY <1>1
  <2>3. \A f \in queue.entries : f.sequence < queue.next + 1
    BY <1>1, <2>1
  <2>4. x.sequence < queue.next + 1
    BY <1>1, <1>2
  <2>5. QED
    BY <2>2, <2>3, <2>4
<1>6. QueueOK(queue', started')
  BY <1>1, <1>2, <1>4, <1>5 DEF QueueOK, StartEnqueued
<1>7. \A m \in Message : CopiesOf(m, queue'.entries) = CopiesOf(m, queue.entries)
  BY <1>1, <1>2, <1>3 DEF CopiesOf
<1>8. Network' = Network
  BY <1>7 DEF Network, NetworkOf
<1>9. QED
  BY <1>6, <1>8

-----------------------------------------------------------------------------
(* The handlers of the instance *)

LEMMA SameCoordinator ==
    ASSUME NEW c, NEW m, NEW elapsed
    PROVE  /\ CoordinatorOnMessage(c, m, elapsed) = TPC!CoordinatorOnMessage(c, m, elapsed)
           /\ CoordinatorTick(c, elapsed) = TPC!CoordinatorTick(c, elapsed)
           /\ CoordinatorRecover(c) = TPC!CoordinatorRecover(c)
<1>1. CoordinatorTick(c, elapsed) = TPC!CoordinatorTick(c, elapsed)
  BY DEF CoordinatorTick, TickVoting, TickAwaitingAcks, TrySendDecision, Decide,
     SpontaneousAbort, NoVotes, Outcome, When, PrepareMessage, DecisionMessage,
     DecisionType, None,
     TPC!CoordinatorTick, TPC!TickVoting, TPC!TickAwaitingAcks, TPC!TrySendDecision,
     TPC!Decide, TPC!SpontaneousAbort, TPC!NoVotes, TPC!Outcome, TPC!When,
     TPC!PrepareMessage, TPC!DecisionMessage, TPC!DecisionType, TPC!None
<1>2. \A d : CoordinatorHandle(d, m) = TPC!CoordinatorHandle(d, m)
  BY DEF CoordinatorHandle, BeginVoting, RecordVote, RecordAck, TryDecide, Decide,
     TrySendDecision, RandomBool, NoVotes, Outcome, PrepareMessage, DecisionMessage,
     DecisionType, IsVote, VoteOf, None,
     TPC!CoordinatorHandle, TPC!BeginVoting, TPC!RecordVote, TPC!RecordAck,
     TPC!TryDecide, TPC!Decide, TPC!TrySendDecision, TPC!RandomBool, TPC!NoVotes,
     TPC!Outcome, TPC!PrepareMessage, TPC!DecisionMessage, TPC!DecisionType,
     TPC!IsVote, TPC!VoteOf, TPC!None
<1>3. CoordinatorOnMessage(c, m, elapsed) = TPC!CoordinatorOnMessage(c, m, elapsed)
  BY <1>1, <1>2 DEF CoordinatorOnMessage, TPC!CoordinatorOnMessage, Outcome, TPC!Outcome
<1>4. CoordinatorRecover(c) = TPC!CoordinatorRecover(c)
  BY DEF CoordinatorRecover, TPC!CoordinatorRecover, NoVotes, TPC!NoVotes, None, TPC!None
<1>5. QED
  BY <1>1, <1>3, <1>4

LEMMA SameParticipant ==
    ASSUME NEW p, NEW n, NEW m
    PROVE  /\ ParticipantOnMessage(p, n, m) = TPC!ParticipantOnMessage(p, n, m)
           /\ ParticipantRecover(p) = TPC!ParticipantRecover(p)
<1>1. ParticipantOnMessage(p, n, m) = TPC!ParticipantOnMessage(p, n, m)
  BY DEF ParticipantOnMessage, OnPrepare, OnDecision, CastVote, Learn, RandomBool,
     Outcome, VoteMessage, VoteType, AckMessage, IsDecision, DecisionOf,
     TPC!ParticipantOnMessage, TPC!OnPrepare, TPC!OnDecision, TPC!CastVote, TPC!Learn,
     TPC!RandomBool, TPC!Outcome, TPC!VoteMessage, TPC!VoteType, TPC!AckMessage,
     TPC!IsDecision, TPC!DecisionOf
<1>2. ParticipantRecover(p) = TPC!ParticipantRecover(p)
  BY DEF ParticipantRecover, TPC!ParticipantRecover, None, TPC!None
<1>3. QED
  BY <1>1, <1>2

-----------------------------------------------------------------------------
(* The invariant of the refinement *)

\* QueueOK makes the queue a network; TwoPhaseCommit's own invariant, which the
\* simulator inherits step by step, says what the handlers are applied to.
IInv ==
    /\ QueueOK(queue, started)
    /\ clock \in Nat
    /\ TPC!IInv

\* TwoPhaseCommit's lemmas about handlers, for the coordinator's: what one
\* returns are messages, in particular.
LEMMA CoordinatorSends ==
    ASSUME TPC!IInv, NEW elapsed \in BOOLEAN
    PROVE  /\ \A m \in Message \cup {StartMessage} :
                 \A o \in CoordinatorOnMessage(coordinator, m, elapsed) :
                    /\ TPC!CoordinatorEffect(coordinator, {m}, o)
                    /\ o.sent \in SUBSET Message
           /\ \A o \in CoordinatorTick(coordinator, elapsed) :
                    /\ TPC!CoordinatorEffect(coordinator, {}, o)
                    /\ o.sent \in SUBSET Message
<1>1. coordinator \in TPC!CoordinatorState /\ TPC!PhaseOK(coordinator)
  BY DEF TPC!IInv, TPC!TypeOK, TPC!PhaseMatchesDurable, TPC!PhaseOK
<1>2. ASSUME NEW m \in Message \cup {StartMessage},
             NEW o \in CoordinatorOnMessage(coordinator, m, elapsed)
      PROVE  TPC!CoordinatorEffect(coordinator, {m}, o)
  <2>1. m \in TPC!Message \cup {TPC!StartMessage}
    BY SameMessages
  <2>2. o \in TPC!CoordinatorOnMessage(coordinator, m, elapsed)
    BY SameCoordinator
  <2>3. QED
    BY <1>1, <2>1, <2>2, TPC!OnMessageEffect, CoordinatorIsNoNode,
       AbortBiasAssumption, VoteAbortBiasAssumption DEF Bias, TPC!Bias
<1>3. ASSUME NEW o \in CoordinatorTick(coordinator, elapsed)
      PROVE  TPC!CoordinatorEffect(coordinator, {}, o)
  <2>1. o \in TPC!CoordinatorTick(coordinator, elapsed)
    BY SameCoordinator
  <2>2. QED
    BY <1>1, <2>1, TPC!TickEffect, CoordinatorIsNoNode,
       AbortBiasAssumption, VoteAbortBiasAssumption DEF Bias, TPC!Bias
<1>4. \A heard, o : TPC!CoordinatorEffect(coordinator, heard, o) => o.sent \in SUBSET Message
  BY SameMessages DEF TPC!CoordinatorEffect
<1>5. QED
  BY <1>2, <1>3, <1>4

LEMMA ParticipantSends ==
    ASSUME TPC!IInv, NEW n \in Nodes, NEW m \in Message, m.to = n,
           NEW o \in ParticipantOnMessage(participants[n], n, m)
    PROVE  o.sent \in SUBSET Message
<1>1. /\ participants[n] \in TPC!ParticipantState
      /\ TPC!ParticipantRecover(participants[n]) = participants[n]
  BY DEF TPC!IInv, TPC!TypeOK, TPC!CrashLosesNoVote
<1>2. QED
  BY <1>1, SameParticipant, SameMessages, TPC!ParticipantOnMessageEffect,
     CoordinatorIsNoNode, AbortBiasAssumption, VoteAbortBiasAssumption
     DEF TPC!ParticipantEffect, Bias, TPC!Bias

-----------------------------------------------------------------------------
(* Every step is a step of TwoPhaseCommit or invisible to it *)

Refines == (TPC!Next \/ UNCHANGED TPC!vars) /\ QueueOK(queue', started')

\* The types that the steps below need.
LEMMA Typed ==
    ASSUME IInv
    PROVE  /\ QueueOK(queue, started)
           /\ Network \in [TPC!Message -> Nat]
           /\ status \in [ActorId -> {"Operating", "Crashed"}]
           /\ started \in BOOLEAN
           /\ ActorId = TPC!ActorId
BY DEF IInv, TPC!IInv, TPC!TypeOK, TPC!ActorStatus, ActorId, TPC!ActorId

LEMMA ElapsedTyped == \A now : Elapsed(now) \in BOOLEAN
BY DEF Elapsed

\* A step that takes e, delivers nothing and sends nothing.
LEMMA Silent ==
    ASSUME IInv, NEW e \in queue.entries, \A m \in Message : e.event # DeliverEvent(m),
           Conclude(e, {}, {}), started' = started
    PROVE  QueueOK(queue', started') /\ Network' = Network
<1> DEFINE none == {}
<1>1. none \in SUBSET Message
  OBVIOUS
<1>2. Conclude(e, {}, none)
  OBVIOUS
<1> HIDE DEF none
<1>3. QueueOK(queue', started') /\ NetworkAfter(e, none)
  BY <1>1, <1>2, Typed, Concluded
<1>4. Network' = TPC!Enqueue(Network, none)
  BY <1>3 DEF NetworkAfter
<1>5. QED
  BY <1>3, <1>4, Typed, TPC!EnqueueNothing, CoordinatorIsNoNode,
     AbortBiasAssumption, VoteAbortBiasAssumption DEF Bias, TPC!Bias, none

LEMMA EventsNamed ==
    ASSUME NEW m
    PROVE  /\ DeliverEvent(m) # StartEvent
           /\ DeliverEvent(m) # TickAllEvent
           /\ \A a : /\ DeliverEvent(m) # TickEvent(a)
                     /\ DeliverEvent(m) # CrashEvent(a)
                     /\ DeliverEvent(m) # RecoverEvent(a)
BY DEF DeliverEvent, StartEvent, TickAllEvent, TickEvent, CrashEvent, RecoverEvent

LEMMA StartRefines ==
    ASSUME IInv, NEW e \in queue.entries, StartTransaction(e)
    PROVE  Refines
<1>1. e.event = StartEvent /\ started' = TRUE
  BY DEF StartTransaction
<1>2. ~started
  BY <1>1, Typed DEF QueueOK
<1>3. PICK o \in CoordinatorOnMessage(coordinator, StartMessage, Elapsed(e.timestamp)) :
        coordinator' = o.state /\ Conclude(e, {}, o.sent)
  BY DEF StartTransaction, CoordinatorReturns
<1>4. o.sent \in SUBSET Message
  BY <1>3, ElapsedTyped, CoordinatorSends DEF IInv
<1>5. QueueOK(queue', started') /\ NetworkAfter(e, o.sent)
  BY <1>1, <1>3, <1>4, Typed, Concluded
<1>6. Network' = TPC!Enqueue(Network, o.sent)
  BY <1>1, <1>5, EventsNamed DEF NetworkAfter
<1>7. o \in TPC!CoordinatorOnMessage(coordinator, TPC!StartMessage, Elapsed(e.timestamp))
  BY <1>3, SameCoordinator, SameMessages
<1>8. UNCHANGED <<participants, status>>
  BY DEF StartTransaction, CoordinatorReturns
<1>9. TPC!StartTransaction
  BY <1>1, <1>2, <1>3, <1>6, <1>7, <1>8, ElapsedTyped
     DEF TPC!StartTransaction, TPC!CoordinatorTakes
<1>10. QED
  BY <1>5, <1>9 DEF Refines, TPC!Next, TPC!Progress

LEMMA TickRefines ==
    ASSUME IInv, NEW e \in queue.entries, Tick(e)
    PROVE  Refines
<1>1. e.event \in {TickAllEvent, TickEvent(CoordinatorId)} /\ started' = started
  BY DEF Tick
<1>2. PICK o \in CoordinatorTick(coordinator, Elapsed(e.timestamp)) :
        coordinator' = o.state /\ Conclude(e, {}, o.sent)
  BY DEF Tick, CoordinatorReturns
<1>3. o.sent \in SUBSET Message
  BY <1>2, ElapsedTyped, CoordinatorSends DEF IInv
<1>4. QueueOK(queue', started') /\ NetworkAfter(e, o.sent)
  BY <1>1, <1>2, <1>3, Typed, Concluded
<1>5. Network' = TPC!Enqueue(Network, o.sent)
  BY <1>1, <1>4, EventsNamed DEF NetworkAfter
<1>6. o \in TPC!CoordinatorTick(coordinator, Elapsed(e.timestamp))
  BY <1>2, SameCoordinator
<1>7. UNCHANGED <<participants, status>> /\ IsOperating(CoordinatorId)
  BY DEF Tick, CoordinatorReturns
<1>8. TPC!Tick(Elapsed(e.timestamp))
  BY <1>1, <1>2, <1>5, <1>6, <1>7
     DEF TPC!Tick, TPC!CoordinatorTakes, IsOperating, TPC!IsOperating
<1>9. QED
  BY <1>4, <1>8, ElapsedTyped DEF Refines, TPC!Next, TPC!Progress

LEMMA DeliverToCoordinatorRefines ==
    ASSUME IInv, NEW e \in queue.entries, NEW m \in Message, DeliverToCoordinator(e, m)
    PROVE  Refines
<1>1. e.event = DeliverEvent(m) /\ m.to = CoordinatorId /\ started' = started
  BY DEF DeliverToCoordinator
<1>2. PICK o \in CoordinatorOnMessage(coordinator, m, Elapsed(e.timestamp)) :
        coordinator' = o.state /\ Conclude(e, {m}, o.sent)
  BY DEF DeliverToCoordinator, CoordinatorReturns
<1>3. o.sent \in SUBSET Message
  BY <1>2, ElapsedTyped, CoordinatorSends DEF IInv
<1>4. QueueOK(queue', started') /\ NetworkAfter(e, o.sent)
  BY <1>1, <1>2, <1>3, Typed, Concluded
<1>5. TPC!InTransit(m) /\ Network' = TPC!Enqueue(TPC!Dequeue(Network, m), o.sent)
  BY <1>1, <1>4 DEF NetworkAfter
<1>6. o \in TPC!CoordinatorOnMessage(coordinator, m, Elapsed(e.timestamp))
  BY <1>2, SameCoordinator
<1>7. UNCHANGED <<participants, status>> /\ IsOperating(CoordinatorId)
  BY DEF DeliverToCoordinator, CoordinatorReturns
<1>8. TPC!DeliverToCoordinator(m)
  BY <1>1, <1>2, <1>5, <1>6, <1>7, ElapsedTyped
     DEF TPC!DeliverToCoordinator, TPC!CoordinatorTakes, IsOperating, TPC!IsOperating
<1>9. QED
  BY <1>4, <1>8, SameMessages DEF Refines, TPC!Next, TPC!Progress, TPC!Deliver

LEMMA DeliverToParticipantRefines ==
    ASSUME IInv, NEW e \in queue.entries, NEW m \in Message, DeliverToParticipant(e, m)
    PROVE  Refines
<1>1. e.event = DeliverEvent(m) /\ m.to \in Nodes /\ started' = started
  BY DEF DeliverToParticipant, ParticipantReturns
<1>2. PICK o \in ParticipantOnMessage(participants[m.to], m.to, m) :
        /\ participants' = [participants EXCEPT ![m.to] = o.state]
        /\ Conclude(e, {m}, o.sent)
  BY DEF DeliverToParticipant, ParticipantReturns
<1>3. o.sent \in SUBSET Message
  BY <1>1, <1>2, ParticipantSends DEF IInv
<1>4. QueueOK(queue', started') /\ NetworkAfter(e, o.sent)
  BY <1>1, <1>2, <1>3, Typed, Concluded
<1>5. TPC!InTransit(m) /\ Network' = TPC!Enqueue(TPC!Dequeue(Network, m), o.sent)
  BY <1>1, <1>4 DEF NetworkAfter
<1>6. o \in TPC!ParticipantOnMessage(participants[m.to], m.to, m)
  BY <1>2, SameParticipant
<1>7. UNCHANGED <<coordinator, status>> /\ IsOperating(m.to)
  BY DEF DeliverToParticipant, ParticipantReturns
<1>8. TPC!DeliverToParticipant(m)
  BY <1>1, <1>2, <1>5, <1>6, <1>7
     DEF TPC!DeliverToParticipant, TPC!ParticipantTakes, IsOperating, TPC!IsOperating
<1>9. QED
  BY <1>4, <1>8, SameMessages DEF Refines, TPC!Next, TPC!Progress, TPC!Deliver

LEMMA DropRefines ==
    ASSUME IInv, NEW e \in queue.entries, NEW m \in Message, Drop(e, m)
    PROVE  Refines
<1>1. /\ e.event = DeliverEvent(m) /\ ~IsOperating(m.to) /\ queue' = Remove(queue, e)
      /\ UNCHANGED <<coordinator, participants, status, started>>
  BY DEF Drop, actorVars
<1>2. QueueOK(queue', started') /\ NetworkAfter(e, {})
  BY <1>1, Typed, Dropped
<1>3. TPC!InTransit(m) /\ Network' = TPC!Enqueue(TPC!Dequeue(Network, m), {})
  BY <1>1, <1>2 DEF NetworkAfter
<1>4. TPC!Dequeue(Network, m) \in [TPC!Message -> Nat]
  BY <1>3, Typed, SameMessages DEF TPC!Dequeue, TPC!InTransit
<1>5. Network' = TPC!Dequeue(Network, m)
  BY <1>3, <1>4, TPC!EnqueueNothing, CoordinatorIsNoNode,
     AbortBiasAssumption, VoteAbortBiasAssumption DEF Bias, TPC!Bias
<1>6. TPC!Drop(m)
  BY <1>1, <1>3, <1>5 DEF TPC!Drop, IsOperating, TPC!IsOperating
<1>7. QED
  BY <1>2, <1>6, SameMessages DEF Refines, TPC!Next, TPC!Progress, TPC!Deliver

\* Ticks in vain, crashes and recoveries.
LEMMA SilentRefines ==
    ASSUME IInv, NEW e \in queue.entries,
           \/ TickInVain(e)
           \/ \E a \in ActorId : Crash(e, a) \/ RecoverInVain(e, a)
           \/ RecoverCoordinator(e)
           \/ \E n \in Nodes : RecoverParticipant(e, n)
    PROVE  Refines
<1>1. Conclude(e, {}, {}) /\ started' = started
  BY DEF TickInVain, Crash, RecoverInVain, RecoverCoordinator, RecoverParticipant, actorVars
<1>2. \A m \in Message : e.event # DeliverEvent(m)
  BY EventsNamed DEF TickInVain, Crash, RecoverInVain, RecoverCoordinator, RecoverParticipant
<1>3. QueueOK(queue', started') /\ Network' = Network
  BY <1>1, <1>2, Silent
<1>4. CASE TickInVain(e) \/ \E a \in ActorId : RecoverInVain(e, a)
  <2>1. UNCHANGED TPC!vars
    BY <1>3, <1>4 DEF TickInVain, RecoverInVain, actorVars, TPC!vars
  <2>2. QED
    BY <1>3, <2>1 DEF Refines
<1>5. ASSUME NEW a \in ActorId, Crash(e, a) PROVE Refines
  <2>1. UNCHANGED <<coordinator, participants, Network, started>>
    BY <1>3, <1>5 DEF Crash
  <2>2. CASE IsOperating(a)
    <3>1. TPC!Crash(a)
      BY <1>5, <2>1, <2>2 DEF Crash, TPC!Crash, IsOperating, TPC!IsOperating
    <3>2. QED
      BY <1>3, <3>1, Typed DEF Refines, TPC!Next
  <2>3. CASE ~IsOperating(a)
    <3>1. status' = status
      BY <1>5, <2>3, Typed DEF Crash, IsOperating
    <3>2. QED
      BY <1>3, <2>1, <3>1 DEF Refines, TPC!vars
  <2>4. QED
    BY <2>2, <2>3
<1>6. CASE RecoverCoordinator(e)
  <2>1. TPC!RecoverCoordinator
    BY <1>3, <1>6, SameCoordinator
       DEF RecoverCoordinator, TPC!RecoverCoordinator, IsOperating, TPC!IsOperating
  <2>2. QED
    BY <1>3, <2>1 DEF Refines, TPC!Next, TPC!Progress
<1>7. ASSUME NEW n \in Nodes, RecoverParticipant(e, n) PROVE Refines
  <2>1. TPC!RecoverParticipant(n)
    BY <1>3, <1>7, SameParticipant
       DEF RecoverParticipant, TPC!RecoverParticipant, IsOperating, TPC!IsOperating
  <2>2. QED
    BY <1>3, <2>1 DEF Refines, TPC!Next, TPC!Progress
<1>8. QED
  BY <1>4, <1>5, <1>6, <1>7

\* An insertion from outside a step shows nowhere.
LEMMA InsertionRefines ==
    ASSUME IInv, NEW event \in ExternalEvent, NEW t \in Nat,
           event = StartEvent => ~StartEnqueued,
           queue' = Insert(queue, t, event), UNCHANGED actorVars
    PROVE  Refines
<1>1. UNCHANGED <<coordinator, participants, status, started>>
  BY DEF actorVars
<1>2. QueueOK(queue', started') /\ Network' = Network
  BY <1>1, Typed, Inserted
<1>3. QED
  BY <1>1, <1>2 DEF Refines, TPC!vars

LEMMA NextRefines ==
    ASSUME IInv, [Next]_simulatorVars
    PROVE  (TPC!Next \/ UNCHANGED TPC!vars) /\ IInv'
<1>1. ASSUME Step PROVE Refines /\ clock' \in Nat
  <2>1. PICK e \in queue.entries : clock' = e.timestamp /\ Process(e)
    BY <1>1 DEF Step
  <2>2. clock' \in Nat
    BY <2>1, Typed DEF QueueOK, QueueOf
  <2>3. Refines
    BY <2>1, StartRefines, TickRefines, DeliverToCoordinatorRefines,
       DeliverToParticipantRefines, DropRefines, SilentRefines DEF Process
  <2>4. QED
    BY <2>2, <2>3
<1>2. ASSUME InjectProbe PROVE Refines /\ clock' \in Nat
  <2>1. TickAllEvent \in ExternalEvent /\ TickAllEvent # StartEvent
    BY DEF ExternalEvent, TickAllEvent, StartEvent
  <2>2. clock + 1 \in Nat
    BY DEF IInv
  <2>3. QED
    BY <1>2, <2>1, <2>2, InsertionRefines DEF InjectProbe
<1>3. ASSUME NEW event \in ExternalEvent, NEW t \in Nat, EnqueueExternal(event, t)
      PROVE  Refines /\ clock' \in Nat
  BY <1>3, InsertionRefines DEF EnqueueExternal, IInv
<1>4. ASSUME UNCHANGED simulatorVars PROVE Refines /\ clock' \in Nat
  <2>1. Network' = Network
    BY <1>4 DEF simulatorVars, Network, NetworkOf
  <2>2. UNCHANGED TPC!vars
    BY <1>4, <2>1 DEF simulatorVars, actorVars, TPC!vars
  <2>3. queue' = queue /\ started' = started /\ clock' = clock
    BY <1>4 DEF simulatorVars, actorVars
  <2>4. QED
    BY <2>2, <2>3 DEF Refines, IInv
<1>5. Refines /\ clock' \in Nat
  BY <1>1, <1>2, <1>3, <1>4 DEF Next
<1>6. TPC!IInv'
  BY <1>5, TPC!NextPreserves, CoordinatorIsNoNode, AbortBiasAssumption,
     VoteAbortBiasAssumption DEF IInv, Refines, Bias, TPC!Bias
<1>7. QED
  BY <1>5, <1>6 DEF Refines, IInv

LEMMA InitRefines ==
    ASSUME Init
    PROVE  TPC!Init /\ IInv
<1>1. queue.entries = {} /\ queue.next = 0 /\ queue = NewQueue /\ clock = 0
  BY DEF Init, NewQueue
<1>2. QueueOK(queue, started)
  BY <1>1, FS_EmptySet DEF QueueOK, QueueOf, NewQueue
<1>3. \A m \in Message : Cardinality(CopiesOf(m, queue.entries)) = 0
  <2>1. \A m \in Message : CopiesOf(m, queue.entries) = {}
    BY <1>1 DEF CopiesOf
  <2>2. QED
    BY <2>1, FS_EmptySet
<1>4. Network = [m \in TPC!Message |-> 0]
  BY <1>3, SameMessages DEF Network, NetworkOf
<1>5. TPC!Init
  BY <1>4 DEF Init, TPC!Init, NewCoordinator, NewParticipant, NoVotes, None, ActorId,
     TPC!NewCoordinator, TPC!NewParticipant, TPC!NoVotes, TPC!None, TPC!ActorId
<1>6. TPC!IInv
  BY <1>5, TPC!InitEstablishes, CoordinatorIsNoNode, AbortBiasAssumption,
     VoteAbortBiasAssumption DEF Bias, TPC!Bias
<1>7. QED
  BY <1>1, <1>2, <1>5, <1>6 DEF IInv

-----------------------------------------------------------------------------
(* Theorems *)

\* The inductive invariant of the simulator.
THEOREM InvariantHolds == Spec => []IInv
BY InitRefines, NextRefines, PTL DEF Spec

\* The simulator implements TwoPhaseCommit: whatever the delays, the timeout,
\* the external events and the order the queue gives them.
THEOREM SimulatorRefines == Spec => ImplementsTwoPhaseCommit
<1>1. Init => TPC!Init
  BY InitRefines
<1>2. IInv /\ [Next]_simulatorVars => [TPC!Next]_(TPC!vars)
  BY NextRefines
<1>3. QED
  BY <1>1, <1>2, InvariantHolds, PTL DEF Spec, ImplementsTwoPhaseCommit, TPC!Spec
=============================================================================
