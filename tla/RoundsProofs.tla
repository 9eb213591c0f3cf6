---------------------------- MODULE RoundsProofs ----------------------------
(***************************************************************************)
(* How many rounds drain needs: each delivery of a request or an answer    *)
(* uses up work in transit, and the coordinator retransmits only so often  *)
(* before its answers are in.  With that many rounds, drain gives up on a  *)
(* crashed participant only, and never if everyone is recovered.  And how  *)
(* long run takes, by the simulator's clock: the coordinator sends only    *)
(* when something arrives, and soon has nothing left to wait for but       *)
(* actors that do not answer.                                              *)
(***************************************************************************)
EXTENDS HarnessProofs

-----------------------------------------------------------------------------
(* What a step sends *)

\* The longest a message takes.
Trip == 1 + CHOOSE longest \in Delays : \A d \in Delays : d <= longest

LEMMA TripTyped == Trip \in Nat \ {0} /\ \A d \in Delays : 1 + d <= Trip
<1> DEFINE max == CHOOSE longest \in Delays : \A d \in Delays : d <= longest
<1>1. max \in Delays /\ \A d \in Delays : d <= max
  BY DelaysAssumption
<1> HIDE DEF max
<1>2. Trip = 1 + max
  BY DEF Trip, max
<1>3. QED
  BY <1>1, <1>2, DelaysAssumption

\* The entry d carries m, sent at time t.
Carries(d, m, t) ==
    /\ d.event = DeliverEvent(m)
    /\ d.timestamp \in Nat /\ t < d.timestamp /\ d.timestamp <= t + Trip

\* A step that takes e adds an entry for each message sent and nothing else.
Departed(e, sent, added) ==
    /\ queue'.entries = (queue.entries \ {e}) \cup added
    /\ IsFiniteSet(added) /\ Cardinality(added) <= Cardinality(sent)
    /\ \A d \in added : \E m \in sent : Carries(d, m, e.timestamp)
    /\ \A m \in sent : \E d \in added : Carries(d, m, e.timestamp)

LEMMA Departures ==
    ASSUME IInv, NEW e \in queue.entries, NEW delivered, NEW sent \in SUBSET Message,
           Conclude(e, delivered, sent)
    PROVE  \E added : Departed(e, sent, added)
<1>1. queue.next \in Nat /\ e.timestamp \in Nat
  BY Typed DEF QueueOK, QueueOf
<1> DEFINE r == Remove(queue, e)
<1>2. r.entries = queue.entries \ {e} /\ r.next = queue.next
  BY Typed DEF Remove, QueueOK, QueueOf
<1> HIDE DEF r
<1>3. PICK delay \in [sent -> Delays] :
        queue' = EnqueueOutgoing(r, sent, e.timestamp, delay)
  BY DEF Conclude, r
<1> DEFINE new(m) == Departure(r, m, sent, e.timestamp, delay)
           f == [m \in sent |-> new(m)]
           added == {new(m) : m \in sent}
<1>4. queue'.entries = (queue.entries \ {e}) \cup added
  BY <1>2, <1>3 DEF EnqueueOutgoing
<1>5. ASSUME NEW m \in sent PROVE Carries(new(m), m, e.timestamp)
  <2>1. /\ new(m).timestamp \in Nat /\ new(m).timestamp > e.timestamp
        /\ new(m).event = DeliverEvent(m)
    BY <1>1, <1>2, DepartureTyped
  <2>2. new(m).timestamp = e.timestamp + 1 + delay[m] /\ delay[m] \in Delays
    BY DEF Departure, Entry
  <2>3. delay[m] \in Nat /\ 1 + delay[m] <= Trip /\ Trip \in Nat
    BY <2>2, TripTyped, DelaysAssumption
  <2> HIDE DEF new
  <2>4. new(m).timestamp <= e.timestamp + Trip
    BY <1>1, <2>2, <2>3
  <2>5. QED
    BY <1>1, <2>1, <2>4 DEF Carries
<1>6. IsFiniteSet(added) /\ Cardinality(added) <= Cardinality(sent)
  <2>1. f \in Surjection(sent, added)
    BY DEF Surjection
  <2> HIDE DEF f, added
  <2>2. QED
    BY <2>1, FS_Surjection, MessagesAreFinite, FS_Subset
<1> HIDE DEF new
<1>7. /\ \A d \in added : \E m \in sent : Carries(d, m, e.timestamp)
      /\ \A m \in sent : \E d \in added : Carries(d, m, e.timestamp)
  BY <1>5
<1> HIDE DEF added
<1>8. Departed(e, sent, added)
  BY <1>4, <1>6, <1>7 DEF Departed
<1>9. QED
  BY <1>8

-----------------------------------------------------------------------------
(* What the coordinator does when it is ticked or hears something *)

\* The nodes that a coordinator in state c still wants an answer from.
AwaitedBy(c) ==
    {n \in Nodes : \/ c.phase = "Voting" /\ c.votes[n] = None
                   \/ c.phase = "AwaitingAcks" /\ n \notin c.acks}

\* A message that a coordinator in state c has asked for, or asks with.
ConcernsPhase(c, m) ==
    \/ c.phase = "Voting" /\ (m.type = "Prepare" \/ IsVote(m))
    \/ c.phase = "AwaitingAcks" /\ (IsDecision(m) \/ m.type = "Ack")

\* Those whose answer is among `heard'.
Heard(c, heard) == {n \in Nodes : \E m \in heard : m.from = n /\ ConcernsPhase(c, m)}

\* It asks everyone it waits for again, if it is time, and goes on waiting.
Waits(c, elapsed, heard, o) ==
    /\ c.phase \in {"Voting", "AwaitingAcks"} /\ o.state.phase = c.phase
    /\ AwaitedBy(o.state) = AwaitedBy(c) \ Heard(c, heard)
    /\ o.sent \in SUBSET Message
    /\ ~elapsed => o.sent = {}
    /\ \A m \in o.sent : m.to \in AwaitedBy(c) /\ ConcernsPhase(c, m)
    /\ elapsed => \A n \in AwaitedBy(c) : \E m \in o.sent : m.to = n /\ ConcernsPhase(c, m)
    /\ Cardinality(o.sent) <= Cardinality(Nodes)

\* It hears the last Ack.
Finishes(c, elapsed, heard, o) ==
    /\ c.phase = "AwaitingAcks" /\ o.state.phase = "Done"
    /\ AwaitedBy(c) \subseteq Heard(c, heard)
    /\ o.sent \in SUBSET Message
    /\ ~elapsed => o.sent = {}
    /\ \A m \in o.sent : m.to \in AwaitedBy(c)
    /\ Cardinality(o.sent) <= Cardinality(Nodes)

\* It tells everyone of a decision.
Decides(c, elapsed, heard, o) ==
    /\ c.phase \in {"Voting", "Decided"} /\ o.state.phase \in {"AwaitingAcks", "Done"}
    /\ \A n \in Nodes :
          n \in AwaitedBy(o.state) \/ \E m \in heard : m.from = n /\ m.type = "Ack"
    /\ o.sent \in SUBSET Message
    /\ \A m \in o.sent : m.to \in Nodes
    /\ ~elapsed => \A m \in o.sent : IsDecision(m)
    /\ \A n \in Nodes : \E m \in o.sent : m.to = n /\ IsDecision(m)
    /\ Cardinality(o.sent) <= 2 * Cardinality(Nodes)
    /\ ~(elapsed /\ c.phase = "Voting") => Cardinality(o.sent) <= Cardinality(Nodes)

\* It has nothing to do.
Rests(c, o) == c.phase \in {"Waiting", "Done"} /\ o.state = c /\ o.sent = {}

\* It starts the vote.
Begins(c, heard, o) ==
    /\ c.phase = "Waiting" /\ StartMessage \in heard
    /\ o.state.phase = "Voting" /\ AwaitedBy(o.state) = Nodes
    /\ o.sent \in SUBSET Message
    /\ \A m \in o.sent : m.to \in Nodes /\ m.type = "Prepare"
    /\ \A n \in Nodes : \E m \in o.sent : m.to = n /\ m.type = "Prepare"

\* One message to each node of a set, at most as many as there are nodes.
LEMMA ToSomeNodes ==
    ASSUME NEW make, make \in [Nodes -> Message], NEW S, S \subseteq Nodes,
           NEW sent, \A m \in sent : \E n \in S : m = make[n], \A n \in S : make[n] \in sent
    PROVE  /\ sent \in SUBSET Message
           /\ Cardinality(sent) \in Nat /\ Cardinality(Nodes) \in Nat
           /\ Cardinality(sent) <= Cardinality(Nodes)
<1> DEFINE f == [n \in S |-> make[n]]
<1>1. f \in Surjection(S, sent)
  BY DEF Surjection
<1>2. IsFiniteSet(S) /\ Cardinality(S) <= Cardinality(Nodes)
  BY NodesAreNumbered, FS_Subset
<1> HIDE DEF f
<1>3. IsFiniteSet(sent) /\ Cardinality(sent) <= Cardinality(S)
  BY <1>1, <1>2, FS_Surjection
<1>4. sent \in SUBSET Message
  OBVIOUS
<1>5. Cardinality(sent) \in Nat /\ Cardinality(S) \in Nat /\ Cardinality(Nodes) \in Nat
  BY <1>2, <1>3, NodesAreNumbered, FS_CardinalityType
<1>6. QED
  BY <1>2, <1>3, <1>4, <1>5

\* A message to each node of S.
ArePrepares(sent, S) == sent = {PrepareMessage(n) : n \in S}
AreDecisions(sent, S, d) == sent = {DecisionMessage(n, d) : n \in S}

LEMMA Prepares ==
    ASSUME NEW S, S \subseteq Nodes, NEW sent, ArePrepares(sent, S)
    PROVE  /\ sent \in SUBSET Message
           /\ Cardinality(sent) \in Nat /\ Cardinality(Nodes) \in Nat
           /\ Cardinality(sent) <= Cardinality(Nodes)
           /\ \A m \in sent : m.to \in S /\ m.type = "Prepare"
           /\ \A n \in S : \E m \in sent : m.to = n /\ m.type = "Prepare"
<1> DEFINE make == [n \in Nodes |-> PrepareMessage(n)]
<1>1. make \in [Nodes -> Message]
  BY DEF PrepareMessage, Message
<1>2. (\A m \in sent : \E n \in S : m = make[n]) /\ \A n \in S : make[n] \in sent
  BY DEF ArePrepares
<1>3. \A n \in S : PrepareMessage(n).to = n /\ PrepareMessage(n).type = "Prepare"
  BY DEF PrepareMessage
<1>4. /\ \A m \in sent : m.to \in S /\ m.type = "Prepare"
      /\ \A n \in S : \E m \in sent : m.to = n /\ m.type = "Prepare"
  BY <1>3 DEF ArePrepares
<1> HIDE DEF make
<1>5. /\ sent \in SUBSET Message
      /\ Cardinality(sent) \in Nat /\ Cardinality(Nodes) \in Nat
      /\ Cardinality(sent) <= Cardinality(Nodes)
  BY <1>1, <1>2, ToSomeNodes
<1>6. QED
  BY <1>4, <1>5

LEMMA Decisions ==
    ASSUME NEW S, S \subseteq Nodes, NEW d, NEW sent, AreDecisions(sent, S, d)
    PROVE  /\ sent \in SUBSET Message
           /\ Cardinality(sent) \in Nat /\ Cardinality(Nodes) \in Nat
           /\ Cardinality(sent) <= Cardinality(Nodes)
           /\ \A m \in sent : m.to \in S /\ IsDecision(m)
           /\ \A n \in S : \E m \in sent : m.to = n /\ IsDecision(m)
<1> DEFINE make == [n \in Nodes |-> DecisionMessage(n, d)]
<1>1. make \in [Nodes -> Message]
  BY DEF DecisionMessage, DecisionType, Message
<1>2. (\A m \in sent : \E n \in S : m = make[n]) /\ \A n \in S : make[n] \in sent
  BY DEF AreDecisions
<1>3. \A n \in S : DecisionMessage(n, d).to = n /\ IsDecision(DecisionMessage(n, d))
  BY DEF DecisionMessage, DecisionType, IsDecision
<1>4. /\ \A m \in sent : m.to \in S /\ IsDecision(m)
      /\ \A n \in S : \E m \in sent : m.to = n /\ IsDecision(m)
  BY <1>3 DEF AreDecisions
<1> HIDE DEF make
<1>5. /\ sent \in SUBSET Message
      /\ Cardinality(sent) \in Nat /\ Cardinality(Nodes) \in Nat
      /\ Cardinality(sent) <= Cardinality(Nodes)
  BY <1>1, <1>2, ToSomeNodes
<1>6. QED
  BY <1>4, <1>5

\* Both together.
LEMMA BothSent ==
    ASSUME NEW P \in SUBSET Message, NEW Q \in SUBSET Message
    PROVE  /\ Cardinality(P \cup Q) \in Nat
           /\ Cardinality(P \cup Q) <= Cardinality(P) + Cardinality(Q)
<1>1. /\ IsFiniteSet(P) /\ IsFiniteSet(Q)
      /\ IsFiniteSet(P \cap Q) /\ IsFiniteSet(P \cup Q)
  BY MessagesAreFinite, FS_Subset, FS_Union
<1>2. Cardinality(P \cup Q) = Cardinality(P) + Cardinality(Q) - Cardinality(P \cap Q)
  BY <1>1, FS_Union
<1>3. /\ Cardinality(P) \in Nat /\ Cardinality(Q) \in Nat
      /\ Cardinality(P \cap Q) \in Nat /\ Cardinality(P \cup Q) \in Nat
  BY <1>1, FS_CardinalityType
<1>4. QED
  BY <1>2, <1>3

LEMMA NothingCounts == {} \in SUBSET Message /\ Cardinality({}) = 0
BY FS_EmptySet

\* The broadcast that TrySendDecision makes of a decision.
LEMMA SendsDecision ==
    ASSUME NEW c \in CoordinatorState, c.phase = "Decided", NEW o, o = TrySendDecision(c)
    PROVE  /\ o.state \in CoordinatorState
           /\ o.state.phase = "AwaitingAcks" /\ o.state.acks = {}
           /\ AreDecisions(o.sent, Nodes, c.decision)
BY DEF AreDecisions, TrySendDecision, Outcome, CoordinatorState, CoordinatorPhase

LEMMA DecideTyped ==
    ASSUME NEW c \in CoordinatorState, NEW d \in Decision
    PROVE  Decide(c, d) \in CoordinatorState /\ Decide(c, d).phase = "Decided"
BY DEF Decide, CoordinatorState, CoordinatorPhase, NoVotes

LEMMA FreshlyAwaited ==
    ASSUME NEW c, c.phase = "AwaitingAcks", c.acks = {}
    PROVE  AwaitedBy(c) = Nodes
BY DEF AwaitedBy

LEMMA NoneHeard == \A c : Heard(c, {}) = {}
BY DEF Heard

\* The outcomes of a tick.
LEMMA TickTurn ==
    ASSUME NEW c \in CoordinatorState, NEW elapsed \in BOOLEAN, NEW o \in CoordinatorTick(c, elapsed)
    PROVE  \/ o.state = c /\ Waits(c, elapsed, {}, o)
           \/ /\ o.state \in CoordinatorState /\ o.state.phase = "AwaitingAcks" /\ o.state.acks = {}
              /\ Decides(c, elapsed, {}, o)
           \/ Rests(c, o)
<1>1. ASSUME NEW d \in CoordinatorState, d.phase = "Decided", c.phase \in {"Voting", "Decided"},
             o = TrySendDecision(d)
      PROVE  /\ o.state \in CoordinatorState /\ o.state.phase = "AwaitingAcks" /\ o.state.acks = {}
             /\ Decides(c, elapsed, {}, o)
  <2>1. /\ o.state \in CoordinatorState
        /\ o.state.phase = "AwaitingAcks" /\ o.state.acks = {}
        /\ AreDecisions(o.sent, Nodes, d.decision)
    BY <1>1, SendsDecision
  <2>2. AwaitedBy(o.state) = Nodes
    BY <2>1, FreshlyAwaited
  <2>3. /\ o.sent \in SUBSET Message
        /\ Cardinality(o.sent) \in Nat /\ Cardinality(Nodes) \in Nat
        /\ Cardinality(o.sent) <= Cardinality(Nodes)
        /\ \A m \in o.sent : m.to \in Nodes /\ IsDecision(m)
        /\ \A n \in Nodes : \E m \in o.sent : m.to = n /\ IsDecision(m)
    BY <2>1, Decisions
  <2>4. Cardinality(o.sent) <= 2 * Cardinality(Nodes)
    BY <2>3
  <2>5. QED
    BY <1>1, <2>1, <2>2, <2>3, <2>4 DEF Decides
<1>2. CASE c.phase = "Voting"
  <2> DEFINE S == {u \in Nodes : c.votes[u] = None}
             asked == {PrepareMessage(n) : n \in S}
  <2>1. \/ o = TrySendDecision(Decide(c, "Abort"))
        \/ o = Outcome(c, When(elapsed, asked))
    BY <1>2 DEF CoordinatorTick, TickVoting
  <2>2. AwaitedBy(c) = S
    BY <1>2 DEF AwaitedBy
  <2>3. CASE o = Outcome(c, When(elapsed, asked))
    <3>1. o.state = c /\ o.sent = IF elapsed THEN asked ELSE {}
      BY <2>3 DEF Outcome, When
    <3>2. /\ asked \in SUBSET Message
          /\ Cardinality(asked) \in Nat /\ Cardinality(Nodes) \in Nat
          /\ Cardinality(asked) <= Cardinality(Nodes)
          /\ \A m \in asked : m.to \in S /\ m.type = "Prepare"
          /\ \A n \in S : \E m \in asked : m.to = n /\ m.type = "Prepare"
      <4>1. S \subseteq Nodes
        OBVIOUS
      <4>2. ArePrepares(asked, S)
        BY DEF ArePrepares
      <4> HIDE DEF S, asked
      <4>3. QED
        BY <4>1, <4>2, Prepares
    <3> HIDE DEF S, asked
    <3>3. Cardinality(o.sent) <= Cardinality(Nodes)
      BY <3>1, <3>2, NothingCounts
    <3>4. Waits(c, elapsed, {}, o)
      BY <1>2, <2>2, <3>1, <3>2, <3>3, NoneHeard DEF Waits, ConcernsPhase
    <3>5. QED
      BY <3>1, <3>4
  <2>4. CASE o = TrySendDecision(Decide(c, "Abort"))
    <3>1. Decide(c, "Abort") \in CoordinatorState /\ Decide(c, "Abort").phase = "Decided"
      BY DecideTyped DEF Decision
    <3>2. QED
      BY <1>1, <1>2, <2>4, <3>1
  <2>5. QED
    BY <2>1, <2>3, <2>4
<1>3. CASE c.phase = "AwaitingAcks"
  <2> DEFINE S == Nodes \ c.acks
             asked == {DecisionMessage(n, c.decision) : n \in S}
  <2>1. o = Outcome(c, When(elapsed, asked))
    BY <1>3 DEF CoordinatorTick, TickAwaitingAcks
  <2>2. AwaitedBy(c) = S
    BY <1>3 DEF AwaitedBy
  <2>3. o.state = c /\ o.sent = IF elapsed THEN asked ELSE {}
    BY <2>1 DEF Outcome, When
  <2>4. /\ asked \in SUBSET Message
        /\ Cardinality(asked) \in Nat /\ Cardinality(Nodes) \in Nat
        /\ Cardinality(asked) <= Cardinality(Nodes)
        /\ \A m \in asked : m.to \in S /\ IsDecision(m)
        /\ \A n \in S : \E m \in asked : m.to = n /\ IsDecision(m)
    <3>1. S \subseteq Nodes
      OBVIOUS
    <3>2. AreDecisions(asked, S, c.decision)
      BY DEF AreDecisions
    <3> HIDE DEF S, asked
    <3>3. /\ asked \in SUBSET Message
          /\ Cardinality(asked) \in Nat /\ Cardinality(Nodes) \in Nat
          /\ Cardinality(asked) <= Cardinality(Nodes)
      BY <3>1, <3>2, Decisions
    <3>4. /\ \A m \in asked : m.to \in S /\ IsDecision(m)
          /\ \A n \in S : \E m \in asked : m.to = n /\ IsDecision(m)
      BY <3>1, <3>2, Decisions
    <3>5. QED
      BY <3>3, <3>4
  <2> HIDE DEF S, asked
  <2>5. Cardinality(o.sent) <= Cardinality(Nodes)
    BY <2>3, <2>4, NothingCounts
  <2>6. Waits(c, elapsed, {}, o)
    BY <1>3, <2>2, <2>3, <2>4, <2>5, NoneHeard DEF Waits, ConcernsPhase
  <2>7. QED
    BY <2>3, <2>6
<1>4. CASE c.phase = "Decided"
  <2>1. o = TrySendDecision(c)
    BY <1>4 DEF CoordinatorTick
  <2>2. QED
    BY <1>1, <1>4, <2>1
<1>5. CASE c.phase \in {"Waiting", "Done"}
  BY <1>5 DEF CoordinatorTick, Outcome, Rests
<1>6. QED
  BY <1>2, <1>3, <1>4, <1>5 DEF CoordinatorState, CoordinatorPhase

\* A handler that hears one message and sends nothing more leaves it waiting, for
\* one node less if it was waiting for that one, or finishes, or decides.
LEMMA HearsVote ==
    ASSUME NEW c \in CoordinatorState, c.phase = "Voting", NEW n \in Nodes, NEW v \in Vote,
           NEW o \in RecordVote(c, n, v)
    PROVE  \/ /\ o.sent = {} /\ o.state.phase = "Voting"
              /\ AwaitedBy(o.state) = AwaitedBy(c) \ {n}
           \/ /\ o.state.phase = "AwaitingAcks" /\ o.state.acks = {}
              /\ \E d : AreDecisions(o.sent, Nodes, d)
<1>1. CASE c.votes[n] # None
  BY <1>1 DEF RecordVote, Outcome, AwaitedBy
<1>2. CASE c.votes[n] = None
  <2> DEFINE t == [c EXCEPT !.votes[n] = v]
  <2>1. t \in CoordinatorState /\ t.phase = "Voting" /\ t.votes = [c.votes EXCEPT ![n] = v]
    BY DEF CoordinatorState
  <2>2. PICK d \in TryDecide(t) : o = TrySendDecision(d)
    BY <1>2 DEF RecordVote
  <2> HIDE DEF t
  <2>3. CASE d = t
    <3>1. o = Outcome(t, {})
      BY <2>1, <2>2, <2>3 DEF TrySendDecision
    <3>2. v # None
      BY DEF Vote, None
    <3>3. AwaitedBy(t) = AwaitedBy(c) \ {n}
      BY <1>2, <2>1, <3>2 DEF AwaitedBy, CoordinatorState
    <3>4. QED
      BY <2>1, <3>1, <3>3 DEF Outcome
  <2>4. CASE \E x \in Decision : d = Decide(t, x)
    <3>1. d \in CoordinatorState /\ d.phase = "Decided"
      BY <2>1, <2>4, DecideTyped
    <3>2. QED
      BY <2>2, <3>1, SendsDecision
  <2>5. d = t \/ \E x \in Decision : d = Decide(t, x)
    BY <2>2 DEF TryDecide, Decision
  <2>6. QED
    BY <2>3, <2>4, <2>5
<1>3. QED
  BY <1>1, <1>2

LEMMA HearsAck ==
    ASSUME NEW c \in CoordinatorState, c.phase = "AwaitingAcks", NEW n \in Nodes,
           NEW o \in RecordAck(c, n)
    PROVE  /\ o.sent = {}
           /\ \/ /\ o.state.phase = "AwaitingAcks" /\ o.state.acks = c.acks \cup {n}
                 /\ AwaitedBy(o.state) = AwaitedBy(c) \ {n}
              \/ o.state.phase = "Done" /\ AwaitedBy(c) \subseteq {n}
<1>1. CASE c.acks \cup {n} = Nodes
  <2>1. o = Outcome([c EXCEPT !.phase = "Done", !.acks = {}], {})
    BY <1>1 DEF RecordAck
  <2>2. o.sent = {} /\ o.state.phase = "Done"
    BY <2>1 DEF Outcome, CoordinatorState
  <2>3. AwaitedBy(c) \subseteq {n}
    BY <1>1 DEF AwaitedBy
  <2>4. QED
    BY <2>2, <2>3
<1>2. CASE c.acks \cup {n} # Nodes
  <2>1. /\ o.sent = {} /\ o.state.phase = "AwaitingAcks"
        /\ o.state.acks = c.acks \cup {n}
    BY <1>2 DEF RecordAck, Outcome, CoordinatorState
  <2>2. AwaitedBy(o.state) = AwaitedBy(c) \ {n}
    BY <2>1 DEF AwaitedBy
  <2>3. QED
    BY <2>1, <2>2
<1>3. QED
  BY <1>1, <1>2

\* What it makes of a message in the phase that its tick has left behind.
Handled(c, m, o) ==
    \/ /\ c.phase = "Voting" /\ IsVote(m) /\ m.from \in Nodes
       /\ o \in RecordVote(c, m.from, VoteOf(m))
    \/ /\ c.phase = "AwaitingAcks" /\ m.type = "Ack" /\ m.from \in Nodes
       /\ o \in RecordAck(c, m.from)
    \/ c.phase = "Waiting" /\ m = StartMessage /\ o \in BeginVoting(c)
    \/ o.state = c /\ o.sent = {} /\ Heard(c, {m}) = {}

LEMMA HandleCases ==
    ASSUME NEW c, NEW m \in Message \cup {StartMessage}, NEW o \in CoordinatorHandle(c, m)
    PROVE  Handled(c, m, o)
<1>1. /\ m.type = "StartTransaction" <=> m = StartMessage
      /\ m.type \in {"Prepare", "DecisionCommit", "DecisionAbort"} => m.from = CoordinatorId
      /\ m.type \in {"VoteCommit", "VoteAbort", "Ack"} => m.from \in Nodes
      /\ m.type \in {"StartTransaction", "Prepare", "DecisionCommit", "DecisionAbort",
                     "VoteCommit", "VoteAbort", "Ack"}
  BY DEF Message, StartMessage
<1>2. CASE c.phase = "Voting" /\ IsVote(m)
  BY <1>1, <1>2 DEF Handled, CoordinatorHandle, IsVote
<1>3. CASE c.phase = "AwaitingAcks" /\ m.type = "Ack"
  BY <1>1, <1>3 DEF Handled, CoordinatorHandle, IsVote
<1>4. CASE c.phase = "Waiting" /\ m = StartMessage
  BY <1>1, <1>4 DEF Handled, CoordinatorHandle, IsVote
<1>5. CASE /\ ~(c.phase = "Voting" /\ IsVote(m))
           /\ ~(c.phase = "AwaitingAcks" /\ m.type = "Ack")
           /\ ~(c.phase = "Waiting" /\ m = StartMessage)
  <2>1. o = Outcome(c, {})
    BY <1>1, <1>5 DEF Handled, CoordinatorHandle
  <2>2. Heard(c, {m}) = {}
    BY <1>1, <1>5, CoordinatorIsNoNode DEF Heard, ConcernsPhase, IsVote, IsDecision
  <2>3. QED
    BY <1>5, <2>1, <2>2 DEF Handled, Outcome
<1>6. QED
  BY <1>2, <1>3, <1>4, <1>5

\* The outcomes of on_message, which ticks first.
LEMMA OnMessageTurn ==
    ASSUME NEW c \in CoordinatorState, NEW elapsed \in BOOLEAN,
           NEW m \in Message \cup {StartMessage}, NEW o \in CoordinatorOnMessage(c, m, elapsed)
    PROVE  \/ Waits(c, elapsed, {m}, o) \/ Finishes(c, elapsed, {m}, o)
           \/ Decides(c, elapsed, {m}, o) \/ Rests(c, o) \/ Begins(c, {m}, o)
<1>1. PICK ticked \in CoordinatorTick(c, elapsed) :
        \E handled \in CoordinatorHandle(ticked.state, m) :
           o = Outcome(handled.state, ticked.sent \cup handled.sent)
  BY DEF CoordinatorOnMessage
<1>2. PICK handled \in CoordinatorHandle(ticked.state, m) :
        o = Outcome(handled.state, ticked.sent \cup handled.sent)
  BY <1>1
<1>3. o.state = handled.state /\ o.sent = ticked.sent \cup handled.sent
  BY <1>2 DEF Outcome
<1>4. Handled(ticked.state, m, handled)
  BY HandleCases
<1>5. CASE ticked.state = c /\ Waits(c, elapsed, {}, ticked)
  <2> USE <1>5
  <2>1. handled \in CoordinatorHandle(c, m)
    OBVIOUS
  <2>2. /\ c.phase \in {"Voting", "AwaitingAcks"}
        /\ ticked.sent \in SUBSET Message
        /\ ~elapsed => ticked.sent = {}
        /\ \A k \in ticked.sent : k.to \in AwaitedBy(c) /\ ConcernsPhase(c, k)
        /\ elapsed => \A n \in AwaitedBy(c) : \E k \in ticked.sent : k.to = n /\ ConcernsPhase(c, k)
        /\ Cardinality(ticked.sent) <= Cardinality(Nodes)
    BY DEF Waits
  <2>3. AwaitedBy(c) \subseteq Nodes
    BY DEF AwaitedBy
  <2>4. ASSUME handled.sent = {}, handled.state.phase = c.phase,
               AwaitedBy(handled.state) = AwaitedBy(c) \ Heard(c, {m})
        PROVE  Waits(c, elapsed, {m}, o)
    <3>1. o.sent = ticked.sent
      BY <1>3, <2>4
    <3>2. QED
      BY <1>3, <2>2, <2>4, <3>1 DEF Waits
  <2>5. CASE /\ c.phase = "Voting" /\ IsVote(m) /\ m.from \in Nodes
             /\ handled \in RecordVote(c, m.from, VoteOf(m))
    <3>1. Heard(c, {m}) = {m.from}
      BY <2>5 DEF Heard, ConcernsPhase
    <3>2. VoteOf(m) \in Vote
      BY DEF VoteOf, Vote
    <3>3. CASE /\ handled.sent = {} /\ handled.state.phase = "Voting"
               /\ AwaitedBy(handled.state) = AwaitedBy(c) \ {m.from}
      BY <2>4, <2>5, <3>1, <3>3
    <3>4. ASSUME handled.state.phase = "AwaitingAcks", handled.state.acks = {},
                 NEW d, AreDecisions(handled.sent, Nodes, d)
          PROVE  Decides(c, elapsed, {m}, o)
      <4>1. AreDecisions(handled.sent, Nodes, d)
        BY <3>4
      <4>2. /\ handled.sent \in SUBSET Message
            /\ Cardinality(handled.sent) \in Nat /\ Cardinality(Nodes) \in Nat
            /\ Cardinality(handled.sent) <= Cardinality(Nodes)
        BY <4>1, Decisions
      <4>3. /\ \A k \in handled.sent : k.to \in Nodes /\ IsDecision(k)
            /\ \A u \in Nodes : \E k \in handled.sent : k.to = u /\ IsDecision(k)
        BY <4>1, Decisions
      <4>4. Cardinality(ticked.sent) \in Nat /\ Cardinality(ticked.sent) <= Cardinality(Nodes)
        <5>1. ticked.sent \in SUBSET Message
          BY <2>2
        <5>2. IsFiniteSet(ticked.sent)
          BY <5>1, MessagesAreFinite, FS_Subset
        <5>3. QED
          BY <2>2, <5>2, FS_CardinalityType
      <4>5. Cardinality(o.sent) <= 2 * Cardinality(Nodes)
        <5> DEFINE P == ticked.sent
                   Q == handled.sent
        <5>1. P \in SUBSET Message /\ Q \in SUBSET Message /\ o.sent = P \cup Q
          BY <1>3, <2>2, <4>2
        <5>2. Cardinality(P) \in Nat /\ Cardinality(P) <= Cardinality(Nodes)
          BY <4>4
        <5>3. /\ Cardinality(Q) \in Nat /\ Cardinality(Nodes) \in Nat
              /\ Cardinality(Q) <= Cardinality(Nodes)
          BY <4>2
        <5> HIDE DEF P, Q
        <5>4. /\ Cardinality(P \cup Q) \in Nat
              /\ Cardinality(P \cup Q) <= Cardinality(P) + Cardinality(Q)
          BY <5>1, BothSent
        <5>5. QED
          BY <5>1, <5>2, <5>3, <5>4
      <4>6. ~elapsed => Cardinality(o.sent) <= Cardinality(Nodes)
        <5>1. ~elapsed => o.sent = handled.sent
          BY <1>3, <2>2
        <5>2. QED
          BY <4>2, <5>1
      <4>7. AwaitedBy(o.state) = Nodes
        BY <1>3, <3>4, FreshlyAwaited
      <4>8. /\ o.sent \in SUBSET Message
            /\ \A k \in o.sent : k.to \in Nodes
            /\ \A u \in Nodes : \E k \in o.sent : k.to = u /\ IsDecision(k)
            /\ ~elapsed => \A k \in o.sent : IsDecision(k)
        <5>1. o.sent = ticked.sent \cup handled.sent
          BY <1>3
        <5>2. /\ ticked.sent \in SUBSET Message /\ \A k \in ticked.sent : k.to \in Nodes
              /\ ~elapsed => ticked.sent = {}
          BY <2>2, <2>3
        <5>3. QED
          BY <4>2, <4>3, <5>1, <5>2
      <4>9. QED
        BY <1>3, <2>5, <3>4, <4>5, <4>6, <4>7, <4>8 DEF Decides
    <3>5. QED
      BY <2>5, <3>2, <3>3, <3>4, HearsVote
  <2>6. CASE /\ c.phase = "AwaitingAcks" /\ m.type = "Ack" /\ m.from \in Nodes
             /\ handled \in RecordAck(c, m.from)
    <3>1. Heard(c, {m}) = {m.from}
      BY <2>6 DEF Heard, ConcernsPhase
    <3>2. handled.sent = {}
      BY <2>6, HearsAck
    <3>3. CASE /\ handled.state.phase = "AwaitingAcks"
               /\ AwaitedBy(handled.state) = AwaitedBy(c) \ {m.from}
      BY <2>4, <2>6, <3>1, <3>2, <3>3
    <3>4. CASE handled.state.phase = "Done" /\ AwaitedBy(c) \subseteq {m.from}
      <4>1. o.sent = ticked.sent
        BY <1>3, <3>2
      <4>2. QED
        BY <1>3, <2>2, <2>3, <2>6, <3>1, <3>4, <4>1 DEF Finishes
    <3>5. QED
      BY <2>6, <3>3, <3>4, HearsAck
  <2>7. CASE handled.state = c /\ handled.sent = {} /\ Heard(c, {m}) = {}
    BY <2>4, <2>7
  <2>8. c.phase # "Waiting"
    BY <2>2
  <2>9. QED
    BY <2>1, <2>5, <2>6, <2>7, <2>8, <1>4 DEF Handled
<1>6. CASE /\ ticked.state \in CoordinatorState
           /\ ticked.state.phase = "AwaitingAcks" /\ ticked.state.acks = {}
           /\ Decides(c, elapsed, {}, ticked)
  <2> USE <1>6
  <2>1. AwaitedBy(ticked.state) = Nodes
    BY FreshlyAwaited
  <2>2. ASSUME handled.sent = {}, handled.state.phase \in {"AwaitingAcks", "Done"},
               \A n \in Nodes :
                  n \in AwaitedBy(handled.state) \/ (m.from = n /\ m.type = "Ack")
        PROVE  Decides(c, elapsed, {m}, o)
    <3>1. o.sent = ticked.sent
      BY <1>3, <2>2
    <3>2. QED
      BY <1>3, <2>2, <3>1 DEF Decides
  <2>3. CASE handled.state = ticked.state /\ handled.sent = {}
    BY <2>1, <2>2, <2>3
  <2>4. CASE /\ m.type = "Ack" /\ m.from \in Nodes
             /\ handled \in RecordAck(ticked.state, m.from)
    <3>1. /\ handled.sent = {}
          /\ \/ /\ handled.state.phase = "AwaitingAcks"
                /\ AwaitedBy(handled.state) = Nodes \ {m.from}
             \/ handled.state.phase = "Done" /\ Nodes \subseteq {m.from}
      BY <2>1, <2>4, HearsAck
    <3>2. \A n \in Nodes :
             n \in AwaitedBy(handled.state) \/ (m.from = n /\ m.type = "Ack")
      BY <2>4, <3>1
    <3>3. QED
      BY <2>2, <3>1, <3>2
  <2>5. ticked.state.phase # "Voting" /\ ticked.state.phase # "Waiting"
    OBVIOUS
  <2>6. QED
    BY <1>4, <2>3, <2>4, <2>5 DEF Handled
<1>7. CASE Rests(c, ticked)
  <2> USE <1>7 DEF Rests
  <2>1. CASE c.phase = "Waiting" /\ m = StartMessage /\ handled \in BeginVoting(c)
    <3>1. /\ handled.state.phase = "Voting" /\ handled.state.votes = NoVotes
          /\ ArePrepares(handled.sent, Nodes)
      <4>1. handled = Outcome([c EXCEPT !.phase = "Voting", !.votes = NoVotes],
                              {PrepareMessage(n) : n \in Nodes})
        BY <2>1 DEF BeginVoting
      <4>2. QED
        BY <4>1 DEF ArePrepares, Outcome, CoordinatorState
    <3>0. AwaitedBy(handled.state) = Nodes
      BY <3>1 DEF AwaitedBy, NoVotes
    <3>2. Nodes \subseteq Nodes
      OBVIOUS
    <3>3. handled.sent \in SUBSET Message
      BY <3>1, <3>2, Prepares
    <3>4. /\ \A k \in handled.sent : k.to \in Nodes /\ k.type = "Prepare"
          /\ \A n \in Nodes : \E k \in handled.sent : k.to = n /\ k.type = "Prepare"
      BY <3>1, <3>2, Prepares
    <3>5. o.sent = handled.sent
      BY <1>3
    <3>6. QED
      BY <1>3, <2>1, <3>0, <3>1, <3>3, <3>4, <3>5 DEF Begins
  <2>2. CASE handled.state = c /\ handled.sent = {}
    BY <1>3, <2>2
  <2>3. c.phase # "Voting" /\ c.phase # "AwaitingAcks" /\ ticked.state = c
    OBVIOUS
  <2>4. QED
    BY <1>4, <2>1, <2>2, <2>3 DEF Handled
<1>8. QED
  BY <1>5, <1>6, <1>7, TickTurn

-----------------------------------------------------------------------------
(* The work in transit *)

IsRequest(d) == ~IsExternal(d) /\ d.event.message.to \in Nodes
IsAnswer(d) == ~IsExternal(d) /\ d.event.message.to \notin Nodes

\* The deliveries that the messages in S can still cause, not counting those of
\* the coordinator's own making: a request has an answer, an answer has none.
Load(S) == 2 * Cardinality({d \in S : IsRequest(d)}) + Cardinality({d \in S : IsAnswer(d)})

LEMMA LoadParts ==
    ASSUME NEW S, IsFiniteSet(S)
    PROVE  /\ IsFiniteSet({d \in S : IsRequest(d)}) /\ IsFiniteSet({d \in S : IsAnswer(d)})
           /\ Cardinality({d \in S : IsRequest(d)}) \in Nat
           /\ Cardinality({d \in S : IsAnswer(d)}) \in Nat
           /\ Load(S) \in Nat
<1> DEFINE R == {d \in S : IsRequest(d)}
           A == {d \in S : IsAnswer(d)}
<1>1. R \subseteq S /\ A \subseteq S /\ Load(S) = 2 * Cardinality(R) + Cardinality(A)
  BY DEF Load
<1> HIDE DEF R, A
<1>2. IsFiniteSet(R) /\ IsFiniteSet(A)
  BY <1>1, FS_Subset
<1>3. Cardinality(R) \in Nat /\ Cardinality(A) \in Nat
  BY <1>2, FS_CardinalityType
<1>4. QED
  BY <1>1, <1>2, <1>3 DEF R, A

LEMMA LoadRemoved ==
    ASSUME NEW S, IsFiniteSet(S), NEW e \in S
    PROVE  /\ IsFiniteSet(S \ {e}) /\ Load(S \ {e}) \in Nat /\ Load(S) \in Nat
           /\ IsRequest(e) => Load(S \ {e}) = Load(S) - 2
           /\ IsAnswer(e) => Load(S \ {e}) = Load(S) - 1
           /\ IsExternal(e) => Load(S \ {e}) = Load(S)
<1> DEFINE R == {d \in S : IsRequest(d)}
           A == {d \in S : IsAnswer(d)}
           Q == {d \in S \ {e} : IsRequest(d)}
           B == {d \in S \ {e} : IsAnswer(d)}
<1>1. IsFiniteSet(S \ {e})
  BY FS_RemoveElement
<1>2. /\ Load(S) = 2 * Cardinality(R) + Cardinality(A)
      /\ Load(S \ {e}) = 2 * Cardinality(Q) + Cardinality(B)
  BY DEF Load
<1>3. Load(S) \in Nat /\ Load(S \ {e}) \in Nat
  BY <1>1, LoadParts
<1>4. /\ IsRequest(e) => Q = R \ {e} /\ e \in R /\ B = A
      /\ IsAnswer(e) => Q = R /\ B = A \ {e} /\ e \in A
      /\ IsExternal(e) => Q = R /\ B = A
  BY DEF IsRequest, IsAnswer
<1>5. /\ IsFiniteSet(R) /\ IsFiniteSet(A)
      /\ Cardinality(R) \in Nat /\ Cardinality(A) \in Nat
  BY LoadParts
<1> HIDE DEF R, A, Q, B
<1>6. IsRequest(e) => Cardinality(Q) = Cardinality(R) - 1
  BY <1>4, <1>5, FS_RemoveElement
<1>7. IsAnswer(e) => Cardinality(B) = Cardinality(A) - 1
  BY <1>4, <1>5, FS_RemoveElement
<1>8. QED
  BY <1>1, <1>2, <1>3, <1>4, <1>5, <1>6, <1>7

LEMMA UnionCounts ==
    ASSUME NEW P, NEW Q, IsFiniteSet(P), IsFiniteSet(Q)
    PROVE  /\ IsFiniteSet(P \cup Q)
           /\ Cardinality(P) \in Nat /\ Cardinality(Q) \in Nat
           /\ Cardinality(P \cup Q) \in Nat
           /\ Cardinality(P \cup Q) <= Cardinality(P) + Cardinality(Q)
<1>1. IsFiniteSet(P \cap Q)
  BY FS_Subset
<1>2. /\ IsFiniteSet(P \cup Q)
      /\ Cardinality(P \cup Q) = Cardinality(P) + Cardinality(Q) - Cardinality(P \cap Q)
  BY FS_Union
<1>3. /\ Cardinality(P) \in Nat /\ Cardinality(Q) \in Nat
      /\ Cardinality(P \cap Q) \in Nat /\ Cardinality(P \cup Q) \in Nat
  BY <1>1, <1>2, FS_CardinalityType
<1>4. QED
  BY <1>2, <1>3

LEMMA LoadAdded ==
    ASSUME NEW S, IsFiniteSet(S), NEW T, IsFiniteSet(T), \A d \in T : ~IsExternal(d)
    PROVE  /\ Load(S) \in Nat /\ Load(S \cup T) \in Nat /\ Cardinality(T) \in Nat
           /\ Load(S \cup T) <= Load(S) + 2 * Cardinality(T)
           /\ (\A d \in T : IsAnswer(d)) => Load(S \cup T) <= Load(S) + Cardinality(T)
<1> DEFINE RS == {d \in S : IsRequest(d)}
           AS == {d \in S : IsAnswer(d)}
           RT == {d \in T : IsRequest(d)}
           AT == {d \in T : IsAnswer(d)}
           RU == {d \in S \cup T : IsRequest(d)}
           AU == {d \in S \cup T : IsAnswer(d)}
<1>1. /\ Load(S) = 2 * Cardinality(RS) + Cardinality(AS)
      /\ Load(S \cup T) = 2 * Cardinality(RU) + Cardinality(AU)
  BY DEF Load
<1>2. /\ IsFiniteSet(RS) /\ IsFiniteSet(AS) /\ IsFiniteSet(RT) /\ IsFiniteSet(AT)
      /\ Cardinality(RS) \in Nat /\ Cardinality(AS) \in Nat
      /\ Cardinality(RT) \in Nat /\ Cardinality(AT) \in Nat
  BY LoadParts
<1>3. /\ RU = RS \cup RT /\ AU = AS \cup AT
      /\ T = RT \cup AT /\ RT \cap AT = {}
      /\ (\A d \in T : IsAnswer(d)) => RT = {} /\ AT = T
  BY DEF IsRequest, IsAnswer
<1> HIDE DEF RS, AS, RT, AT, RU, AU
<1>4. /\ Cardinality(RU) <= Cardinality(RS) + Cardinality(RT)
      /\ Cardinality(AU) <= Cardinality(AS) + Cardinality(AT)
      /\ Cardinality(RU) \in Nat /\ Cardinality(AU) \in Nat
  BY <1>2, <1>3, UnionCounts
<1>5. Cardinality(T) = Cardinality(RT) + Cardinality(AT)
  <2>1. Cardinality(RT \cup AT) = Cardinality(RT) + Cardinality(AT) - Cardinality(RT \cap AT)
    BY <1>2, FS_Union
  <2>2. Cardinality(RT \cap AT) = 0
    BY <1>3, FS_EmptySet
  <2>3. QED
    BY <1>2, <1>3, <2>1, <2>2
<1>6. (\A d \in T : IsAnswer(d)) => Cardinality(RT) = 0
  BY <1>3, FS_EmptySet
<1>7. Load(S) \in Nat /\ Load(S \cup T) \in Nat /\ Cardinality(T) \in Nat
  BY <1>1, <1>2, <1>4, <1>5
<1>8. Load(S \cup T) <= Load(S) + 2 * Cardinality(T)
  BY <1>1, <1>2, <1>4, <1>5
<1>9. Cardinality(RT) = 0 => Load(S \cup T) <= Load(S) + Cardinality(T)
  BY <1>1, <1>2, <1>4, <1>5
<1>10. QED
  BY <1>6, <1>7, <1>8, <1>9

-----------------------------------------------------------------------------
(* What becomes of a message *)

\* A message is a request or an answer.
LEMMA MessageEnds ==
    ASSUME NEW m \in Message
    PROVE  \/ m.to = CoordinatorId /\ m.from \in Nodes /\ m.to \notin Nodes
              /\ m.from # CoordinatorId /\ (IsVote(m) \/ m.type = "Ack") /\ ~IsDecision(m)
              /\ m.type # "Prepare"
           \/ m.from = CoordinatorId /\ m.to \in Nodes /\ m.to # CoordinatorId
              /\ m.from \notin Nodes /\ (m.type = "Prepare" \/ IsDecision(m)) /\ ~IsVote(m)
              /\ m.type # "Ack"
BY CoordinatorIsNoNode DEF Message, IsVote, IsDecision

\* The coordinator takes a turn, having heard the messages in `heard'.
CoordinatorActs(e, heard, o) ==
    /\ coordinator' = o.state
    /\ lastSend' = SendTime(e.timestamp, o.state)
    /\ UNCHANGED <<participants, status>>
    /\ o.sent \in SUBSET Message
    /\ \E added : Departed(e, o.sent, added)
    /\ LET elapsed == Elapsed(e.timestamp)
       IN  \/ Waits(coordinator, elapsed, heard, o) \/ Finishes(coordinator, elapsed, heard, o)
           \/ Decides(coordinator, elapsed, heard, o) \/ Rests(coordinator, o)
           \/ Begins(coordinator, heard, o)

\* A participant answers a Prepare before it has learned the decision, and every
\* decision.
Answers(p, m, sent) ==
    /\ sent \in SUBSET Message /\ Cardinality(sent) <= 1
    /\ \A k \in sent : k.from = m.to /\ k.to = CoordinatorId
    /\ m.type = "Prepare" => \A k \in sent : IsVote(k)
    /\ m.type = "Prepare" /\ p.phase # "Decided" => \E k \in sent : IsVote(k)
    /\ IsDecision(m) => \A k \in sent : k.type = "Ack"
    /\ IsDecision(m) => \E k \in sent : k.type = "Ack"

\* The phase in which m leaves a participant.
PhaseAfter(phase, m) ==
    IF IsDecision(m) THEN "Decided" ELSE IF phase = "Waiting" THEN "Voted" ELSE phase

ParticipantActs(e, m) ==
    /\ UNCHANGED <<coordinator, lastSend, status, started>>
    /\ participants'[m.to].phase = PhaseAfter(participants[m.to].phase, m)
    /\ \A n \in Nodes \ {m.to} : participants'[n] = participants[n]
    /\ \E sent, added : Answers(participants[m.to], m, sent) /\ Departed(e, sent, added)

IsLost(e) == queue'.entries = queue.entries \ {e} /\ UNCHANGED actorVars

LEMMA CoordinatorTurn ==
    ASSUME IInv, TypeOK, NEW e \in queue.entries, NEW delivered, NEW outcomes,
           CoordinatorReturns(e, delivered, outcomes),
           NEW heard,
           \A o \in outcomes :
              LET elapsed == Elapsed(e.timestamp)
              IN  \/ Waits(coordinator, elapsed, heard, o)
                  \/ Finishes(coordinator, elapsed, heard, o)
                  \/ Decides(coordinator, elapsed, heard, o) \/ Rests(coordinator, o)
                  \/ Begins(coordinator, heard, o)
    PROVE  \E o : CoordinatorActs(e, heard, o)
<1>1. PICK o \in outcomes : /\ coordinator' = o.state
                            /\ lastSend' = SendTime(e.timestamp, o.state)
                            /\ Conclude(e, delivered, o.sent)
  BY DEF CoordinatorReturns
<1>2. o.sent \in SUBSET Message
  BY DEF Waits, Finishes, Decides, Rests, Begins
<1>3. \E added : Departed(e, o.sent, added)
  BY <1>1, <1>2, Departures
<1>4. CoordinatorActs(e, heard, o)
  BY <1>1, <1>2, <1>3 DEF CoordinatorActs, CoordinatorReturns
<1>5. QED
  BY <1>4

LEMMA DeliveredToCoordinator ==
    ASSUME IInv, TypeOK, NEW e \in queue.entries, NEW m \in Message, DeliverToCoordinator(e, m)
    PROVE  \E o : CoordinatorActs(e, {m}, o)
<1>1. coordinator \in CoordinatorState /\ Elapsed(e.timestamp) \in BOOLEAN
  BY ElapsedTyped DEF TypeOK
<1>2. QED
  BY <1>1, OnMessageTurn, CoordinatorTurn DEF DeliverToCoordinator

LEMMA TickedCoordinator ==
    ASSUME IInv, TypeOK, NEW e \in queue.entries, Tick(e)
    PROVE  \E o : CoordinatorActs(e, {}, o)
<1>1. coordinator \in CoordinatorState /\ Elapsed(e.timestamp) \in BOOLEAN
  BY ElapsedTyped DEF TypeOK
<1>2. QED
  BY <1>1, TickTurn, CoordinatorTurn DEF Tick

LEMMA StartedCoordinator ==
    ASSUME IInv, TypeOK, NEW e \in queue.entries, StartTransaction(e)
    PROVE  \E o : CoordinatorActs(e, {StartMessage}, o)
<1>1. coordinator \in CoordinatorState /\ Elapsed(e.timestamp) \in BOOLEAN
  BY ElapsedTyped DEF TypeOK
<1>2. QED
  BY <1>1, OnMessageTurn, CoordinatorTurn DEF StartTransaction

LEMMA ParticipantTurn ==
    ASSUME NEW p \in ParticipantState, ParticipantRecover(p) = p, NEW m \in Message, m.to \in Nodes,
           NEW o \in ParticipantOnMessage(p, m.to, m)
    PROVE  Answers(p, m, o.sent)
<1>1. /\ m.type = "Prepare" \/ IsDecision(m)
      /\ ~(m.type = "Prepare" /\ IsDecision(m))
  BY CoordinatorIsNoNode DEF Message, IsDecision
<1>2. ASSUME NEW k \in Message, k.from = m.to, k.to = CoordinatorId, o.sent = {k},
             IsDecision(m) /\ k.type = "Ack"
      PROVE  Answers(p, m, o.sent)
  <2>1. Cardinality(o.sent) = 1
    BY <1>2, FS_Singleton
  <2>2. QED
    BY <1>1, <1>2, <2>1 DEF Answers
<1>3. CASE m.type = "Prepare"
  <2>0. o \in OnPrepare(p, m.to)
    BY <1>1, <1>3 DEF ParticipantOnMessage
  <2>1. CASE p.phase = "Decided"
    <3>1. OnPrepare(p, m.to) = {Outcome(p, {})}
      BY <2>1 DEF OnPrepare
    <3>2. o.sent = {}
      BY <2>0, <3>1 DEF Outcome
    <3>3. QED
      BY <1>1, <1>3, <2>1, <3>2, NothingCounts DEF Answers
  <2>2. ASSUME NEW v \in Vote, o.sent = {VoteMessage(m.to, v)} PROVE Answers(p, m, o.sent)
    <3>1. PICK cast : cast = VoteMessage(m.to, v)
      OBVIOUS
    <3>2. cast.type \in {"VoteCommit", "VoteAbort"} /\ cast.from = m.to /\ cast.to = CoordinatorId
      BY <3>1 DEF VoteMessage, VoteType
    <3>3. cast \in Message
      BY <3>1, <3>2 DEF VoteMessage, Message
    <3>4. IsVote(cast) /\ o.sent = {cast}
      BY <2>2, <3>1, <3>2 DEF IsVote
    <3>5. Cardinality(o.sent) = 1
      BY <3>4, FS_Singleton
    <3>6. QED
      BY <1>1, <1>3, <3>2, <3>3, <3>4, <3>5 DEF Answers
  <2>3. CASE p.phase = "Waiting"
    <3>1. OnPrepare(p, m.to) =
            {Outcome(CastVote(p, v), {VoteMessage(m.to, v)}) :
                v \in {IF abort THEN "Abort" ELSE "Commit" :
                          abort \in RandomBool(VoteAbortBias)}}
      BY <2>3 DEF OnPrepare
    <3>2. PICK v \in {IF abort THEN "Abort" ELSE "Commit" : abort \in RandomBool(VoteAbortBias)} :
             o = Outcome(CastVote(p, v), {VoteMessage(m.to, v)})
      BY <2>0, <3>1
    <3>3. v \in Vote
      BY DEF Vote
    <3>4. o.sent = {VoteMessage(m.to, v)}
      BY <3>2 DEF Outcome
    <3>5. QED
      BY <2>2, <3>3, <3>4
  <2>4. CASE p.phase = "Voted"
    <3>1. OnPrepare(p, m.to) = {Outcome(p, {VoteMessage(m.to, p.vote)})}
      BY <2>4 DEF OnPrepare
    <3>2. o.sent = {VoteMessage(m.to, p.vote)}
      BY <2>0, <3>1 DEF Outcome
    <3>3. p.vote \in Vote
      <4>1. /\ p.durableVote # None
            /\ p.vote = p.durableVote
        BY <2>4 DEF ParticipantRecover, ParticipantState
      <4>2. QED
        BY <4>1 DEF ParticipantState
    <3>4. QED
      BY <2>2, <3>2, <3>3
  <2>5. QED
    BY <2>1, <2>3, <2>4 DEF ParticipantState, ParticipantPhase
<1>4. CASE IsDecision(m)
  <2>1. o.sent = {AckMessage(m.to)}
    BY <1>1, <1>4 DEF ParticipantOnMessage, OnDecision, Outcome
  <2>2. /\ AckMessage(m.to) \in Message /\ AckMessage(m.to).type = "Ack"
        /\ AckMessage(m.to).from = m.to /\ AckMessage(m.to).to = CoordinatorId
    BY DEF AckMessage, Message
  <2>3. QED
    BY <1>2, <1>4, <2>1, <2>2
<1>5. QED
  BY <1>1, <1>3, <1>4

LEMMA PhaseMoves ==
    ASSUME NEW p \in ParticipantState, NEW m \in Message, m.to \in Nodes,
           NEW o \in ParticipantOnMessage(p, m.to, m)
    PROVE  o.state.phase = PhaseAfter(p.phase, m)
<1>1. CASE IsDecision(m)
  <2>1. o.state = IF p.phase = "Decided" THEN p ELSE Learn(p, DecisionOf(m))
    BY <1>1 DEF ParticipantOnMessage, OnDecision, Outcome, IsDecision
  <2>2. QED
    BY <1>1, <2>1 DEF Learn, PhaseAfter, ParticipantState
<1>2. CASE m.type = "Prepare" /\ ~IsDecision(m)
  <2>1. o \in OnPrepare(p, m.to)
    BY <1>2 DEF ParticipantOnMessage
  <2>2. CASE p.phase = "Waiting"
    <3>1. PICK v : o = Outcome(CastVote(p, v), {VoteMessage(m.to, v)})
      BY <2>1, <2>2 DEF OnPrepare
    <3>2. o.state.phase = "Voted"
      <4>1. CastVote(p, v).phase = "Voted"
        BY DEF CastVote, ParticipantState
      <4>2. QED
        BY <3>1, <4>1 DEF Outcome
    <3>3. QED
      BY <1>2, <2>2, <3>2 DEF PhaseAfter
  <2>3. CASE p.phase \in {"Voted", "Decided"}
    <3>1. o.state = p
      BY <2>1, <2>3 DEF OnPrepare, Outcome
    <3>2. QED
      BY <1>2, <2>3, <3>1 DEF PhaseAfter
  <2>4. QED
    BY <2>2, <2>3 DEF ParticipantState, ParticipantPhase
<1>3. QED
  BY <1>1, <1>2, MessageEnds

LEMMA DeliveredToParticipant ==
    ASSUME IInv, TypeOK, NEW e \in queue.entries, NEW m \in Message, DeliverToParticipant(e, m)
    PROVE  ParticipantActs(e, m)
<1>1. m.to \in Nodes /\ UNCHANGED <<coordinator, lastSend, status, started>>
  BY DEF DeliverToParticipant, ParticipantReturns
<1>2. PICK o \in ParticipantOnMessage(participants[m.to], m.to, m) :
         /\ participants' = [participants EXCEPT ![m.to] = o.state]
         /\ Conclude(e, {m}, o.sent)
  BY DEF DeliverToParticipant, ParticipantReturns
<1>3. participants[m.to] \in ParticipantState /\ participants \in [Nodes -> ParticipantState]
  BY <1>1 DEF TypeOK
<1>4. ParticipantRecover(participants[m.to]) = participants[m.to]
  BY <1>1, SameParticipant DEF IInv, TPC!IInv, TPC!CrashLosesNoVote
<1>5. Answers(participants[m.to], m, o.sent)
  BY <1>1, <1>2, <1>3, <1>4, ParticipantTurn
<1>6. \E added : Departed(e, o.sent, added)
  BY <1>2, <1>5, Departures DEF Answers
<1>7. o.state.phase = PhaseAfter(participants[m.to].phase, m)
  BY <1>1, <1>2, <1>3, PhaseMoves
<1>8. /\ participants'[m.to].phase = PhaseAfter(participants[m.to].phase, m)
      /\ \A n \in Nodes \ {m.to} : participants'[n] = participants[n]
  BY <1>1, <1>2, <1>3, <1>7
<1>9. QED
  BY <1>1, <1>5, <1>6, <1>8 DEF ParticipantActs

LEMMA DroppedIsLost ==
    ASSUME IInv, NEW e \in queue.entries, NEW m \in Message, Drop(e, m)
    PROVE  IsLost(e)
BY Typed DEF Drop, Remove, IsLost, QueueOK, QueueOf

\* A delivery is a turn of the actor it is for, or nothing if that one is down.
LEMMA DeliveryMoves ==
    ASSUME IInv, TypeOK, NEW e \in queue.entries, NEW m \in Message, e.event = DeliverEvent(m),
           Process(e)
    PROVE  \/ m.to = CoordinatorId /\ IsOperating(CoordinatorId) /\ \E o : CoordinatorActs(e, {m}, o)
           \/ m.to \in Nodes /\ IsOperating(m.to) /\ ParticipantActs(e, m)
           \/ ~IsOperating(m.to) /\ IsLost(e)
<1>1. \A k \in Message : e.event = DeliverEvent(k) => k = m
  BY EventsDiffer
<1>2. PICK k \in Message : DeliverToCoordinator(e, k) \/ DeliverToParticipant(e, k) \/ Drop(e, k)
  BY EventsNamed DEF Process, StartTransaction, Tick, TickInVain, Crash, RecoverInVain,
     RecoverCoordinator, RecoverParticipant
<1>3. k = m
  BY <1>1, <1>2 DEF DeliverToCoordinator, DeliverToParticipant, Drop
<1>4. CASE DeliverToCoordinator(e, m)
  BY <1>4, DeliveredToCoordinator DEF DeliverToCoordinator
<1>5. CASE DeliverToParticipant(e, m)
  BY <1>5, DeliveredToParticipant DEF DeliverToParticipant
<1>6. CASE Drop(e, m)
  BY <1>6, DroppedIsLost DEF Drop
<1>7. QED
  BY <1>2, <1>3, <1>4, <1>5, <1>6

\* An entry that is not an external event carries a message.
LEMMA EntryCarries ==
    ASSUME TypeOK, NEW e \in queue.entries, ~IsExternal(e)
    PROVE  /\ e.event.message \in Message /\ e.event = DeliverEvent(e.event.message)
           /\ e.timestamp \in Nat
<1>1. e.event \in Event /\ e.timestamp \in Nat
  BY DEF TypeOK, QueueOf
<1>2. e.event \in [kind : {"Deliver"}, message : Message]
  BY <1>1 DEF Event, ExternalEvent, IsExternal, StartEvent, TickAllEvent
<1>3. QED
  BY <1>1, <1>2 DEF DeliverEvent

-----------------------------------------------------------------------------
(* A budget of rounds *)

\* How often the coordinator can retransmit while an answer is on its way.
Retries == (2 * Trip) \div RetransmitTimeout

LEMMA RetriesTyped ==
    ASSUME RetransmitTimeout > 0
    PROVE  Retries \in Nat /\ 2 * Trip < (Retries + 1) * RetransmitTimeout
<1>1. 2 * Trip \in Nat /\ RetransmitTimeout \in Nat \ {0}
  BY TripTyped, RetransmitTimeoutAssumption
<1>2. \A a \in Nat, b \in Nat \ {0} : (a \div b) \in Nat /\ a < ((a \div b) + 1) * b
  OBVIOUS
<1>3. QED
  BY <1>1, <1>2 DEF Retries

\* The rounds that r retransmissions to everyone cost, with their answers.
Cost(r) == 2 * Cardinality(Nodes) * r

\* The rounds that one phase of the protocol costs.
Budget == Cost(Retries + 1)

\* The coordinator still owes a phase, if it is Voting.
Owed(c) == IF c.phase = "Voting" THEN Budget ELSE 0

LEMMA Costs ==
    ASSUME RetransmitTimeout > 0
    PROVE  /\ Cardinality(Nodes) \in Nat /\ Retries \in Nat /\ Budget \in Nat
           /\ \A r \in Nat : Cost(r) \in Nat /\ Cost(r + 1) = Cost(r) + 2 * Cardinality(Nodes)
           /\ Budget = Cost(Retries) + 2 * Cardinality(Nodes)
           /\ \A c : Owed(c) \in Nat
<1>1. Cardinality(Nodes) \in Nat /\ Retries \in Nat
  BY NodesAreNumbered, FS_CardinalityType, RetriesTyped
<1>2. \A k, r \in Nat : 2 * k * r \in Nat /\ 2 * k * (r + 1) = 2 * k * r + 2 * k
  OBVIOUS
<1>3. \A r \in Nat : Cost(r) \in Nat /\ Cost(r + 1) = Cost(r) + 2 * Cardinality(Nodes)
  BY <1>1, <1>2 DEF Cost
<1>4. Budget \in Nat /\ Budget = Cost(Retries) + 2 * Cardinality(Nodes)
  BY <1>1, <1>3 DEF Budget
<1>5. QED
  BY <1>1, <1>3, <1>4 DEF Owed

-----------------------------------------------------------------------------
(* Progress *)

\* For what the coordinator, in state c, wants from n, the queue S holds the request,
\* sent at time s, or the answer to it.
Outstanding(S, c, n, s) ==
    \E d \in S, m \in Message :
        /\ d.event = DeliverEvent(m) /\ ConcernsPhase(c, m)
        /\ \/ m.to = n /\ d.timestamp <= s + Trip
           \/ m.from = n /\ d.timestamp <= s + 2 * Trip

AllAsked(S, c, s) == \A n \in AwaitedBy(c) : Outstanding(S, c, n, s)

\* All answers come before the coordinator, which last sent at time `last', has
\* retransmitted more than r times.
InTime(s, last, r) == s + 2 * Trip < last + (r + 1) * RetransmitTimeout

Covered(S, c, last, k) ==
    \E s, r \in Nat :
        /\ AllAsked(S, c, s) /\ InTime(s, last, r)
        /\ Load(S) + Cost(r) + Owed(c) + 1 <= k

\* The coordinator waits for a node that is down,
Hopeless ==
    /\ IsOperating(CoordinatorId)
    /\ \E n \in AwaitedBy(coordinator) : ~IsOperating(n)

\* or only for nodes that are up, and k rounds are enough to hear from them,
Active(k) ==
    /\ IsOperating(CoordinatorId)
    /\ \A n \in AwaitedBy(coordinator) : IsOperating(n)
    /\ coordinator.phase \in {"Voting", "AwaitingAcks"}
    /\ Covered(queue.entries, coordinator, lastSend, k)

\* or for nobody, and k rounds are enough to deliver what is left.
Finished(k) ==
    /\ IsOperating(CoordinatorId)
    /\ coordinator.phase = "Done"
    /\ Load(queue.entries) + 1 <= k

NoExternals == \A d \in queue.entries : ~IsExternal(d)

\* Nobody who is down has a message under way.
SendersUp ==
    \A d \in queue.entries : ~IsExternal(d) => IsOperating(d.event.message.from)

LEMMA CarriedBy ==
    ASSUME NEW d, NEW m, d.event = DeliverEvent(m)
    PROVE  ~IsExternal(d) /\ d.event.message = m
BY DEF DeliverEvent, IsExternal

\* What a step leaves of the load.
LEMMA Ledger ==
    ASSUME IInv, TypeOK, NEW e \in queue.entries,
           NEW sent \in SUBSET Message, NEW added, Departed(e, sent, added)
    PROVE  /\ Load(queue.entries) \in Nat /\ Load(queue'.entries) \in Nat
           /\ Cardinality(sent) \in Nat
           /\ IsRequest(e) /\ (\A k \in sent : k.to = CoordinatorId)
                => Load(queue'.entries) <= Load(queue.entries) - 2 + Cardinality(sent)
           /\ IsAnswer(e)
                => Load(queue'.entries) <= Load(queue.entries) - 1 + 2 * Cardinality(sent)
           /\ IsExternal(e)
                => Load(queue'.entries) <= Load(queue.entries) + 2 * Cardinality(sent)
<1> DEFINE S == queue.entries
           R == S \ {e}
<1>1. /\ IsFiniteSet(R) /\ Load(R) \in Nat /\ Load(S) \in Nat
      /\ IsRequest(e) => Load(R) = Load(S) - 2
      /\ IsAnswer(e) => Load(R) = Load(S) - 1
      /\ IsExternal(e) => Load(R) = Load(S)
  <2>1. IsFiniteSet(S)
    BY DEF TypeOK
  <2> HIDE DEF S
  <2>2. QED
    BY <2>1, LoadRemoved DEF S
<1>2. /\ queue'.entries = R \cup added
      /\ IsFiniteSet(added) /\ Cardinality(added) <= Cardinality(sent)
  BY DEF Departed
<1>3. ASSUME NEW d \in added
      PROVE  ~IsExternal(d) /\ ((\A k \in sent : k.to = CoordinatorId) => IsAnswer(d))
  <2>1. PICK k \in sent : d.event = DeliverEvent(k)
    BY DEF Departed, Carries
  <2>2. ~IsExternal(d) /\ d.event.message = k
    BY <2>1, CarriedBy
  <2>3. QED
    BY <2>2, CoordinatorIsNoNode DEF IsAnswer
<1>4. Cardinality(sent) \in Nat
  BY MessagesAreFinite, FS_Subset, FS_CardinalityType
<1> HIDE DEF R
<1>5. /\ Load(R \cup added) \in Nat /\ Cardinality(added) \in Nat
      /\ Load(R \cup added) <= Load(R) + 2 * Cardinality(added)
      /\ (\A d \in added : IsAnswer(d)) => Load(R \cup added) <= Load(R) + Cardinality(added)
  BY <1>1, <1>2, <1>3, LoadAdded
<1> HIDE DEF S
<1>6. /\ Load(queue'.entries) \in Nat
      /\ Load(queue'.entries) <= Load(R) + 2 * Cardinality(sent)
  BY <1>1, <1>2, <1>4, <1>5
<1>7. (\A k \in sent : k.to = CoordinatorId)
         => Load(queue'.entries) <= Load(R) + Cardinality(sent)
  BY <1>1, <1>2, <1>3, <1>4, <1>5
<1>8. Load(S) \in Nat /\ Load(R) \in Nat
  BY <1>1
<1>9. QED
  BY <1>1, <1>4, <1>6, <1>7, <1>8 DEF S

-----------------------------------------------------------------------------
(* What becomes of the requests *)

\* They stay outstanding, but for the one that is delivered.
LEMMA StillOutstanding ==
    ASSUME NEW S, NEW S1, NEW e, S \ {e} \subseteq S1,
           NEW c, NEW c1, c1.phase = c.phase, NEW n, NEW s,
           Outstanding(S, c, n, s), Outstanding({e}, c, n, s) => Outstanding(S1, c1, n, s)
    PROVE  Outstanding(S1, c1, n, s)
<1>1. PICK d \in S, m \in Message :
        /\ d.event = DeliverEvent(m) /\ ConcernsPhase(c, m)
        /\ \/ m.to = n /\ d.timestamp <= s + Trip
           \/ m.from = n /\ d.timestamp <= s + 2 * Trip
  BY DEF Outstanding
<1>2. ConcernsPhase(c1, m)
  BY <1>1 DEF ConcernsPhase
<1>3. CASE d = e
  BY <1>1, <1>3 DEF Outstanding
<1>4. CASE d # e
  BY <1>1, <1>2, <1>4 DEF Outstanding
<1>5. QED
  BY <1>3, <1>4

LEMMA FreshlyAsked ==
    ASSUME NEW e, e.timestamp \in Nat, NEW sent, NEW added, Departed(e, sent, added),
           NEW c, NEW n, NEW m \in sent, m \in Message, m.to = n, ConcernsPhase(c, m)
    PROVE  Outstanding(queue'.entries, c, n, e.timestamp)
<1>1. PICK d \in added : Carries(d, m, e.timestamp)
  BY DEF Departed
<1>2. d \in queue'.entries
  BY <1>1 DEF Departed
<1>3. QED
  BY <1>1, <1>2 DEF Carries, Outstanding

-----------------------------------------------------------------------------
(* Deliveries to a coordinator that has hope *)

LEMMA Retransmission ==
    ASSUME RetransmitTimeout > 0, NEW s \in Nat, NEW r \in Nat, NEW last \in Nat, NEW now \in Nat,
           InTime(s, last, r), now <= s + 2 * Trip, last + RetransmitTimeout <= now
    PROVE  r - 1 \in Nat /\ InTime(s, now, r - 1) /\ Cost(r) = Cost(r - 1) + 2 * Cardinality(Nodes)
<1>1. RetransmitTimeout \in Nat /\ Trip \in Nat
  BY TripTyped, RetransmitTimeoutAssumption
<1>2. \A k, t \in Nat : (k + 1) * t = k * t + t /\ k * t \in Nat /\ 0 * t = 0
  OBVIOUS
<1>3. r * RetransmitTimeout \in Nat /\ s + 2 * Trip < last + r * RetransmitTimeout + RetransmitTimeout
  BY <1>1, <1>2 DEF InTime
<1>4. r # 0
  BY <1>1, <1>2, <1>3
<1>5. r - 1 \in Nat /\ (r - 1) + 1 = r
  BY <1>4
<1>6. InTime(s, now, r - 1)
  <2>1. s + 2 * Trip < now + r * RetransmitTimeout
    BY <1>1, <1>3
  <2>2. QED
    BY <1>5, <2>1 DEF InTime
<1>7. Cost(r) = Cost(r - 1) + 2 * Cardinality(Nodes)
  BY <1>5, Costs
<1>8. QED
  BY <1>5, <1>6, <1>7

\* The step that takes e is the next, and the coordinator waits for somebody.
LEMMA AnswerIsDue ==
    ASSUME Nodes # {}, Inherited, NEW e \in queue.entries, IsEarliest(queue, e),
           coordinator.phase \in {"Voting", "AwaitingAcks"},
           NEW s \in Nat, AllAsked(queue.entries, coordinator, s)
    PROVE  e.timestamp \in Nat /\ e.timestamp <= s + 2 * Trip
<1>1. AwaitedBy(coordinator) # {}
  <2>1. coordinator.acks \subseteq Nodes
    BY DEF Inherited, BaseInv, TypeOK, CoordinatorState
  <2>2. QED
    BY <2>1 DEF Inherited, TPC!AwaitsSomeone, TPC!None, None, AwaitedBy
<1>2. PICK n \in AwaitedBy(coordinator) : Outstanding(queue.entries, coordinator, n, s)
  BY <1>1 DEF AllAsked
<1>3. Trip \in Nat
  BY TripTyped
<1>4. PICK d \in queue.entries : d.timestamp <= s + Trip \/ d.timestamp <= s + 2 * Trip
  BY <1>2 DEF Outstanding
<1>5. e.timestamp <= d.timestamp
  <2>1. d = e \/ Precedes(e, d)
    BY DEF IsEarliest
  <2>2. e.timestamp \in Nat /\ d.timestamp \in Nat
    BY BaseFacts DEF Inherited
  <2>3. QED
    BY <2>1, <2>2 DEF Precedes
<1>6. e.timestamp \in Nat /\ d.timestamp \in Nat
  BY BaseFacts DEF Inherited
<1>7. QED
  BY <1>3, <1>4, <1>5, <1>6

LEMMA ElapsedMeans ==
    ASSUME RetransmitTimeout > 0, NEW now \in Nat, lastSend \in Nat, Elapsed(now)
    PROVE  lastSend + RetransmitTimeout <= now
BY RetransmitTimeoutAssumption DEF Elapsed, SaturatingSub

\* The delivery of an answer m to the coordinator, with a step that then acts as o.
Hears(e, m, o) ==
    /\ e \in queue.entries /\ IsEarliest(queue, e)
    /\ m \in Message /\ e.event = DeliverEvent(m) /\ m.to = CoordinatorId
    /\ CoordinatorActs(e, {m}, o)

LEMMA HearsFacts ==
    ASSUME RetransmitTimeout > 0, Nodes # {}, Inherited, NEW e, NEW m, NEW o, Hears(e, m, o)
    PROVE  /\ e \in queue.entries /\ e.timestamp \in Nat /\ m \in Message /\ m.to \notin Nodes
           /\ m.to = CoordinatorId
           /\ coordinator' = o.state /\ lastSend' = SendTime(e.timestamp, o.state)
           /\ lastSend \in Nat /\ status' = status /\ Cardinality(o.sent) \in Nat
           /\ o.sent \in SUBSET Message
           /\ Load(queue.entries) \in Nat /\ Load(queue'.entries) \in Nat
           /\ Load(queue'.entries) <= Load(queue.entries) - 1 + 2 * Cardinality(o.sent)
           /\ queue.entries \ {e} \subseteq queue'.entries
<1>1. /\ e \in queue.entries /\ m \in Message /\ e.event = DeliverEvent(m)
      /\ coordinator' = o.state /\ lastSend' = SendTime(e.timestamp, o.state)
      /\ status' = status /\ o.sent \in SUBSET Message /\ m.to = CoordinatorId
  BY DEF Hears, CoordinatorActs
<1>2. e.timestamp \in Nat /\ lastSend \in Nat /\ IInv /\ TypeOK
  BY <1>1, BaseFacts DEF Inherited, BaseInv
<1>3. m.to \notin Nodes
  BY <1>1, CoordinatorIsNoNode
<1>4. IsAnswer(e)
  BY <1>1, <1>3, CarriedBy DEF IsAnswer
<1>5. PICK added : Departed(e, o.sent, added)
  BY DEF Hears, CoordinatorActs
<1>6. /\ Load(queue.entries) \in Nat /\ Load(queue'.entries) \in Nat
      /\ Cardinality(o.sent) \in Nat
      /\ Load(queue'.entries) <= Load(queue.entries) - 1 + 2 * Cardinality(o.sent)
  BY <1>1, <1>2, <1>4, <1>5, Ledger
<1>7. queue.entries \ {e} \subseteq queue'.entries
  BY <1>5 DEF Departed
<1>8. QED
  BY <1>1, <1>2, <1>3, <1>6, <1>7

\* It goes on waiting: for one answer less, or longer for all of them.
LEMMA WaitingGoesOn ==
    ASSUME RetransmitTimeout > 0, Nodes # {}, Inherited, NEW e, NEW m, NEW o, Hears(e, m, o),
           Waits(coordinator, Elapsed(e.timestamp), {m}, o), NEW k \in Nat, Active(k)
    PROVE  Active(k - 1)'
<1> DEFINE c == coordinator
           S == queue.entries
<1>0. /\ e \in queue.entries /\ e.timestamp \in Nat /\ m \in Message /\ m.to \notin Nodes
      /\ coordinator' = o.state /\ lastSend' = SendTime(e.timestamp, o.state)
      /\ lastSend \in Nat /\ status' = status /\ Cardinality(o.sent) \in Nat
      /\ Load(queue.entries) \in Nat /\ Load(queue'.entries) \in Nat
      /\ Load(queue'.entries) <= Load(queue.entries) - 1 + 2 * Cardinality(o.sent)
      /\ queue.entries \ {e} \subseteq queue'.entries
  BY HearsFacts
<1>1. /\ o.state.phase = c.phase /\ c.phase \in {"Voting", "AwaitingAcks"}
      /\ AwaitedBy(o.state) = AwaitedBy(c) \ Heard(c, {m})
      /\ ~Elapsed(e.timestamp) => o.sent = {}
      /\ Cardinality(o.sent) <= Cardinality(Nodes)
  BY DEF Waits
<1>2. PICK s \in Nat, r \in Nat :
        /\ AllAsked(S, c, s) /\ InTime(s, lastSend, r)
        /\ Load(S) + Cost(r) + Owed(c) + 1 <= k
  BY DEF Active, Covered
<1>3. AllAsked(queue'.entries, o.state, s)
  <2> SUFFICES ASSUME NEW n \in AwaitedBy(o.state)
               PROVE  Outstanding(queue'.entries, o.state, n, s)
    BY DEF AllAsked
  <2>1. n \in AwaitedBy(c) /\ n \notin Heard(c, {m}) /\ n \in Nodes
    BY <1>1 DEF AwaitedBy
  <2>2. Outstanding(S, c, n, s)
    BY <1>2, <2>1 DEF AllAsked
  <2>3. ~Outstanding({e}, c, n, s)
    <3>1. ASSUME NEW w \in Message, e.event = DeliverEvent(w), ConcernsPhase(c, w),
                 w.to = n \/ w.from = n
          PROVE  FALSE
      <4>1. w = m
        BY <3>1, EventsDiffer DEF Hears
      <4>2. QED
        BY <1>0, <2>1, <3>1, <4>1 DEF Heard
    <3>2. QED
      BY <3>1 DEF Outstanding
  <2>4. QED
    BY <1>0, <1>1, <2>2, <2>3, StillOutstanding
<1>4. Owed(o.state) = Owed(c)
  BY <1>1 DEF Owed
<1>5. /\ Cost(r) \in Nat /\ Owed(c) \in Nat /\ Cardinality(Nodes) \in Nat
  BY Costs
<1>6. Covered(queue'.entries, o.state, lastSend', k - 1)
  <2>1. CASE Elapsed(e.timestamp)
    <3>1. lastSend' = e.timestamp
      BY <1>0, <1>1, <2>1 DEF SendTime
    <3>2. lastSend + RetransmitTimeout <= e.timestamp
      BY <1>0, <2>1, ElapsedMeans
    <3>3. e.timestamp <= s + 2 * Trip
      BY <1>0, <1>1, <1>2, AnswerIsDue DEF Hears
    <3>4. /\ r - 1 \in Nat /\ InTime(s, e.timestamp, r - 1)
          /\ Cost(r) = Cost(r - 1) + 2 * Cardinality(Nodes)
      BY <1>0, <1>2, <3>2, <3>3, Retransmission
    <3>5. Cost(r - 1) \in Nat
      BY <3>4, Costs
    <3>6. Load(queue'.entries) + Cost(r - 1) + Owed(o.state) + 1 <= k - 1
      BY <1>0, <1>1, <1>2, <1>4, <1>5, <3>4, <3>5
    <3>7. QED
      BY <1>3, <3>1, <3>4, <3>6 DEF Covered
  <2>2. CASE ~Elapsed(e.timestamp)
    <3>1. lastSend' = lastSend
      BY <1>0, <1>1, <2>2 DEF SendTime
    <3>2. Cardinality(o.sent) = 0
      BY <1>1, <2>2, NothingCounts
    <3>3. Load(queue'.entries) + Cost(r) + Owed(o.state) + 1 <= k - 1
      BY <1>0, <1>2, <1>4, <1>5, <3>2
    <3>4. QED
      BY <1>2, <1>3, <3>1, <3>3 DEF Covered
  <2>3. QED
    BY <2>1, <2>2
<1>7. QED
  BY <1>0, <1>1, <1>6 DEF Active, IsOperating

\* It hears the last Ack.
LEMMA WaitingEnds ==
    ASSUME RetransmitTimeout > 0, Nodes # {}, Inherited, NEW e, NEW m, NEW o, Hears(e, m, o),
           Finishes(coordinator, Elapsed(e.timestamp), {m}, o), NEW k \in Nat, Active(k)
    PROVE  Finished(k - 1)'
<1> DEFINE c == coordinator
           S == queue.entries
<1>0. /\ e \in queue.entries /\ e.timestamp \in Nat
      /\ coordinator' = o.state /\ lastSend \in Nat /\ status' = status
      /\ Cardinality(o.sent) \in Nat
      /\ Load(queue.entries) \in Nat /\ Load(queue'.entries) \in Nat
      /\ Load(queue'.entries) <= Load(queue.entries) - 1 + 2 * Cardinality(o.sent)
  BY HearsFacts
<1>1. /\ c.phase = "AwaitingAcks" /\ o.state.phase = "Done"
      /\ ~Elapsed(e.timestamp) => o.sent = {}
      /\ Cardinality(o.sent) <= Cardinality(Nodes)
  BY DEF Finishes
<1>2. PICK s \in Nat, r \in Nat :
        /\ AllAsked(S, c, s) /\ InTime(s, lastSend, r)
        /\ Load(S) + Cost(r) + Owed(c) + 1 <= k
  BY DEF Active, Covered
<1>3. Cost(r) \in Nat /\ Owed(c) \in Nat /\ Cardinality(Nodes) \in Nat
  BY Costs
<1>4. Load(queue'.entries) + 1 <= k - 1
  <2>1. CASE Elapsed(e.timestamp)
    <3>1. lastSend + RetransmitTimeout <= e.timestamp
      BY <1>0, <2>1, ElapsedMeans
    <3>2. e.timestamp <= s + 2 * Trip
      BY <1>0, <1>1, <1>2, AnswerIsDue DEF Hears
    <3>3. r - 1 \in Nat /\ Cost(r) = Cost(r - 1) + 2 * Cardinality(Nodes)
      BY <1>0, <1>2, <3>1, <3>2, Retransmission
    <3>4. Cost(r - 1) \in Nat
      BY <3>3, Costs
    <3>5. QED
      BY <1>0, <1>1, <1>2, <1>3, <3>3, <3>4
  <2>2. CASE ~Elapsed(e.timestamp)
    <3>1. Cardinality(o.sent) = 0
      BY <1>1, <2>2, NothingCounts
    <3>2. QED
      BY <1>0, <1>2, <1>3, <3>1
  <2>3. QED
    BY <2>1, <2>2
<1>5. QED
  BY <1>0, <1>1, <1>4 DEF Active, Finished, IsOperating

\* It has asked everyone it waits for in this step.
LEMMA AsksAfresh ==
    ASSUME RetransmitTimeout > 0, Inherited, NEW e \in queue.entries, NEW heard, NEW o,
           CoordinatorActs(e, heard, o), IsOperating(CoordinatorId),
           o.state.phase \in {"Voting", "AwaitingAcks"}, lastSend' = e.timestamp,
           \A n \in AwaitedBy(o.state) : \E m \in o.sent : m.to = n /\ ConcernsPhase(o.state, m),
           NEW k, Load(queue'.entries) + Cost(Retries) + Owed(o.state) + 1 <= k
    PROVE  Hopeless' \/ Active(k)'
<1>1. /\ e.timestamp \in Nat /\ coordinator' = o.state /\ status' = status
      /\ o.sent \in SUBSET Message
  BY BaseFacts DEF CoordinatorActs, Inherited
<1>2. PICK added : Departed(e, o.sent, added)
  BY DEF CoordinatorActs
<1>3. AllAsked(queue'.entries, o.state, e.timestamp)
  <2> SUFFICES ASSUME NEW n \in AwaitedBy(o.state)
               PROVE  Outstanding(queue'.entries, o.state, n, e.timestamp)
    BY DEF AllAsked
  <2>1. PICK m \in o.sent : m.to = n /\ ConcernsPhase(o.state, m)
    OBVIOUS
  <2>2. QED
    BY <1>1, <1>2, <2>1, FreshlyAsked
<1>4. InTime(e.timestamp, lastSend', Retries)
  <2>1. 2 * Trip < (Retries + 1) * RetransmitTimeout
    BY RetriesTyped
  <2>2. \A a, b, t \in Nat : a < b => t + a < t + b
    OBVIOUS
  <2>3. /\ 2 * Trip \in Nat /\ Retries \in Nat
        /\ (Retries + 1) * RetransmitTimeout \in Nat
    BY TripTyped, RetriesTyped, RetransmitTimeoutAssumption
  <2>4. QED
    BY <1>1, <2>1, <2>2, <2>3 DEF InTime
<1>5. Covered(queue'.entries, o.state, lastSend', k)
  <2>1. Retries \in Nat
    BY RetriesTyped
  <2>2. QED
    BY <1>1, <1>3, <1>4, <2>1 DEF Covered
<1>6. QED
  BY <1>1, <1>5 DEF Hopeless, Active, IsOperating

\* What is sent with a decision.
LEMMA AsksForAcks ==
    ASSUME RetransmitTimeout > 0, Inherited, NEW e \in queue.entries, NEW heard, NEW o,
           CoordinatorActs(e, heard, o), IsOperating(CoordinatorId),
           Decides(coordinator, Elapsed(e.timestamp), heard, o),
           o.state.phase = "AwaitingAcks",
           NEW k, Load(queue'.entries) + Cost(Retries) + 1 <= k
    PROVE  Hopeless' \/ Active(k)'
<1>1. /\ coordinator.phase # o.state.phase
      /\ \A n \in Nodes : \E m \in o.sent : m.to = n /\ IsDecision(m)
  BY DEF Decides
<1>2. lastSend' = e.timestamp
  BY <1>1 DEF CoordinatorActs, SendTime
<1>3. \A n \in AwaitedBy(o.state) : \E m \in o.sent : m.to = n /\ ConcernsPhase(o.state, m)
  BY <1>1 DEF AwaitedBy, ConcernsPhase
<1>4. Owed(o.state) = 0
  BY DEF Owed
<1>5. Load(queue'.entries) + Cost(Retries) + Owed(o.state) + 1 <= k
  <2>1. PICK added : Departed(e, o.sent, added)
    BY DEF CoordinatorActs
  <2>2. Load(queue'.entries) \in Nat
    BY <2>1, Ledger DEF CoordinatorActs, Inherited, BaseInv, HarnessInv
  <2>3. Cost(Retries) \in Nat
    BY Costs
  <2>4. QED
    BY <1>4, <2>2, <2>3
<1>6. QED
  BY <1>2, <1>3, <1>5, AsksAfresh

LEMMA VoteEnds ==
    ASSUME RetransmitTimeout > 0, Nodes # {}, Inherited, NEW e, NEW m, NEW o, Hears(e, m, o),
           Decides(coordinator, Elapsed(e.timestamp), {m}, o), NEW k \in Nat, Active(k)
    PROVE  Hopeless' \/ Active(k - 1)' \/ Finished(k - 1)'
<1> DEFINE c == coordinator
           S == queue.entries
<1>0. /\ e \in queue.entries /\ e.timestamp \in Nat
      /\ coordinator' = o.state /\ lastSend \in Nat /\ status' = status
      /\ Cardinality(o.sent) \in Nat
      /\ Load(queue.entries) \in Nat /\ Load(queue'.entries) \in Nat
      /\ Load(queue'.entries) <= Load(queue.entries) - 1 + 2 * Cardinality(o.sent)
  BY HearsFacts
<1>1. /\ c.phase = "Voting" /\ o.state.phase \in {"AwaitingAcks", "Done"}
      /\ Cardinality(o.sent) <= 2 * Cardinality(Nodes)
      /\ ~Elapsed(e.timestamp) => Cardinality(o.sent) <= Cardinality(Nodes)
  BY DEF Decides, Active
<1>2. PICK s \in Nat, r \in Nat :
        /\ AllAsked(S, c, s) /\ InTime(s, lastSend, r)
        /\ Load(S) + Cost(r) + Owed(c) + 1 <= k
  BY DEF Active, Covered
<1>3. /\ Cost(r) \in Nat /\ Cardinality(Nodes) \in Nat /\ Cost(Retries) \in Nat
      /\ Owed(c) = Cost(Retries) + 2 * Cardinality(Nodes)
  BY <1>1, Costs DEF Owed
<1>4. Load(queue'.entries) + Cost(Retries) + 1 <= k - 1
  <2>1. CASE Elapsed(e.timestamp)
    <3>1. lastSend + RetransmitTimeout <= e.timestamp
      BY <1>0, <2>1, ElapsedMeans
    <3>2. e.timestamp <= s + 2 * Trip
      BY <1>0, <1>1, <1>2, AnswerIsDue DEF Hears
    <3>3. r - 1 \in Nat /\ Cost(r) = Cost(r - 1) + 2 * Cardinality(Nodes)
      BY <1>0, <1>2, <3>1, <3>2, Retransmission
    <3>4. Cost(r - 1) \in Nat
      BY <3>3, Costs
    <3>5. QED
      BY <1>0, <1>1, <1>2, <1>3, <3>3, <3>4
  <2>2. CASE ~Elapsed(e.timestamp)
    BY <1>0, <1>1, <1>2, <1>3, <2>2
  <2>3. QED
    BY <2>1, <2>2
<1>5. CASE o.state.phase = "AwaitingAcks"
  BY <1>0, <1>4, <1>5, AsksForAcks DEF Hears, Active
<1>6. CASE o.state.phase = "Done"
  <2>1. Load(queue'.entries) + 1 <= k - 1
    BY <1>0, <1>3, <1>4
  <2>2. QED
    BY <1>0, <1>6, <2>1 DEF Active, Finished, IsOperating
<1>7. QED
  BY <1>1, <1>5, <1>6

LEMMA CoordinatorMakesProgress ==
    ASSUME RetransmitTimeout > 0, Nodes # {}, Inherited, NEW e, NEW m, NEW o, Hears(e, m, o),
           NEW k \in Nat, Active(k)
    PROVE  Hopeless' \/ Active(k - 1)' \/ Finished(k - 1)'
<1> DEFINE c == coordinator
           elapsed == Elapsed(e.timestamp)
<1>1. \/ Waits(c, elapsed, {m}, o) \/ Finishes(c, elapsed, {m}, o)
      \/ Decides(c, elapsed, {m}, o) \/ Rests(c, o) \/ Begins(c, {m}, o)
  BY DEF Hears, CoordinatorActs
<1>2. ~Rests(c, o) /\ ~Begins(c, {m}, o)
  BY DEF Active, Rests, Begins
<1>3. QED
  BY <1>1, <1>2, WaitingGoesOn, WaitingEnds, VoteEnds

-----------------------------------------------------------------------------
(* Deliveries to the participants, and to nobody *)

LEMMA UndecidedWhileVoting ==
    ASSUME Inherited, coordinator.phase = "Voting", NEW n \in Nodes
    PROVE  participants[n].phase # "Decided"
<1>1. TPC!IInv /\ participants[n] \in ParticipantState
  BY DEF Inherited, BaseInv, HarnessInv, IInv, TypeOK
<1>2. coordinator.durable = None
  BY <1>1 DEF TPC!IInv, TPC!PhaseMatchesDurable, TPC!None, None
<1>3. participants[n].decision \notin Decision
  <2>1. \A d \in Decision : d # None
    BY DEF Decision, None
  <2>2. QED
    BY <1>1, <1>2, <2>1 DEF TPC!IInv, TPC!DecisionsNeverConflict, TPC!Decision, Decision
<1>4. TPC!ParticipantRecover(participants[n]) = participants[n]
  BY <1>1 DEF TPC!IInv, TPC!CrashLosesNoVote
<1>5. ParticipantRecover(participants[n]) = participants[n]
  BY <1>4, SameParticipant
<1>6. participants[n].durableDecision = participants[n].decision
  BY <1>1, <1>5 DEF ParticipantRecover, ParticipantState
<1>7. participants[n].durableDecision = None
  BY <1>1, <1>3, <1>6 DEF ParticipantState
<1>8. QED
  BY <1>1, <1>5, <1>7 DEF ParticipantRecover, ParticipantState

\* The delivery of a request m, which takes e.
Reaches(e, m) ==
    /\ e \in queue.entries
    /\ m \in Message /\ e.event = DeliverEvent(m) /\ m.to \in Nodes
    /\ ParticipantActs(e, m)

LEMMA ReachesFacts ==
    ASSUME Inherited, NEW e, NEW m, Reaches(e, m)
    PROVE  \E sent, added :
              /\ Answers(participants[m.to], m, sent) /\ Departed(e, sent, added)
              /\ sent \in SUBSET Message
              /\ Load(queue.entries) \in Nat /\ Load(queue'.entries) \in Nat
              /\ Load(queue'.entries) <= Load(queue.entries) - 1
              /\ queue.entries \ {e} \subseteq queue'.entries
<1>1. PICK sent, added : Answers(participants[m.to], m, sent) /\ Departed(e, sent, added)
  BY DEF Reaches, ParticipantActs
<1>2. /\ e \in queue.entries /\ IInv /\ TypeOK /\ sent \in SUBSET Message
      /\ \A k \in sent : k.to = CoordinatorId
      /\ Cardinality(sent) <= 1
  BY <1>1, BaseFacts DEF Reaches, Answers, Inherited, BaseInv
<1>3. IsRequest(e)
  BY CarriedBy DEF Reaches, IsRequest
<1>4. /\ Load(queue.entries) \in Nat /\ Load(queue'.entries) \in Nat
      /\ Cardinality(sent) \in Nat
      /\ Load(queue'.entries) <= Load(queue.entries) - 2 + Cardinality(sent)
  BY <1>1, <1>2, <1>3, Ledger
<1>5. Load(queue'.entries) <= Load(queue.entries) - 1
  BY <1>2, <1>4
<1>6. queue.entries \ {e} \subseteq queue'.entries
  BY <1>1 DEF Departed
<1>7. QED
  BY <1>1, <1>2, <1>4, <1>5, <1>6

\* The answer to an outstanding request is outstanding.
LEMMA RequestAnswered ==
    ASSUME Inherited, NEW e, NEW m, Reaches(e, m), NEW s \in Nat, NEW n \in Nodes,
           Outstanding({e}, coordinator, n, s)
    PROVE  Outstanding(queue'.entries, coordinator, n, s)
<1>1. PICK w \in Message :
        /\ e.event = DeliverEvent(w) /\ ConcernsPhase(coordinator, w)
        /\ \/ w.to = n /\ e.timestamp <= s + Trip
           \/ w.from = n /\ e.timestamp <= s + 2 * Trip
  BY DEF Outstanding
<1>2. w = m
  BY <1>1, EventsDiffer DEF Reaches
<1>3. m.to = n /\ e.timestamp <= s + Trip /\ ConcernsPhase(coordinator, m)
  BY <1>1, <1>2, MessageEnds DEF Reaches
<1>4. PICK sent, added : /\ Answers(participants[m.to], m, sent) /\ Departed(e, sent, added)
                         /\ sent \in SUBSET Message
  BY ReachesFacts
<1>5. \E k \in sent : k.from = n /\ ConcernsPhase(coordinator, k)
  <2>1. CASE coordinator.phase = "Voting"
    <3>1. m.type = "Prepare"
      BY <1>3, <2>1, MessageEnds DEF Reaches, ConcernsPhase
    <3>2. participants[n].phase # "Decided"
      BY <2>1, UndecidedWhileVoting
    <3>3. QED
      BY <1>3, <1>4, <2>1, <3>1, <3>2 DEF Answers, ConcernsPhase
  <2>2. CASE coordinator.phase = "AwaitingAcks"
    <3>1. IsDecision(m)
      BY <1>3, <2>2, MessageEnds DEF Reaches, ConcernsPhase
    <3>2. QED
      BY <1>3, <1>4, <2>2, <3>1 DEF Answers, ConcernsPhase
  <2>3. QED
    BY <1>3, <2>1, <2>2 DEF ConcernsPhase
<1>6. PICK k \in sent : k.from = n /\ ConcernsPhase(coordinator, k)
  BY <1>5
<1>7. PICK d \in added : Carries(d, k, e.timestamp)
  BY <1>4 DEF Departed
<1>8. d.event = DeliverEvent(k) /\ d.timestamp \in Nat /\ d.timestamp <= e.timestamp + Trip
  BY <1>7 DEF Carries
<1>9. d.timestamp <= s + 2 * Trip
  <2>1. e.timestamp \in Nat /\ Trip \in Nat
    BY BaseFacts, TripTyped DEF Reaches, Inherited
  <2>2. QED
    BY <1>3, <1>8, <2>1
<1>10. d \in queue'.entries /\ k \in Message
  BY <1>4, <1>7 DEF Departed
<1>11. QED
  BY <1>6, <1>8, <1>9, <1>10 DEF Outstanding

\* A step that takes e and leaves the coordinator alone.
LEMMA OthersMakeProgress ==
    ASSUME RetransmitTimeout > 0, Inherited, NEW e \in queue.entries,
           UNCHANGED <<coordinator, lastSend, status>>,
           queue.entries \ {e} \subseteq queue'.entries,
           Load(queue.entries) \in Nat, Load(queue'.entries) \in Nat,
           Load(queue'.entries) <= Load(queue.entries) - 1,
           \A n \in AwaitedBy(coordinator), s \in Nat :
              Outstanding({e}, coordinator, n, s) => Outstanding(queue'.entries, coordinator, n, s),
           NEW k \in Nat, Active(k)
    PROVE  Active(k - 1)'
<1> DEFINE c == coordinator
           S == queue.entries
<1>1. PICK s \in Nat, r \in Nat :
        /\ AllAsked(S, c, s) /\ InTime(s, lastSend, r)
        /\ Load(S) + Cost(r) + Owed(c) + 1 <= k
  BY DEF Active, Covered
<1>2. ASSUME NEW n \in AwaitedBy(c) PROVE Outstanding(queue'.entries, c, n, s)
  <2>1. Outstanding(S, c, n, s)
    BY <1>1, <1>2 DEF AllAsked
  <2>2. Outstanding({e}, c, n, s) => Outstanding(queue'.entries, c, n, s)
    BY <1>2
  <2>3. QED
    BY <2>1, <2>2, StillOutstanding
<1>3. Cost(r) \in Nat /\ Owed(c) \in Nat
  BY Costs
<1>4. Load(queue'.entries) + Cost(r) + Owed(c) + 1 <= k - 1
  BY <1>1, <1>3
<1>5. Covered(queue'.entries, c, lastSend, k - 1)
  BY <1>1, <1>2, <1>4 DEF Covered, AllAsked
<1>6. QED
  BY <1>5 DEF Active, IsOperating

LEMMA ParticipantMakesProgress ==
    ASSUME RetransmitTimeout > 0, Inherited, NEW e, NEW m, Reaches(e, m), NEW k \in Nat, Active(k)
    PROVE  Active(k - 1)'
<1>1. /\ Load(queue.entries) \in Nat /\ Load(queue'.entries) \in Nat
      /\ Load(queue'.entries) <= Load(queue.entries) - 1
      /\ queue.entries \ {e} \subseteq queue'.entries
  BY ReachesFacts
<1>2. e \in queue.entries /\ UNCHANGED <<coordinator, lastSend, status>>
  BY DEF Reaches, ParticipantActs
<1>3. \A n \in AwaitedBy(coordinator), s \in Nat :
         Outstanding({e}, coordinator, n, s) => Outstanding(queue'.entries, coordinator, n, s)
  BY RequestAnswered DEF AwaitedBy
<1>4. QED
  BY <1>1, <1>2, <1>3, OthersMakeProgress

\* A message is lost.
Loses(e, m) ==
    /\ e \in queue.entries
    /\ m \in Message /\ e.event = DeliverEvent(m) /\ ~IsOperating(m.to)
    /\ IsLost(e)

LEMMA LosesFacts ==
    ASSUME Inherited, NEW e, NEW m, Loses(e, m)
    PROVE  /\ e \in queue.entries /\ UNCHANGED actorVars
           /\ Load(queue.entries) \in Nat /\ Load(queue'.entries) \in Nat
           /\ Load(queue'.entries) <= Load(queue.entries) - 1
           /\ queue'.entries = queue.entries \ {e}
<1>1. /\ e \in queue.entries /\ queue'.entries = queue.entries \ {e} /\ UNCHANGED actorVars
  BY DEF Loses, IsLost
<1>2. IsFiniteSet(queue.entries)
  BY DEF Inherited, BaseInv, TypeOK
<1>3. IsRequest(e) \/ IsAnswer(e)
  BY CarriedBy DEF Loses, IsRequest, IsAnswer
<1>4. /\ Load(queue.entries) \in Nat /\ Load(queue.entries \ {e}) \in Nat
      /\ IsRequest(e) => Load(queue.entries \ {e}) = Load(queue.entries) - 2
      /\ IsAnswer(e) => Load(queue.entries \ {e}) = Load(queue.entries) - 1
  BY <1>1, <1>2, LoadRemoved
<1>5. QED
  BY <1>1, <1>3, <1>4

LEMMA LossMakesProgress ==
    ASSUME RetransmitTimeout > 0, Inherited, NEW e, NEW m, Loses(e, m), NEW k \in Nat, Active(k)
    PROVE  Active(k - 1)'
<1>1. /\ Load(queue.entries) \in Nat /\ Load(queue'.entries) \in Nat
      /\ Load(queue'.entries) <= Load(queue.entries) - 1
      /\ queue.entries \ {e} \subseteq queue'.entries
      /\ e \in queue.entries /\ UNCHANGED <<coordinator, lastSend, status>>
  BY LosesFacts DEF actorVars
<1>2. ASSUME NEW n \in AwaitedBy(coordinator), NEW s \in Nat,
             Outstanding({e}, coordinator, n, s)
      PROVE  FALSE
  <2>1. PICK w \in Message : e.event = DeliverEvent(w) /\ (w.to = n \/ w.from = n)
    BY <1>2 DEF Outstanding
  <2>2. w = m
    BY <2>1, EventsDiffer DEF Loses
  <2>3. n \in Nodes /\ IsOperating(n) /\ IsOperating(CoordinatorId)
    BY DEF AwaitedBy, Active
  <2>4. m.to = n \/ m.to = CoordinatorId
    BY <2>1, <2>2, <2>3, MessageEnds
  <2>5. QED
    BY <2>3, <2>4 DEF Loses
<1>3. QED
  BY <1>1, <1>2, OthersMakeProgress

-----------------------------------------------------------------------------
(* Deliveries in general *)

\* A node that is down is not heard.
LEMMA NoHopeIsGained ==
    ASSUME NEW e, NEW heard, NEW o, CoordinatorActs(e, heard, o), Hopeless,
           \A m \in heard : m.from # CoordinatorId /\ IsOperating(m.from)
    PROVE  Hopeless'
<1> DEFINE c == coordinator
           elapsed == Elapsed(e.timestamp)
<1>1. PICK n \in AwaitedBy(c) : ~IsOperating(n)
  BY DEF Hopeless
<1>2. n \in Nodes /\ n \notin Heard(c, heard) /\ \A m \in heard : m.from # n
  BY <1>1 DEF AwaitedBy, Heard
<1>3. StartMessage \notin heard
  BY DEF StartMessage
<1>4. n \in AwaitedBy(o.state)
  <2>1. CASE Waits(c, elapsed, heard, o)
    BY <1>1, <1>2, <2>1 DEF Waits
  <2>2. CASE Finishes(c, elapsed, heard, o)
    BY <1>1, <1>2, <2>2 DEF Finishes
  <2>3. CASE Decides(c, elapsed, heard, o)
    BY <1>2, <2>3 DEF Decides
  <2>4. CASE Rests(c, o)
    BY <1>1, <2>4 DEF Rests, AwaitedBy
  <2>5. CASE Begins(c, heard, o)
    BY <1>3, <2>5 DEF Begins
  <2>6. QED
    BY <2>1, <2>2, <2>3, <2>4, <2>5 DEF CoordinatorActs
<1>5. QED
  BY <1>1, <1>4 DEF CoordinatorActs, Hopeless, IsOperating

LEMMA LeftoversAreDelivered ==
    ASSUME RetransmitTimeout > 0, Nodes # {}, Inherited, NEW e, NEW m, NEW o, Hears(e, m, o),
           NEW k \in Nat, Finished(k)
    PROVE  Finished(k - 1)'
<1>1. /\ coordinator' = o.state /\ status' = status /\ m \in Message
      /\ Load(queue.entries) \in Nat /\ Load(queue'.entries) \in Nat
      /\ Load(queue'.entries) <= Load(queue.entries) - 1 + 2 * Cardinality(o.sent)
  BY HearsFacts
<1>2. coordinator.phase = "Done"
  BY DEF Finished
<1>3. Rests(coordinator, o)
  BY <1>2 DEF Hears, CoordinatorActs, Waits, Finishes, Decides, Begins
<1>4. o.state = coordinator /\ Cardinality(o.sent) = 0
  BY <1>3, NothingCounts DEF Rests
<1>5. Load(queue'.entries) + 1 <= k - 1
  BY <1>1, <1>4 DEF Finished
<1>6. QED
  BY <1>1, <1>2, <1>4, <1>5 DEF Finished, IsOperating

\* Whoever sends is up.
LEMMA SendersStayUp ==
    ASSUME SendersUp, NEW e, NEW sent, NEW added, Departed(e, sent, added), status' = status,
           \A m \in sent : IsOperating(m.from)
    PROVE  SendersUp'
<1>1. ASSUME NEW d \in added PROVE IsOperating(d.event.message.from)
  <2>1. PICK m \in sent : d.event = DeliverEvent(m)
    BY DEF Departed, Carries
  <2>2. QED
    BY <2>1, CarriedBy
<1>2. QED
  BY <1>1 DEF Departed, SendersUp, IsOperating

LEMMA NoExternalsAdded ==
    ASSUME NEW e, NEW sent, NEW added, Departed(e, sent, added),
           \A d \in queue.entries \ {e} : ~IsExternal(d)
    PROVE  NoExternals'
<1>1. ASSUME NEW d \in added PROVE ~IsExternal(d)
  <2>1. PICK m \in sent : d.event = DeliverEvent(m)
    BY DEF Departed, Carries
  <2>2. QED
    BY <2>1, CarriedBy
<1>2. QED
  BY <1>1 DEF Departed, NoExternals, IsExternal

\* What the coordinator sends goes to nodes, and so comes from it.
LEMMA CoordinatorAddresses ==
    ASSUME NEW e, NEW heard, NEW o, CoordinatorActs(e, heard, o)
    PROVE  \A m \in o.sent : m \in Message /\ m.from = CoordinatorId
<1> DEFINE c == coordinator
           elapsed == Elapsed(e.timestamp)
<1>1. o.sent \in SUBSET Message
  BY DEF CoordinatorActs
<1>2. \/ Waits(c, elapsed, heard, o) \/ Finishes(c, elapsed, heard, o)
      \/ Decides(c, elapsed, heard, o) \/ Rests(c, o) \/ Begins(c, heard, o)
  BY DEF CoordinatorActs
<1>3. \A m \in o.sent : m.to \in Nodes
  BY <1>2 DEF Waits, Finishes, Decides, Rests, Begins, AwaitedBy
<1>4. QED
  BY <1>1, <1>3, CoordinatorIsNoNode, MessageEnds

\* A delivery uses up one round at most of those that are enough.
Quiet == NoExternals /\ SendersUp
Progress(k) == Hopeless \/ Active(k) \/ Finished(k)

LEMMA DeliveryMakesProgress ==
    ASSUME RetransmitTimeout > 0, Nodes # {}, Inherited, Quiet, NEW e \in queue.entries,
           IsEarliest(queue, e), Process(e), NEW k \in Nat, Progress(k)
    PROVE  Quiet' /\ Progress(k - 1)'
<1> DEFINE m == e.event.message
<1>1. ~IsExternal(e) /\ IsOperating(m.from)
  BY DEF Quiet, NoExternals, SendersUp
<1>2. m \in Message /\ e.event = DeliverEvent(m) /\ TypeOK /\ IInv
  BY <1>1, EntryCarries, BaseFacts DEF Inherited, BaseInv
<1>3. \/ m.to = CoordinatorId /\ IsOperating(CoordinatorId) /\ \E o : CoordinatorActs(e, {m}, o)
      \/ m.to \in Nodes /\ IsOperating(m.to) /\ ParticipantActs(e, m)
      \/ ~IsOperating(m.to) /\ IsLost(e)
  BY <1>2, DeliveryMoves
<1> HIDE DEF m
<1>4. ASSUME m.to = CoordinatorId, IsOperating(CoordinatorId),
             NEW o, CoordinatorActs(e, {m}, o)
      PROVE  Quiet' /\ Progress(k - 1)'
  <2>1. Hears(e, m, o)
    BY <1>2, <1>4 DEF Hears
  <2>2. PICK added : Departed(e, o.sent, added)
    BY <1>4 DEF CoordinatorActs
  <2>3. status' = status
    BY <1>4 DEF CoordinatorActs
  <2>4. SendersUp'
    BY <1>4, <2>2, <2>3, CoordinatorAddresses, SendersStayUp DEF Quiet
  <2>5. NoExternals'
    BY <2>2, NoExternalsAdded DEF Quiet, NoExternals
  <2>6. CASE Hopeless
    <3>1. m.from # CoordinatorId
      BY <1>2, <1>4, MessageEnds
    <3>2. Hopeless'
      BY <1>1, <1>4, <2>6, <3>1, NoHopeIsGained DEF m
    <3>3. QED
      BY <2>4, <2>5, <3>2 DEF Quiet, Progress
  <2>7. CASE Active(k)
    <3>1. Hopeless' \/ Active(k - 1)' \/ Finished(k - 1)'
      BY <2>1, <2>7, CoordinatorMakesProgress
    <3>2. QED
      BY <2>4, <2>5, <3>1 DEF Quiet, Progress
  <2>8. CASE Finished(k)
    <3>1. Finished(k - 1)'
      BY <2>1, <2>8, LeftoversAreDelivered
    <3>2. QED
      BY <2>4, <2>5, <3>1 DEF Quiet, Progress
  <2>9. QED
    BY <2>6, <2>7, <2>8 DEF Progress
<1>5. CASE m.to \in Nodes /\ IsOperating(m.to) /\ ParticipantActs(e, m)
  <2>1. Reaches(e, m) /\ UNCHANGED <<coordinator, lastSend, status>>
    BY <1>2, <1>5 DEF Reaches, ParticipantActs
  <2>2. PICK sent, added :
           /\ Answers(participants[m.to], m, sent) /\ Departed(e, sent, added)
           /\ Load(queue.entries) \in Nat /\ Load(queue'.entries) \in Nat
           /\ Load(queue'.entries) <= Load(queue.entries) - 1
    BY <2>1, ReachesFacts
  <2>3. SendersUp'
    BY <1>5, <2>1, <2>2, SendersStayUp DEF Quiet, Answers
  <2>4. NoExternals'
    BY <2>2, NoExternalsAdded DEF Quiet, NoExternals
  <2>5. CASE Hopeless
    BY <2>1, <2>3, <2>4, <2>5 DEF Quiet, Progress, Hopeless, IsOperating
  <2>6. CASE Active(k)
    <3>1. Active(k - 1)'
      BY <2>1, <2>6, ParticipantMakesProgress
    <3>2. QED
      BY <2>3, <2>4, <3>1 DEF Quiet, Progress
  <2>7. CASE Finished(k)
    <3>1. Load(queue'.entries) + 1 <= k - 1
      BY <2>2, <2>7 DEF Finished
    <3>2. QED
      BY <2>1, <2>3, <2>4, <2>7, <3>1 DEF Quiet, Progress, Finished, IsOperating
  <2>8. QED
    BY <2>5, <2>6, <2>7 DEF Progress
<1>6. CASE ~IsOperating(m.to) /\ IsLost(e)
  <2>1. Loses(e, m)
    BY <1>2, <1>6 DEF Loses
  <2>2. /\ UNCHANGED <<coordinator, lastSend, status>>
        /\ Load(queue.entries) \in Nat /\ Load(queue'.entries) \in Nat
        /\ Load(queue'.entries) <= Load(queue.entries) - 1
        /\ queue'.entries = queue.entries \ {e}
    BY <2>1, LosesFacts DEF actorVars
  <2>3. Quiet'
    BY <2>2 DEF Quiet, NoExternals, SendersUp, IsExternal, IsOperating
  <2>4. CASE Hopeless
    BY <2>2, <2>3, <2>4 DEF Progress, Hopeless, IsOperating
  <2>5. CASE Active(k)
    <3>1. Active(k - 1)'
      BY <2>1, <2>5, LossMakesProgress
    <3>2. QED
      BY <2>3, <3>1 DEF Progress
  <2>6. CASE Finished(k)
    <3>1. Load(queue'.entries) + 1 <= k - 1
      BY <2>2, <2>6 DEF Finished
    <3>2. QED
      BY <2>2, <2>3, <2>6, <3>1 DEF Progress, Finished, IsOperating
  <2>7. QED
    BY <2>4, <2>5, <2>6 DEF Progress
<1>7. QED
  BY <1>3, <1>4, <1>5, <1>6

-----------------------------------------------------------------------------
(* Probes *)

LEMMA ExternalsWeighNothing ==
    ASSUME NEW e, IsExternal(e)
    PROVE  IsFiniteSet({e}) /\ Load({e}) = 0
<1>1. Load({}) = 0
  <2>1. /\ {d \in {} : IsRequest(d)} = {}
        /\ {d \in {} : IsAnswer(d)} = {}
    OBVIOUS
  <2>2. Cardinality({}) = 0
    BY FS_EmptySet
  <2>3. QED
    BY <2>1, <2>2 DEF Load
<1>2. IsFiniteSet({e}) /\ e \in {e} /\ {e} \ {e} = {}
  BY FS_Singleton
<1>3. Load({e} \ {e}) = Load({e})
  BY <1>2, LoadRemoved
<1>4. QED
  BY <1>1, <1>2, <1>3

\* The probe, alone in the queue.
LEMMA ProbeTurn ==
    ASSUME Inherited, ProbeInv, ProcessProbe
    PROVE  \E e \in queue.entries :
              /\ queue.entries = {e} /\ IsExternal(e) /\ Load(queue.entries) = 0
              /\ \/ IsOperating(CoordinatorId) /\ \E o : CoordinatorActs(e, {}, o)
                 \/ \E added : Departed(e, {}, added) /\ UNCHANGED actorVars
<1>1. PICK e \in queue.entries : Process(e)
  BY DEF ProcessProbe, Step
<1>2. queue.entries = {e} /\ e.event = TickAllEvent
  BY DEF ProcessProbe, ProbeInv
<1>3. IsExternal(e)
  BY <1>2 DEF IsExternal, TickAllEvent
<1>4. Load(queue.entries) = 0
  BY <1>2, <1>3, ExternalsWeighNothing
<1>5. IInv /\ TypeOK
  BY BaseFacts DEF Inherited, BaseInv
<1>6. Tick(e) \/ TickInVain(e)
  BY <1>1, <1>2, TicksDiffer DEF Process, StartTransaction, DeliverToCoordinator,
     DeliverToParticipant, Drop, Crash, RecoverInVain, RecoverCoordinator, RecoverParticipant
<1>7. CASE Tick(e)
  <2>1. IsOperating(CoordinatorId) /\ \E o : CoordinatorActs(e, {}, o)
    BY <1>5, <1>7, TickedCoordinator DEF Tick
  <2>2. QED
    BY <1>2, <1>3, <1>4, <2>1
<1>8. CASE TickInVain(e)
  <2>1. Conclude(e, {}, {}) /\ UNCHANGED actorVars
    BY <1>8 DEF TickInVain
  <2>2. \E added : Departed(e, {}, added)
    BY <1>5, <2>1, Departures
  <2>3. QED
    BY <1>2, <1>3, <1>4, <2>1, <2>2
<1>9. QED
  BY <1>6, <1>7, <1>8

LEMMA NothingDeparts ==
    ASSUME NEW e, queue.entries = {e}, NEW added, Departed(e, {}, added)
    PROVE  queue'.entries = {}
BY DEF Departed

\* It makes the coordinator ask, tell, or do nothing, and two phases are all that
\* can follow.
LEMMA ProbeMakesProgress ==
    ASSUME RetransmitTimeout > 0, Nodes # {}, Inherited, ProbeInv, SendersUp, ProcessProbe,
           NEW k \in Nat, Hopeless \/ 2 * Budget + 1 <= k
    PROVE  Quiet' /\ (Hopeless' \/ Active(k)' \/ (~Hopeless /\ queue'.entries = {}))
<1>1. PICK e \in queue.entries :
         /\ queue.entries = {e} /\ IsExternal(e) /\ Load(queue.entries) = 0
         /\ \/ IsOperating(CoordinatorId) /\ \E o : CoordinatorActs(e, {}, o)
            \/ \E added : Departed(e, {}, added) /\ UNCHANGED actorVars
  BY ProbeTurn
<1>2. CASE \E added : Departed(e, {}, added) /\ UNCHANGED actorVars
  <2>1. queue'.entries = {}
    BY <1>1, <1>2, NothingDeparts
  <2>2. Hopeless => Hopeless'
    BY <1>2 DEF Hopeless, IsOperating, actorVars
  <2>3. QED
    BY <2>1, <2>2 DEF Quiet, NoExternals, SendersUp
<1>3. ASSUME IsOperating(CoordinatorId), NEW o, CoordinatorActs(e, {}, o)
      PROVE  Quiet' /\ (Hopeless' \/ Active(k)' \/ (~Hopeless /\ queue'.entries = {}))
  <2> DEFINE c == coordinator
             elapsed == Elapsed(e.timestamp)
  <2>1. PICK added : Departed(e, o.sent, added)
    BY <1>3 DEF CoordinatorActs
  <2>2. o.sent \in SUBSET Message /\ status' = status
    BY <1>3 DEF CoordinatorActs
  <2>3. Quiet'
    <3>1. SendersUp'
      BY <1>3, <2>1, <2>2, CoordinatorAddresses, SendersStayUp
    <3>2. NoExternals'
      BY <1>1, <2>1, NoExternalsAdded
    <3>3. QED
      BY <3>1, <3>2 DEF Quiet
  <2>4. /\ Load(queue'.entries) \in Nat /\ Cardinality(o.sent) \in Nat
        /\ Load(queue'.entries) <= 2 * Cardinality(o.sent)
    <3>1. IInv /\ TypeOK
      BY BaseFacts DEF Inherited, BaseInv
    <3>2. IsExternal(e) /\ Load(queue.entries) = 0
      BY <1>1
    <3>3. /\ Load(queue'.entries) \in Nat /\ Cardinality(o.sent) \in Nat
          /\ Load(queue'.entries) <= Load(queue.entries) + 2 * Cardinality(o.sent)
      BY <2>1, <2>2, <3>1, <3>2, Ledger
    <3>4. QED
      BY <3>2, <3>3
  <2>5. /\ Cardinality(Nodes) \in Nat /\ Cost(Retries) \in Nat
        /\ Budget = Cost(Retries) + 2 * Cardinality(Nodes) /\ Budget \in Nat
    BY RetriesTyped, Costs
  <2>6. CASE o.sent = {} /\ ~Hopeless
    BY <1>1, <2>1, <2>3, <2>6, NothingDeparts
  <2>7. CASE Hopeless
    BY <1>3, <2>3, <2>7, NoHopeIsGained
  <2>8. CASE Waits(c, elapsed, {}, o) /\ o.sent # {} /\ ~Hopeless
    <3>1. /\ elapsed /\ o.state.phase = c.phase /\ c.phase \in {"Voting", "AwaitingAcks"}
          /\ AwaitedBy(o.state) = AwaitedBy(c)
          /\ \A n \in AwaitedBy(c) : \E m \in o.sent : m.to = n /\ ConcernsPhase(c, m)
          /\ Cardinality(o.sent) <= Cardinality(Nodes)
      BY <2>8, NoneHeard DEF Waits
    <3>2. \A n \in AwaitedBy(o.state) :
             \E m \in o.sent : m.to = n /\ ConcernsPhase(o.state, m)
      BY <3>1 DEF ConcernsPhase
    <3>3. lastSend' = e.timestamp
      BY <1>3, <3>1 DEF CoordinatorActs, SendTime
    <3>4. Owed(o.state) \in Nat /\ Owed(o.state) <= Budget
      BY <2>5 DEF Owed
    <3>5. Load(queue'.entries) + Cost(Retries) + Owed(o.state) + 1 <= k
      BY <2>4, <2>5, <2>8, <3>1, <3>4
    <3>6. Hopeless' \/ Active(k)'
      BY <1>3, <3>1, <3>2, <3>3, <3>5, AsksAfresh
    <3>7. QED
      BY <2>3, <3>6
  <2>9. CASE Decides(c, elapsed, {}, o) /\ ~Hopeless
    <3>1. o.state.phase = "AwaitingAcks" /\ Cardinality(o.sent) <= 2 * Cardinality(Nodes)
      BY <2>9 DEF Decides, AwaitedBy
    <3>2. Load(queue'.entries) + Cost(Retries) + 1 <= k
      BY <2>4, <2>5, <2>9, <3>1
    <3>3. Hopeless' \/ Active(k)'
      BY <1>3, <2>9, <3>1, <3>2, AsksForAcks
    <3>4. QED
      BY <2>3, <3>3
  <2>10. \/ Waits(c, elapsed, {}, o) \/ Decides(c, elapsed, {}, o) \/ o.sent = {}
         \/ Finishes(c, elapsed, {}, o)
    BY <1>3 DEF CoordinatorActs, Rests, Begins
  <2>11. ~Finishes(c, elapsed, {}, o)
    <3>1. Finishes(c, elapsed, {}, o) => c.phase = "AwaitingAcks" /\ AwaitedBy(c) = {}
      BY NoneHeard DEF Finishes
    <3>2. c.phase = "AwaitingAcks" => AwaitedBy(c) # {}
      <4>1. c.acks \subseteq Nodes
        BY DEF Inherited, BaseInv, TypeOK, CoordinatorState
      <4>2. QED
        BY <4>1 DEF Inherited, TPC!AwaitsSomeone, AwaitedBy
    <3>3. QED
      BY <3>1, <3>2
  <2>12. QED
    BY <2>6, <2>7, <2>8, <2>9, <2>10, <2>11
<1>4. QED
  BY <1>1, <1>2, <1>3

-----------------------------------------------------------------------------
(* Drain after run *)

\* Every drain comes directly after a run, as in every test and scenario.
DrainsAfterRun(p) == \A i \in DOMAIN p : p[i] = DrainCall => i > 1 /\ p[i - 1] = RunCall

\* A drain that is the next call finds an empty queue.
ReadyInv ==
    \A i \in DOMAIN program :
        program[i] = DrainCall =>
            \/ i > 1 /\ program[i - 1] = RunCall
            \/ i = 1 /\ (at = "run" \/ (at = "caller" /\ IsEmpty(queue)))

LEMMA CallsDiffer ==
    /\ RunCall # DrainCall
    /\ \A event, t : EnqueueCall(event, t) # RunCall /\ EnqueueCall(event, t) # DrainCall
    /\ \A c \in Call : /\ c.call = "run" => c = RunCall
                       /\ c.call = "drain" => c = DrainCall
                       /\ c.call = "enqueue_external" => c # RunCall /\ c # DrainCall
<1>1. RunCall.call = "run" /\ DrainCall.call = "drain"
  BY DEF RunCall, DrainCall
<1>2. \A event, t : EnqueueCall(event, t).call = "enqueue_external"
  BY DEF EnqueueCall
<1>3. QED
  BY <1>1, <1>2 DEF Call

\* The head of the program, once called, readies the rest.
LEMMA CallKeepsReady ==
    ASSUME BaseInv, ReadyInv, MakeCall
    PROVE  ReadyInv' /\ (at' = "drain" => IsEmpty(queue))
<1>1. /\ program # <<>> /\ program' = Tail(program) /\ program \in Seq(Call)
  BY BaseFacts DEF MakeCall
<1>2. /\ Head(program) = program[1] /\ program[1] \in Call
      /\ DOMAIN program = 1..Len(program) /\ Len(program) \in Nat \ {0}
      /\ DOMAIN program' = 1..(Len(program) - 1)
      /\ \A i \in 1..(Len(program) - 1) : program'[i] = program[i + 1]
  BY <1>1, TailOfCalls
<1>3. \/ program[1].call = "enqueue_external" /\ at' = "caller"
      \/ program[1].call = "run" /\ at' = "run"
      \/ program[1].call = "drain" /\ at' = "drain" /\ at = "caller"
  BY <1>2 DEF MakeCall, Enqueue, CallRun, CallDrain, controlVars
<1>4. ASSUME NEW i \in DOMAIN program', program'[i] = DrainCall
      PROVE  \/ i > 1 /\ program'[i - 1] = RunCall
             \/ i = 1 /\ at' = "run"
  <2>1. i \in Nat \ {0} /\ i + 1 \in DOMAIN program /\ program[i + 1] = DrainCall
    BY <1>2, <1>4
  <2>2. program[(i + 1) - 1] = RunCall
    BY <2>1 DEF ReadyInv
  <2>3. program[i] = RunCall
    BY <2>1, <2>2
  <2>4. CASE i = 1
    BY <1>2, <1>3, <2>3, <2>4, CallsDiffer DEF RunCall
  <2>5. CASE i > 1
    <3>1. i - 1 \in 1..(Len(program) - 1) /\ (i - 1) + 1 = i
      BY <1>2, <1>4, <2>5
    <3>2. program'[i - 1] = program[i]
      BY <1>2, <3>1
    <3>3. QED
      BY <2>3, <2>5, <3>2
  <2>6. QED
    BY <2>1, <2>4, <2>5
<1>5. at' = "drain" => IsEmpty(queue)
  <2>1. 1 \in DOMAIN program
    BY <1>2
  <2>2. at' = "drain" => program[1] = DrainCall /\ at = "caller"
    BY <1>2, <1>3, CallsDiffer
  <2>3. QED
    BY <2>1, <2>2 DEF ReadyInv
<1>6. QED
  BY <1>4, <1>5 DEF ReadyInv

LEMMA ReadyPreserved ==
    ASSUME BaseInv, ReadyInv, [HarnessNext]_harnessVars
    PROVE  ReadyInv'
<1>1. CASE MakeCall
  BY <1>1, CallKeepsReady
<1>2. CASE InCall /\ UNCHANGED program
  <2>1. at # "caller"
    BY <1>2, InCallMoves
  <2>2. at = "run" => at' = "run" \/ (at' = "caller" /\ IsEmpty(queue) /\ queue' = queue)
    BY <1>2 DEF InCall, RunStep, RunReturns, OutOfRounds, DrainStep, FoundQuiescent, BeginProbe,
       ProcessProbe, ProbeAnswered, ProbeUnanswered, controlVars, simulatorVars
  <2>3. QED
    BY <1>2, <2>1, <2>2 DEF ReadyInv, IsEmpty
<1>3. CASE UNCHANGED harnessVars
  BY <1>3 DEF harnessVars, drainVars, simulatorVars, controlVars, ReadyInv, IsEmpty
<1>4. QED
  BY <1>1, <1>2, <1>3 DEF HarnessNext, Exited

LEMMA ReadyInvHolds ==
    ASSUME \A p \in Programs : DrainsAfterRun(p)
    PROVE  HarnessSpec => []ReadyInv
<1>1. HarnessInit => ReadyInv
  BY DEF HarnessInit, DrainsAfterRun, ReadyInv
<1>2. BaseInv /\ ReadyInv /\ [HarnessNext]_harnessVars => ReadyInv'
  BY ReadyPreserved
<1>3. QED
  BY <1>1, <1>2, BaseInvHolds, PTL DEF HarnessSpec

-----------------------------------------------------------------------------
(* Rounds enough *)

\* Drain waits out the threshold, and the two phases of the protocol.
RoundsNeeded == QuiescenceThreshold + 2 * Budget

\* Nothing is under way, and k rounds are enough for the probes that are still to be
\* tried and for all that one of them may start.
Idle(k) ==
    /\ \A e \in queue.entries : IsExternal(e)
    /\ QuiescenceThreshold - emptyProbes + 2 * Budget <= k

RoundsInv ==
    at \in {"drain", "probe", "probed"} =>
        /\ at # "probe" => NoExternals
        /\ SendersUp
        /\ \/ Hopeless \/ Idle(rounds)
           \/ at = "drain" /\ Progress(rounds)
           \/ at = "probed" /\ Active(rounds)

Generous ==
    /\ Nodes # {}
    /\ RetransmitTimeout > 0
    /\ RoundsNeeded <= MaxRounds
    /\ \A p \in Programs : DrainsAfterRun(p)

LEMMA RoundsTyped ==
    ASSUME RetransmitTimeout > 0, BaseInv
    PROVE  /\ rounds \in Nat /\ rounds <= MaxRounds /\ MaxRounds \in Nat
           /\ emptyProbes \in Nat /\ emptyProbes <= 11
           /\ QuiescenceThreshold = 12 /\ Budget \in Nat
<1>1. Budget \in Nat
  BY Costs
<1>2. rounds \in 0..MaxRounds /\ emptyProbes \in 0..11 /\ QuiescenceThreshold = 12
  BY DEF BaseInv, HarnessInv, ControlInv, ControlTypeOK, QuiescenceThreshold
<1>3. QED
  BY <1>1, <1>2, MaxRoundsAssumption

\* While somebody is awaited, and all of them are up, something is in the queue.
LEMMA ActiveHasMail ==
    ASSUME Nodes # {}, Inherited, NEW k, Active(k)
    PROVE  queue.entries # {}
<1>1. AwaitedBy(coordinator) # {}
  <2>1. coordinator.acks \subseteq Nodes
    BY DEF Inherited, BaseInv, TypeOK, CoordinatorState
  <2>2. QED
    BY <2>1 DEF Inherited, TPC!AwaitsSomeone, TPC!None, None, AwaitedBy, Active
<1>2. QED
  BY <1>1 DEF Active, Covered, AllAsked, Outstanding

\* A round of deliveries.
LEMMA RoundMakesProgress ==
    ASSUME Generous, Inherited, RoundsInv, at \in {"drain", "probed"}, Step,
           NEW k \in Nat, k = rounds
    PROVE  Quiet' /\ Progress(k - 1)'
<1>1. PICK e \in queue.entries : IsEarliest(queue, e) /\ Process(e)
  BY DEF Step
<1>2. Quiet
  BY DEF RoundsInv, Quiet
<1>3. ~Idle(rounds)
  BY <1>2 DEF Quiet, NoExternals, Idle, Step
<1>4. Progress(k)
  BY <1>3 DEF RoundsInv, Progress
<1>5. QED
  BY <1>1, <1>2, <1>4, DeliveryMakesProgress DEF Generous

LEMMA RoundsPreserved ==
    ASSUME Generous, Inherited, ProbeInv, ReadyInv, RoundsInv, [HarnessNext]_harnessVars
    PROVE  RoundsInv'
<1> USE DEF Generous
<1>0. BaseInv
  BY DEF Inherited
<1>1. CASE MakeCall
  <2>1. CASE at' = "drain"
    <3>1. IsEmpty(queue)
      BY <1>0, <1>1, <2>1, CallKeepsReady
    <3>2. CallDrain
      BY <1>1, <2>1 DEF MakeCall, Enqueue, CallRun, CallDrain, controlVars
    <3>3. rounds' = MaxRounds /\ emptyProbes' = 0 /\ queue'.entries = {}
      BY <3>1, <3>2 DEF CallDrain, IsEmpty, simulatorVars
    <3>4. QuiescenceThreshold - emptyProbes' + 2 * Budget <= rounds'
      BY <1>0, <3>3, RoundsTyped DEF RoundsNeeded
    <3>5. Idle(rounds)'
      BY <3>3, <3>4 DEF Idle
    <3>6. QED
      BY <3>3, <3>5 DEF RoundsInv, NoExternals, SendersUp
  <2>2. CASE at' # "drain"
    <3>1. at' \notin {"drain", "probe", "probed"}
      BY <1>1, <2>2 DEF MakeCall, Enqueue, CallRun, CallDrain, controlVars
    <3>2. QED
      BY <3>1 DEF RoundsInv
  <2>3. QED
    BY <2>1, <2>2
<1>2. CASE at' \notin {"drain", "probe", "probed"}
  BY <1>2 DEF RoundsInv
<1>3. CASE (DrainStep /\ at' = "drain") \/ ProbeAnswered
  <2>1. /\ at \in {"drain", "probed"} /\ Step
        /\ at' = "drain" /\ rounds' = rounds - 1
    BY <1>3 DEF DrainStep, ProbeAnswered, Return, Continue
  <2>2. PICK k \in Nat : k = rounds
    BY <1>0, RoundsTyped
  <2>3. Quiet' /\ Progress(k - 1)'
    BY <2>1, <2>2, RoundMakesProgress
  <2>4. Progress(rounds)'
    BY <2>1, <2>2, <2>3 DEF Progress, Active, Covered, Finished
  <2>5. QED
    BY <2>1, <2>3, <2>4 DEF RoundsInv, Quiet
<1>4. CASE BeginProbe
  <2>1. /\ at = "drain" /\ at' = "probe" /\ ~IsQuiescent /\ IsEmpty(queue)
        /\ rounds' = rounds /\ emptyProbes' = emptyProbes /\ UNCHANGED actorVars
        /\ queue'.entries = {Entry(clock + 1, queue.next, TickAllEvent)}
    BY <1>4 DEF BeginProbe, InjectProbe, IsEmpty, Insert
  <2>2. \A e \in queue'.entries : IsExternal(e)
    BY <2>1 DEF Entry, TickAllEvent, IsExternal
  <2>3. Hopeless \/ Idle(rounds)
    <3>1. ~Active(rounds)
      BY <2>1, ActiveHasMail DEF IsEmpty
    <3>2. ~Finished(rounds)
      BY <2>1, CoordinatorAtRest DEF Finished, CoordinatorIsQuiescent
    <3>3. QED
      BY <2>1, <3>1, <3>2 DEF RoundsInv, Progress
  <2>4. Hopeless' \/ Idle(rounds)'
    BY <2>1, <2>2, <2>3 DEF Hopeless, Idle, IsOperating, actorVars
  <2>5. QED
    BY <2>1, <2>2, <2>4 DEF RoundsInv, SendersUp, IsExternal
<1>5. CASE ProcessProbe
  <2>1. at = "probe" /\ at' = "probed" /\ rounds' = rounds /\ emptyProbes' = emptyProbes
    BY <1>5 DEF ProcessProbe
  <2>2. Hopeless \/ Idle(rounds)
    BY <2>1 DEF RoundsInv
  <2>3. Hopeless \/ 2 * Budget + 1 <= rounds
    BY <1>0, <2>2, RoundsTyped DEF Idle
  <2>4. Quiet' /\ (Hopeless' \/ Active(rounds)' \/ (~Hopeless /\ queue'.entries = {}))
    <3>1. PICK k \in Nat : k = rounds
      BY <1>0, RoundsTyped
    <3>2. Quiet' /\ (Hopeless' \/ Active(k)' \/ (~Hopeless /\ queue'.entries = {}))
      BY <1>5, <2>1, <2>3, <3>1, ProbeMakesProgress DEF RoundsInv
    <3>3. Active(k)' => Active(rounds)'
      BY <2>1, <3>1 DEF Active, Covered
    <3>4. QED
      BY <3>2, <3>3
  <2>5. CASE Hopeless' \/ Active(rounds)'
    BY <2>1, <2>4, <2>5 DEF RoundsInv, Quiet
  <2>6. CASE queue'.entries = {} /\ Idle(rounds)
    <3>1. Idle(rounds)'
      BY <2>1, <2>6 DEF Idle
    <3>2. QED
      BY <2>1, <2>4, <3>1 DEF RoundsInv, Quiet
  <2>7. QED
    BY <2>2, <2>4, <2>5, <2>6
<1>6. CASE ProbeUnanswered /\ at' = "drain"
  <2>1. /\ at = "probed" /\ IsEmpty(queue) /\ UNCHANGED simulatorVars
        /\ rounds' = rounds - 1 /\ emptyProbes' = emptyProbes + 1
    BY <1>6 DEF ProbeUnanswered, Return, Continue
  <2>2. Hopeless \/ Idle(rounds)
    BY <2>1, ActiveHasMail DEF RoundsInv, IsEmpty
  <2>3. CASE Hopeless
    BY <1>6, <2>1, <2>3 DEF RoundsInv, Hopeless, IsOperating, NoExternals, SendersUp, IsEmpty,
                            simulatorVars, actorVars
  <2>4. CASE Idle(rounds)
    <3>1. QuiescenceThreshold - emptyProbes' + 2 * Budget <= rounds'
      BY <1>0, <2>1, <2>4, RoundsTyped DEF Idle
    <3>2. queue'.entries = {}
      BY <2>1 DEF IsEmpty, simulatorVars
    <3>3. Idle(rounds)'
      BY <3>1, <3>2 DEF Idle
    <3>4. QED
      BY <1>6, <3>2, <3>3 DEF RoundsInv, NoExternals, SendersUp
  <2>5. QED
    BY <2>2, <2>3, <2>4
<1>7. CASE UNCHANGED harnessVars
  BY <1>7 DEF harnessVars, drainVars, simulatorVars, actorVars, controlVars, RoundsInv,
     NoExternals, SendersUp, Hopeless, Idle, Progress, Active, Finished, Covered, IsOperating,
     IsExternal
<1>8. InCall => \/ at' \notin {"drain", "probe", "probed"}
                \/ (DrainStep /\ at' = "drain") \/ ProbeAnswered
                \/ BeginProbe \/ ProcessProbe
                \/ ProbeUnanswered /\ at' = "drain"
  BY DEF InCall, RunStep, RunReturns, OutOfRounds, DrainStep, FoundQuiescent, ProbeUnanswered,
         Return, Continue, controlVars
<1>9. QED
  BY <1>1, <1>2, <1>3, <1>4, <1>5, <1>6, <1>7, <1>8 DEF HarnessNext, Exited

LEMMA RoundsInvHolds ==
    ASSUME Generous
    PROVE  HarnessSpec => [](Inherited /\ RoundsInv)
<1>1. HarnessInit => RoundsInv
  BY DEF HarnessInit, DrainInit, RoundsInv
<1>2. Inherited /\ ProbeInv /\ ReadyInv /\ RoundsInv /\ [HarnessNext]_harnessVars => RoundsInv'
  BY RoundsPreserved
<1>3. HarnessSpec => [](Inherited /\ ProbeInv) /\ []ReadyInv
  BY ProbeInvHolds, ReadyInvHolds DEF Generous
<1>4. QED
  BY <1>1, <1>2, <1>3, PTL DEF HarnessSpec

\* Drain gives up on a coordinator that waits for a crashed node and on nothing else.
LEMMA GivesUp ==
    ASSUME Generous, Inherited, RoundsInv, [HarnessNext]_harnessVars, Returns("false")
    PROVE  Hopeless /\ UNCHANGED simulatorVars
<1>1. OutOfRounds
  BY DEF HarnessNext, Exited, MakeCall, Enqueue, CallRun, CallDrain, InCall, RunStep,
     RunReturns, BeginProbe, ProcessProbe, ProbeAnswered, ProbeUnanswered, DrainStep,
     FoundQuiescent, Continue, Return, harnessVars, drainVars, controlVars, Returns
<1>2. at = "drain" /\ rounds = 0 /\ UNCHANGED simulatorVars
  BY <1>1 DEF OutOfRounds
<1>3. ~Idle(0)
  BY RoundsTyped DEF Idle, Generous, Inherited
<1>4. Load(queue.entries) \in Nat
  <2>1. IsFiniteSet(queue.entries)
    BY DEF Inherited, BaseInv, TypeOK
  <2>2. QED
    BY <2>1, LoadParts
<1>5. ~Active(0)
  <2>1. \A r \in Nat : Cost(r) \in Nat /\ Owed(coordinator) \in Nat
    BY Costs DEF Generous
  <2>2. QED
    BY <1>4, <2>1 DEF Active, Covered
<1>6. ~Finished(0)
  BY <1>4 DEF Finished
<1>7. QED
  BY <1>2, <1>3, <1>5, <1>6 DEF RoundsInv, Progress

FalseExplained == IsOperating(CoordinatorId) /\ \E n \in Awaited : ~IsOperating(n)

\* With rounds enough, drain's "false" means what it should.
THEOREM DrainFalseIsRight ==
    ASSUME Generous
    PROVE  HarnessSpec => DrainFalseExplained
<1>1. ASSUME Inherited, RoundsInv, [HarnessNext]_harnessVars, Returns("false")
      PROVE  FalseExplained'
  <2>1. Hopeless /\ UNCHANGED simulatorVars
    BY <1>1, GivesUp
  <2>2. FalseExplained
    BY <2>1 DEF Hopeless, FalseExplained, Awaited, AwaitedBy
  <2>3. QED
    BY <2>1, <2>2 DEF FalseExplained, Awaited, IsOperating, simulatorVars, actorVars
<1>2. Inherited /\ RoundsInv /\ [HarnessNext]_harnessVars =>
        [Returns("false") =>
          (/\ IsOperating(CoordinatorId)
           /\ \E n \in Awaited : ~IsOperating(n))']_harnessVars
  BY <1>1 DEF FalseExplained
<1>3. QED
  BY <1>2, RoundsInvHolds, PTL DEF HarnessSpec, DrainFalseExplained

-----------------------------------------------------------------------------
(* Drain succeeds *)

\* A drain is still to be made.
Drains(p) == \E i \in DOMAIN p : p[i] = DrainCall

\* No drain has given up, and one has returned or is yet to do so.
ResultInv ==
    /\ drained # "false"
    /\ Drains(program) \/ at \in {"drain", "probe", "probed"} \/ drained # None

\* With nobody left down, there is nobody whom drain could give up on.
LEMMA NobodyIsHopeless ==
    ASSUME PatientInv, NoExternals, at # "caller"
    PROVE  ~Hopeless
<1>1. NoEnqueuesLeft(program)
  BY DEF PatientInv, ScriptInv
<1>2. \A a \in ActorId, t \in Nat : ~Pending(RecoverEvent(a), t)
  BY <1>1 DEF Pending, NoEnqueuesLeft, NoExternals, IsExternal, RecoverEvent
<1>3. \A a \in ActorId : IsOperating(a)
  BY <1>2 DEF PatientInv, RecoveryInv
<1>4. AwaitedBy(coordinator) \subseteq ActorId
  BY DEF AwaitedBy, ActorId
<1>5. QED
  BY <1>3, <1>4 DEF Hopeless

LEMMA ResultPreserved ==
    ASSUME Generous, PatientInv, RoundsInv, ResultInv, [HarnessNext]_harnessVars
    PROVE  ResultInv'
<1>0. Inherited /\ BaseInv /\ program \in Seq(Call)
  BY BaseFacts DEF PatientInv, Inherited
<1>1. CASE MakeCall
  <2>1. /\ program # <<>> /\ program' = Tail(program) /\ Head(program) = program[1]
        /\ program[1] \in Call /\ DOMAIN program = 1..Len(program)
        /\ Len(program) \in Nat \ {0}
        /\ DOMAIN program' = 1..(Len(program) - 1)
        /\ \A i \in 1..(Len(program) - 1) : program'[i] = program[i + 1]
    BY <1>0, <1>1, TailOfCalls DEF MakeCall
  <2>2. CASE program[1] = DrainCall
    <3>1. CallDrain
      BY <1>1, <2>1, <2>2 DEF MakeCall, DrainCall
    <3>2. QED
      BY <3>1 DEF CallDrain, ResultInv, None
  <2>3. CASE program[1] # DrainCall
    <3>1. at = "caller" /\ drained' = drained
      BY <1>1, <2>1, <2>3, CallsDiffer DEF MakeCall, Enqueue, CallRun, controlVars
    <3>2. ASSUME NEW i \in DOMAIN program, program[i] = DrainCall PROVE Drains(program')
      <4>1. i - 1 \in DOMAIN program' /\ program'[i - 1] = program[i]
        <5>1. i \in 1..Len(program) /\ i # 1
          BY <2>1, <2>3, <3>2
        <5>2. i - 1 \in 1..(Len(program) - 1) /\ (i - 1) + 1 = i
          BY <2>1, <5>1
        <5>3. QED
          BY <2>1, <5>2
      <4>2. QED
        BY <3>2, <4>1 DEF Drains
    <3>3. QED
      BY <3>1, <3>2 DEF ResultInv, Drains
  <2>4. QED
    BY <2>2, <2>3
<1>2. CASE InCall /\ UNCHANGED program
  <2>1. drained' # "false"
    <3>1. CASE OutOfRounds
      <4>1. Hopeless /\ at = "drain"
        <5>1. Returns("false")
          BY <3>1 DEF OutOfRounds, Return, Returns
        <5>2. QED
          BY <1>0, <3>1, <5>1, GivesUp DEF OutOfRounds
      <4>2. NoExternals
        BY <4>1 DEF RoundsInv
      <4>3. QED
        BY <4>1, <4>2, NobodyIsHopeless
    <3>2. QED
      BY <1>2, <3>1 DEF InCall, RunStep, RunReturns, BeginProbe, ProcessProbe, ProbeAnswered,
         ProbeUnanswered, DrainStep, FoundQuiescent, Continue, Return, controlVars, ResultInv
  <2>2. \/ at' \in {"drain", "probe", "probed"}
        \/ at' = "caller" /\ drained' \in {"true", "false"}
        \/ at \notin {"drain", "probe", "probed"} /\ drained' = drained
    BY <1>2 DEF InCall, RunStep, RunReturns, OutOfRounds, BeginProbe, ProcessProbe,
       ProbeAnswered, ProbeUnanswered, DrainStep, FoundQuiescent, Continue, Return, controlVars
  <2>3. QED
    BY <1>2, <2>1, <2>2 DEF ResultInv, Drains, None
<1>3. CASE UNCHANGED harnessVars
  BY <1>3 DEF harnessVars, drainVars, controlVars, ResultInv, Drains
<1>4. QED
  BY <1>1, <1>2, <1>3 DEF HarnessNext, Exited

\* Such a program ends with drain's "true".
LEMMA DrainSucceeds ==
    ASSUME Generous, Patient, \A p \in Programs : Drains(p)
    PROVE  HarnessSpec => [](ProgramEnded => drained = "true")
<1>1. HarnessInit => ResultInv
  BY DEF HarnessInit, DrainInit, ResultInv, None
<1>2. PatientInv /\ RoundsInv /\ ResultInv /\ [HarnessNext]_harnessVars => ResultInv'
  BY ResultPreserved
<1>3. BaseInv /\ ResultInv => (ProgramEnded => drained = "true")
  <2>1. BaseInv => drained \in {None, "true", "false"}
    BY DEF BaseInv, HarnessInv, ControlInv, ControlTypeOK
  <2>2. ProgramEnded => ~Drains(program) /\ at = "caller"
    BY DEF ProgramEnded, Drains
  <2>3. QED
    BY <2>1, <2>2 DEF ResultInv
<1>4. QED
  BY <1>1, <1>2, <1>3, PatientInvHolds, RoundsInvHolds, BaseInvHolds, PTL DEF HarnessSpec

-----------------------------------------------------------------------------
(* How long a run takes *)

\* The coordinator has sent nothing since time `last', or not more than what was sent
\* by then can have led to.
Unasked(last) ==
    \A d \in queue.entries : /\ IsRequest(d) => d.timestamp <= last + Trip
                             /\ IsAnswer(d) => d.timestamp <= last + 2 * Trip

\* The latest that messages arrive if it asked at time s all those it waits for: it
\* goes on asking until those who are up have answered, at s + 2 * Trip, and then
\* only asks those who are down, when answers to what it asked before come in.
InTransit(d, s) ==
    /\ IsRequest(d) => d.timestamp <= s + 5 * Trip
    /\ IsRequest(d) /\ IsOperating(d.event.message.to) => d.timestamp <= s + 3 * Trip
    /\ IsAnswer(d) => d.timestamp <= s + 4 * Trip

Asked(s) ==
    /\ IsOperating(CoordinatorId)
    /\ \A n \in AwaitedBy(coordinator) :
          IsOperating(n) => Outstanding(queue.entries, coordinator, n, s)
    /\ \A d \in queue.entries : InTransit(d, s)

\* With the external events all past, at time `last', each phase has its turn.
Winding(last) ==
    \/ Unasked(last)
    \/ coordinator.phase = "Voting" /\ Asked(last + 2 * Trip)
    \/ coordinator.phase \in {"AwaitingAcks", "Done"} /\ Asked(last + 6 * Trip)

LEMMA OutstandingLonger ==
    ASSUME NEW S, \A d \in S : d.timestamp \in Nat, NEW c, NEW n,
           NEW s \in Nat, NEW u \in Nat, s <= u, Outstanding(S, c, n, s)
    PROVE  Outstanding(S, c, n, u)
<1>1. PICK d \in S, m \in Message :
        /\ d.event = DeliverEvent(m) /\ ConcernsPhase(c, m)
        /\ \/ m.to = n /\ d.timestamp <= s + Trip
           \/ m.from = n /\ d.timestamp <= s + 2 * Trip
  BY DEF Outstanding
<1>2. d.timestamp \in Nat /\ Trip \in Nat
  BY TripTyped
<1>3. \/ m.to = n /\ d.timestamp <= u + Trip
      \/ m.from = n /\ d.timestamp <= u + 2 * Trip
  BY <1>1, <1>2
<1>4. QED
  BY <1>1, <1>3 DEF Outstanding

\* What a turn of an actor adds to the queue.
LEMMA AddedAreSent ==
    ASSUME Inherited, NEW e \in queue.entries, NEW sent, NEW added, Departed(e, sent, added)
    PROVE  /\ e.timestamp \in Nat /\ Trip \in Nat
           /\ \A d \in queue.entries : d.timestamp \in Nat
           /\ \A d \in queue'.entries :
                 \/ d \in queue.entries /\ d # e
                 \/ /\ d.timestamp \in Nat /\ d.timestamp <= e.timestamp + Trip
                    /\ \E m \in sent : d.event = DeliverEvent(m)
           /\ \A d \in queue'.entries : d.timestamp \in Nat
<1>1. \A d \in queue.entries : d.timestamp \in Nat
  BY BaseFacts DEF Inherited
<1>2. Trip \in Nat
  BY TripTyped
<1>3. \A d \in queue'.entries :
         \/ d \in queue.entries /\ d # e
         \/ /\ d.timestamp \in Nat /\ d.timestamp <= e.timestamp + Trip
            /\ \E m \in sent : d.event = DeliverEvent(m)
  BY DEF Departed, Carries
<1>4. QED
  BY <1>1, <1>2, <1>3

\* The coordinator asks everyone it still waits for.
LEMMA AsksEveryone ==
    ASSUME Inherited, NEW e \in queue.entries, NEW heard, NEW o,
           CoordinatorActs(e, heard, o), IsOperating(CoordinatorId),
           NEW s \in Nat, e.timestamp <= s,
           \A n \in AwaitedBy(o.state) : \E m \in o.sent : m.to = n /\ ConcernsPhase(o.state, m),
           \A m \in o.sent : m.to \in Nodes,
           \A d \in queue.entries : /\ IsRequest(d) => d.timestamp <= s + 3 * Trip
                                    /\ IsAnswer(d) => d.timestamp <= s + 4 * Trip
    PROVE  Asked(s)'
<1>1. PICK added : Departed(e, o.sent, added)
  BY DEF CoordinatorActs
<1>2. coordinator' = o.state /\ status' = status /\ o.sent \in SUBSET Message
  BY DEF CoordinatorActs
<1>3. /\ e.timestamp \in Nat /\ Trip \in Nat
      /\ \A d \in queue.entries : d.timestamp \in Nat
      /\ \A d \in queue'.entries :
            \/ d \in queue.entries /\ d # e
            \/ /\ d.timestamp \in Nat /\ d.timestamp <= e.timestamp + Trip
               /\ \E m \in o.sent : d.event = DeliverEvent(m)
      /\ \A d \in queue'.entries : d.timestamp \in Nat
  BY <1>1, AddedAreSent
<1>4. ASSUME NEW n \in AwaitedBy(o.state)
      PROVE  Outstanding(queue'.entries, o.state, n, s)
  <2>1. PICK m \in o.sent : m.to = n /\ ConcernsPhase(o.state, m)
    OBVIOUS
  <2>2. m \in Message
    BY <1>2
  <2>3. Outstanding(queue'.entries, o.state, n, e.timestamp)
    BY <1>1, <1>3, <2>1, <2>2, FreshlyAsked
  <2>4. QED
    BY <1>3, <2>3, OutstandingLonger
<1>5. ASSUME NEW d \in queue'.entries
      PROVE  /\ IsRequest(d) => d.timestamp <= s + 3 * Trip
             /\ IsAnswer(d) => d.timestamp <= s + 4 * Trip
  <2>1. CASE d \in queue.entries
    BY <2>1
  <2>2. CASE d \notin queue.entries
    <3>1. d.timestamp <= e.timestamp + Trip
      BY <1>3, <2>2
    <3>2. d.timestamp <= s + 3 * Trip
      BY <1>3, <3>1
    <3>3. PICK m \in o.sent : d.event = DeliverEvent(m)
      BY <1>3, <2>2
    <3>4. IsRequest(d)
      BY <3>3, CarriedBy DEF IsRequest
    <3>5. QED
      BY <3>2, <3>4 DEF IsRequest, IsAnswer
  <2>3. QED
    BY <2>1, <2>2
<1>6. ASSUME NEW d \in queue'.entries
      PROVE  InTransit(d, s)'
  <2>1. d.timestamp <= s + 3 * Trip => d.timestamp <= s + 5 * Trip
    BY <1>3
  <2>2. QED
    BY <1>5, <2>1 DEF InTransit, IsRequest, IsAnswer, IsExternal
<1>7. QED
  BY <1>2, <1>4, <1>6 DEF Asked, IsOperating

\* A step that adds nothing of its own to what is in transit.
LEMMA UnaskedStays ==
    ASSUME NEW last, Unasked(last), queue'.entries \subseteq queue.entries
    PROVE  Unasked(last)'
BY DEF Unasked, IsRequest, IsAnswer, IsExternal

LEMMA NothingSentNothingAdded ==
    ASSUME NEW e, NEW added, NEW sent, sent = {}, Departed(e, sent, added)
    PROVE  queue'.entries = queue.entries \ {e}
BY DEF Departed

\* The first turn of the coordinator in which it sends something.
LEMMA FirstAsked ==
    ASSUME Inherited, NEW e, NEW m, NEW o, e \in queue.entries, m \in Message,
           m.to = CoordinatorId, e.event = DeliverEvent(m), IsOperating(CoordinatorId),
           CoordinatorActs(e, {m}, o), NEW last \in Nat, Unasked(last)
    PROVE  Winding(last)'
<1> DEFINE c == coordinator
           elapsed == Elapsed(e.timestamp)
           s == last + 2 * Trip
<1>1. PICK added : Departed(e, o.sent, added)
  BY DEF CoordinatorActs
<1>2. /\ e.timestamp \in Nat /\ Trip \in Nat
      /\ \A d \in queue.entries : d.timestamp \in Nat
  BY <1>1, AddedAreSent
<1>3. e.timestamp <= s
  <2>1. IsAnswer(e)
    BY MessageEnds, CarriedBy DEF IsAnswer
  <2>2. QED
    BY <2>1 DEF Unasked
<1>4. /\ s \in Nat
      /\ \A u \in Nat : u <= last + Trip => u <= s + 3 * Trip
      /\ \A u \in Nat : u <= last + 2 * Trip => u <= s + 4 * Trip
  BY <1>2
<1>5. \A d \in queue.entries : /\ IsRequest(d) => d.timestamp <= s + 3 * Trip
                               /\ IsAnswer(d) => d.timestamp <= s + 4 * Trip
  BY <1>2, <1>4 DEF Unasked
<1>6. s + 4 * Trip = last + 6 * Trip
  BY <1>2
<1> HIDE DEF s
<1>7. coordinator' = o.state /\ o.sent \in SUBSET Message
  BY DEF CoordinatorActs
<1>8. \/ Waits(c, elapsed, {m}, o) \/ Finishes(c, elapsed, {m}, o)
      \/ Decides(c, elapsed, {m}, o) \/ Rests(c, o)
  <2>1. ~Begins(c, {m}, o)
    <3>1. m # StartMessage
      BY DEF StartMessage, Message
    <3>2. QED
      BY <3>1 DEF Begins
  <2>2. QED
    BY <2>1 DEF CoordinatorActs
<1>9. CASE o.sent = {}
  <2>1. queue'.entries = queue.entries \ {e}
    BY <1>1, <1>9, NothingSentNothingAdded
  <2>2. QED
    BY <2>1, UnaskedStays DEF Winding
<1>10. ASSUME o.sent # {}
       PROVE  /\ \A n \in AwaitedBy(o.state) :
                    \E w \in o.sent : w.to = n /\ ConcernsPhase(o.state, w)
              /\ \A w \in o.sent : w.to \in Nodes
              /\ o.state.phase \in {"Voting", "AwaitingAcks", "Done"}
  <2>1. AwaitedBy(c) \subseteq Nodes
    BY DEF AwaitedBy
  <2>2. CASE Waits(c, elapsed, {m}, o)
    <3>1. elapsed /\ o.state.phase = c.phase /\ AwaitedBy(o.state) \subseteq AwaitedBy(c)
      BY <1>10, <2>2 DEF Waits
    <3>2. \A w : ConcernsPhase(c, w) => ConcernsPhase(o.state, w)
      BY <3>1 DEF ConcernsPhase
    <3>3. QED
      BY <2>1, <2>2, <3>1, <3>2 DEF Waits
  <2>3. CASE Finishes(c, elapsed, {m}, o)
    BY <2>1, <2>3 DEF Finishes, AwaitedBy
  <2>4. CASE Decides(c, elapsed, {m}, o)
    BY <2>4 DEF Decides, AwaitedBy, ConcernsPhase
  <2>5. QED
    BY <1>8, <1>10, <2>2, <2>3, <2>4 DEF Rests
<1>11. CASE o.sent # {}
  <2>1. Asked(s)'
    BY <1>3, <1>4, <1>5, <1>10, <1>11, AsksEveryone
  <2>2. Asked(last + 6 * Trip)'
    <3>1. last + 6 * Trip \in Nat /\ e.timestamp <= last + 6 * Trip
      BY <1>2, <1>3 DEF s
    <3>2. \A d \in queue.entries :
             /\ IsRequest(d) => d.timestamp <= (last + 6 * Trip) + 3 * Trip
             /\ IsAnswer(d) => d.timestamp <= (last + 6 * Trip) + 4 * Trip
      BY <1>2 DEF Unasked
    <3> DEFINE u == last + 6 * Trip
    <3>3. u = last + 6 * Trip
      OBVIOUS
    <3> HIDE DEF u
    <3>4. Asked(u)'
      BY <1>10, <1>11, <3>1, <3>2, <3>3, AsksEveryone
    <3>5. QED
      BY <3>3, <3>4
  <2>3. QED
    BY <1>7, <1>10, <1>11, <2>1, <2>2 DEF Winding, s
<1>12. QED
  BY <1>9, <1>11

\* What the earliest entry cannot be later than.
LEMMA EarliestIsDue ==
    ASSUME Inherited, NEW e \in queue.entries, IsEarliest(queue, e), NEW s \in Nat,
           NEW n, Outstanding(queue.entries, coordinator, n, s)
    PROVE  e.timestamp <= s + 2 * Trip
<1>1. PICK d \in queue.entries : d.timestamp <= s + Trip \/ d.timestamp <= s + 2 * Trip
  BY DEF Outstanding
<1>2. d.timestamp \in Nat /\ e.timestamp \in Nat /\ Trip \in Nat
  BY TripTyped, BaseFacts DEF Inherited
<1>3. d.timestamp <= s + 2 * Trip
  BY <1>1, <1>2
<1>4. e.timestamp <= d.timestamp
  <2>1. e = d \/ Precedes(e, d)
    BY DEF IsEarliest
  <2>2. QED
    BY <1>2, <2>1 DEF Precedes
<1>5. QED
  BY <1>2, <1>3, <1>4

\* The coordinator goes on asking.
LEMMA AskedGoesOn ==
    ASSUME Inherited, NEW e, NEW m, NEW o, e \in queue.entries, IsEarliest(queue, e),
           m \in Message, m.to = CoordinatorId, e.event = DeliverEvent(m),
           CoordinatorActs(e, {m}, o), NEW s \in Nat, Asked(s),
           \/ Waits(coordinator, Elapsed(e.timestamp), {m}, o)
           \/ Finishes(coordinator, Elapsed(e.timestamp), {m}, o)
    PROVE  Asked(s)'
<1> DEFINE c == coordinator
           elapsed == Elapsed(e.timestamp)
<1>1. PICK added : Departed(e, o.sent, added)
  BY DEF CoordinatorActs
<1>2. /\ e.timestamp \in Nat /\ Trip \in Nat
      /\ \A d \in queue.entries : d.timestamp \in Nat
      /\ \A d \in queue'.entries :
            \/ d \in queue.entries /\ d # e
            \/ /\ d.timestamp \in Nat /\ d.timestamp <= e.timestamp + Trip
               /\ \E w \in o.sent : d.event = DeliverEvent(w)
  BY <1>1, AddedAreSent
<1>3. coordinator' = o.state /\ status' = status
  BY DEF CoordinatorActs
<1>4. e.timestamp <= s + 4 * Trip
  <2>1. IsAnswer(e)
    BY MessageEnds, CarriedBy DEF IsAnswer
  <2>2. QED
    BY <2>1 DEF Asked, InTransit
<1>5. ASSUME NEW n \in AwaitedBy(c), IsOperating(n) PROVE e.timestamp <= s + 2 * Trip
  BY <1>5, EarliestIsDue DEF Asked
<1>6. \A w \in o.sent : w.to \in AwaitedBy(c) /\ w.to \in Nodes
  BY DEF Waits, Finishes, AwaitedBy
<1>7. ASSUME NEW n \in AwaitedBy(o.state), IsOperating(n)
      PROVE  Outstanding(queue'.entries, o.state, n, s)
  <2>1. Waits(c, elapsed, {m}, o)
    BY <1>7 DEF Finishes, AwaitedBy
  <2>2. o.state.phase = c.phase /\ n \in AwaitedBy(c) /\ n \notin Heard(c, {m})
    BY <1>7, <2>1 DEF Waits
  <2>3. ~Outstanding({e}, c, n, s)
    <3>1. ASSUME Outstanding({e}, c, n, s) PROVE FALSE
      <4>1. PICK w \in Message :
              e.event = DeliverEvent(w) /\ ConcernsPhase(c, w) /\ (w.to = n \/ w.from = n)
        BY <3>1 DEF Outstanding
      <4>2. w = m /\ n \in Nodes
        BY <2>2, <4>1, EventsDiffer DEF AwaitedBy
      <4>3. m.from = n
        BY <4>1, <4>2, MessageEnds
      <4>4. QED
        BY <2>2, <4>1, <4>2, <4>3 DEF Heard
    <3>2. QED
      BY <3>1
  <2>4. Outstanding(queue.entries, c, n, s)
    BY <1>7, <2>2 DEF Asked
  <2>5. queue.entries \ {e} \subseteq queue'.entries
    BY <1>1 DEF Departed
  <2>6. QED
    BY <2>2, <2>3, <2>4, <2>5, StillOutstanding
<1>8. ASSUME NEW d \in queue'.entries, d \notin queue.entries
      PROVE  InTransit(d, s)'
  <2>1. d.timestamp \in Nat /\ d.timestamp <= e.timestamp + Trip
    BY <1>2, <1>8
  <2>2. PICK w \in o.sent : d.event = DeliverEvent(w)
    BY <1>2, <1>8
  <2>3. d.event.message = w /\ w.to \in Nodes /\ w.to \in AwaitedBy(c)
    BY <1>6, <2>2, CarriedBy
  <2>4. d.timestamp <= s + 5 * Trip
    BY <1>2, <1>4, <2>1
  <2>5. IsOperating(w.to) => d.timestamp <= s + 3 * Trip
    <3>1. IsOperating(w.to) => e.timestamp <= s + 2 * Trip
      BY <1>5, <2>3
    <3>2. QED
      BY <1>2, <2>1, <3>1
  <2>6. QED
    BY <1>3, <2>3, <2>4, <2>5 DEF InTransit, IsRequest, IsAnswer, IsExternal, IsOperating
<1>9. ASSUME NEW d \in queue.entries PROVE InTransit(d, s)'
  BY <1>3 DEF Asked, InTransit, IsRequest, IsAnswer, IsExternal, IsOperating
<1>10. \A d \in queue'.entries : InTransit(d, s)'
  BY <1>8, <1>9
<1>11. QED
  BY <1>3, <1>7, <1>10 DEF Asked, IsOperating

\* It decides and asks for Acks.
LEMMA AskedDecides ==
    ASSUME Inherited, NEW e, NEW m, NEW o, e \in queue.entries,
           m \in Message, m.to = CoordinatorId, e.event = DeliverEvent(m),
           CoordinatorActs(e, {m}, o), NEW last \in Nat, Asked(last + 2 * Trip),
           Decides(coordinator, Elapsed(e.timestamp), {m}, o)
    PROVE  Asked(last + 6 * Trip)'
<1> DEFINE u == last + 6 * Trip
           s == last + 2 * Trip
<1>1. /\ Trip \in Nat /\ u \in Nat /\ s \in Nat
      /\ s + 4 * Trip = u
      /\ \A k \in Nat : k <= s + 5 * Trip => k <= u + 3 * Trip
      /\ \A k \in Nat : k <= s + 4 * Trip => k <= u + 4 * Trip
  BY TripTyped
<1>2. \A d \in queue.entries : d.timestamp \in Nat
  BY BaseFacts DEF Inherited
<1> HIDE DEF u, s
<1>3. IsOperating(CoordinatorId) /\ \A d \in queue.entries : InTransit(d, s)
  BY DEF Asked, s
<1>4. e.timestamp <= u
  <2>1. IsAnswer(e)
    BY MessageEnds, CarriedBy DEF IsAnswer
  <2>2. e.timestamp <= s + 4 * Trip
    BY <1>3, <2>1 DEF InTransit
  <2>3. QED
    BY <1>1, <2>2
<1>5. \A d \in queue.entries : /\ IsRequest(d) => d.timestamp <= u + 3 * Trip
                               /\ IsAnswer(d) => d.timestamp <= u + 4 * Trip
  BY <1>1, <1>2, <1>3 DEF InTransit
<1>6. \A n \in AwaitedBy(o.state) :
         \E w \in o.sent : w.to = n /\ ConcernsPhase(o.state, w)
  BY DEF Decides, AwaitedBy, ConcernsPhase
<1>7. \A w \in o.sent : w.to \in Nodes
  BY DEF Decides
<1>8. Asked(u)'
  BY <1>1, <1>3, <1>4, <1>5, <1>6, <1>7, AsksEveryone
<1>9. QED
  BY <1>8 DEF u

\* A request is answered.
LEMMA AnswersAreDue ==
    ASSUME Inherited, NEW e, NEW m, Reaches(e, m), IsOperating(m.to), NEW last \in Nat, Winding(last)
    PROVE  Winding(last)'
<1>1. PICK sent, added : Answers(participants[m.to], m, sent) /\ Departed(e, sent, added)
  BY ReachesFacts
<1>2. e \in queue.entries /\ m \in Message /\ e.event = DeliverEvent(m) /\ m.to \in Nodes
  BY DEF Reaches
<1>3. /\ e.timestamp \in Nat /\ Trip \in Nat
      /\ \A d \in queue.entries : d.timestamp \in Nat
      /\ \A d \in queue'.entries :
            \/ d \in queue.entries /\ d # e
            \/ /\ d.timestamp \in Nat /\ d.timestamp <= e.timestamp + Trip
               /\ \E w \in sent : d.event = DeliverEvent(w)
  BY <1>1, <1>2, AddedAreSent
<1>4. UNCHANGED <<coordinator, status>>
  BY DEF Reaches, ParticipantActs
<1>5. IsRequest(e) /\ e.event.message = m
  BY <1>2, CarriedBy DEF IsRequest
<1>6. ASSUME NEW d \in queue'.entries, d \notin queue.entries
      PROVE  IsAnswer(d) /\ ~IsRequest(d) /\ d.timestamp \in Nat /\ d.timestamp <= e.timestamp + Trip
  <2>1. PICK w \in sent : d.event = DeliverEvent(w)
    BY <1>3, <1>6
  <2>2. w.to = CoordinatorId
    BY <1>1 DEF Answers
  <2>3. IsAnswer(d) /\ ~IsRequest(d)
    BY <2>1, <2>2, CarriedBy, CoordinatorIsNoNode DEF IsAnswer, IsRequest
  <2>4. QED
    BY <1>3, <1>6, <2>3
<1>7. CASE Unasked(last)
  <2>1. e.timestamp <= last + Trip
    BY <1>2, <1>5, <1>7 DEF Unasked
  <2>2. ASSUME NEW d \in queue'.entries
        PROVE  /\ IsRequest(d) => d.timestamp <= last + Trip
               /\ IsAnswer(d) => d.timestamp <= last + 2 * Trip
    <3>1. CASE d \in queue.entries
      BY <1>7, <3>1 DEF Unasked
    <3>2. CASE d \notin queue.entries
      <4>1. d.timestamp <= last + 2 * Trip
        BY <1>3, <1>6, <2>1, <3>2
      <4>2. QED
        BY <1>6, <3>2, <4>1
    <3>3. QED
      BY <3>1, <3>2
  <2>3. QED
    BY <2>2 DEF Winding, Unasked, IsRequest, IsAnswer, IsExternal
<1>8. ASSUME NEW s \in Nat, Asked(s) PROVE Asked(s)'
  <2>1. e.timestamp <= s + 3 * Trip
    BY <1>2, <1>5, <1>8 DEF Asked, InTransit
  <2>2. ASSUME NEW d \in queue'.entries PROVE InTransit(d, s)
    <3>1. CASE d \in queue.entries
      BY <1>8, <3>1 DEF Asked
    <3>2. CASE d \notin queue.entries
      <4>1. d.timestamp <= s + 4 * Trip
        BY <1>3, <1>6, <2>1, <3>2
      <4>2. QED
        BY <1>6, <3>2, <4>1 DEF InTransit
    <3>3. QED
      BY <3>1, <3>2
  <2>3. ASSUME NEW n \in AwaitedBy(coordinator), IsOperating(n)
        PROVE  Outstanding(queue'.entries, coordinator, n, s)
    <3>1. n \in Nodes /\ Outstanding(queue.entries, coordinator, n, s)
      BY <1>8, <2>3 DEF Asked, AwaitedBy
    <3>2. Outstanding({e}, coordinator, n, s) => Outstanding(queue'.entries, coordinator, n, s)
      BY <3>1, RequestAnswered
    <3>3. queue.entries \ {e} \subseteq queue'.entries
      BY <1>1 DEF Departed
    <3>4. QED
      BY <3>1, <3>2, <3>3, StillOutstanding
  <2>4. QED
    BY <1>4, <1>8, <2>2, <2>3 DEF Asked, InTransit, IsRequest, IsAnswer, IsExternal, IsOperating
<1>9. last + 2 * Trip \in Nat /\ last + 6 * Trip \in Nat
  BY <1>3
<1>10. QED
  BY <1>4, <1>7, <1>8, <1>9 DEF Winding

\* A message is lost.
LEMMA LossIsNoDelay ==
    ASSUME Inherited, NEW e, NEW m, Loses(e, m), NEW last \in Nat, Winding(last)
    PROVE  Winding(last)'
<1>1. /\ e \in queue.entries /\ UNCHANGED actorVars /\ queue'.entries = queue.entries \ {e}
      /\ m \in Message /\ e.event = DeliverEvent(m) /\ ~IsOperating(m.to)
  BY LosesFacts DEF Loses
<1>2. CASE Unasked(last)
  BY <1>1, <1>2, UnaskedStays DEF Winding
<1>3. ASSUME NEW s \in Nat, Asked(s) PROVE Asked(s)'
  <2>1. ASSUME NEW n \in AwaitedBy(coordinator), IsOperating(n)
        PROVE  Outstanding(queue'.entries, coordinator, n, s)
    <3>1. n \in Nodes /\ Outstanding(queue.entries, coordinator, n, s) /\ IsOperating(CoordinatorId)
      BY <1>3, <2>1 DEF Asked, AwaitedBy
    <3>2. ASSUME Outstanding({e}, coordinator, n, s) PROVE FALSE
      <4>1. PICK w \in Message : e.event = DeliverEvent(w) /\ (w.to = n \/ w.from = n)
        BY <3>2 DEF Outstanding
      <4>2. w = m
        BY <1>1, <4>1, EventsDiffer
      <4>3. m.to = n \/ m.to = CoordinatorId
        BY <1>1, <3>1, <4>1, <4>2, MessageEnds
      <4>4. QED
        BY <1>1, <2>1, <3>1, <4>3
    <3>3. QED
      BY <1>1, <3>1, <3>2, StillOutstanding
  <2>2. QED
    BY <1>1, <1>3, <2>1
       DEF Asked, InTransit, IsRequest, IsAnswer, IsExternal, IsOperating, actorVars
<1>4. last + 2 * Trip \in Nat /\ last + 6 * Trip \in Nat
  BY TripTyped
<1>5. QED
  BY <1>1, <1>2, <1>3, <1>4 DEF Winding, actorVars

\* Without external events, the end comes nearer with every delivery.
LEMMA DeliveryWindsDown ==
    ASSUME Inherited, NoExternals, NEW e \in queue.entries, IsEarliest(queue, e), Process(e),
           NEW last \in Nat, Winding(last)
    PROVE  Winding(last)' /\ NoExternals' /\ e.timestamp <= last + 11 * Trip
<1> DEFINE m == e.event.message
<1>1. ~IsExternal(e) /\ TypeOK /\ IInv
  BY BaseFacts DEF NoExternals, Inherited, BaseInv
<1>2. m \in Message /\ e.event = DeliverEvent(m) /\ e.timestamp \in Nat
  BY <1>1, EntryCarries
<1>3. \/ m.to = CoordinatorId /\ IsOperating(CoordinatorId) /\ \E o : CoordinatorActs(e, {m}, o)
      \/ m.to \in Nodes /\ IsOperating(m.to) /\ ParticipantActs(e, m)
      \/ ~IsOperating(m.to) /\ IsLost(e)
  BY <1>1, <1>2, DeliveryMoves
<1>4. Trip \in Nat /\ last + 2 * Trip \in Nat /\ last + 6 * Trip \in Nat
  BY TripTyped
<1>5. NoExternals'
  <2>1. \E added : /\ queue'.entries = (queue.entries \ {e}) \cup added
                   /\ \A d \in added : IsSent(e, d)
    BY <1>1, StepEntries
  <2>2. QED
    BY <2>1 DEF NoExternals, IsSent, IsExternal
<1>6. e.timestamp <= last + 11 * Trip
  <2>1. IsRequest(e) \/ IsAnswer(e)
    BY <1>1 DEF IsRequest, IsAnswer
  <2>2. CASE Unasked(last)
    <3>1. e.timestamp <= last + Trip \/ e.timestamp <= last + 2 * Trip
      BY <2>1, <2>2 DEF Unasked
    <3>2. QED
      BY <1>2, <1>4, <3>1
  <2>3. ASSUME NEW s \in Nat, Asked(s), s <= last + 6 * Trip PROVE e.timestamp <= last + 11 * Trip
    <3>1. e.timestamp <= s + 5 * Trip \/ e.timestamp <= s + 4 * Trip
      BY <2>1, <2>3 DEF Asked, InTransit
    <3>2. QED
      BY <1>2, <1>4, <2>3, <3>1
  <2>4. last + 2 * Trip <= last + 6 * Trip
    BY <1>4
  <2>5. QED
    BY <1>4, <2>2, <2>3, <2>4 DEF Winding
<1> HIDE DEF m
<1>7. ASSUME m.to = CoordinatorId, IsOperating(CoordinatorId),
             NEW o, CoordinatorActs(e, {m}, o)
      PROVE  Winding(last)'
  <2>1. CASE Unasked(last)
    BY <1>2, <1>7, <2>1, FirstAsked
  <2>2. coordinator' = o.state
    BY <1>7 DEF CoordinatorActs
  <2>3. \/ Waits(coordinator, Elapsed(e.timestamp), {m}, o)
        \/ Finishes(coordinator, Elapsed(e.timestamp), {m}, o)
        \/ Decides(coordinator, Elapsed(e.timestamp), {m}, o)
        \/ Rests(coordinator, o)
    <3>1. m # StartMessage
      BY <1>2 DEF StartMessage, Message
    <3>2. QED
      BY <1>7, <3>1 DEF CoordinatorActs, Begins
  <2>4. ASSUME NEW s \in Nat, Asked(s),
               \/ Waits(coordinator, Elapsed(e.timestamp), {m}, o)
               \/ Finishes(coordinator, Elapsed(e.timestamp), {m}, o)
        PROVE  Asked(s)'
    BY <1>2, <1>7, <2>4, AskedGoesOn
  <2>5. CASE coordinator.phase = "Voting" /\ Asked(last + 2 * Trip)
    <3>1. CASE Waits(coordinator, Elapsed(e.timestamp), {m}, o)
      BY <1>4, <2>2, <2>4, <2>5, <3>1 DEF Winding, Waits
    <3>2. CASE Decides(coordinator, Elapsed(e.timestamp), {m}, o)
      <4>1. Asked(last + 6 * Trip)'
        BY <1>2, <1>7, <2>5, <3>2, AskedDecides
      <4>2. QED
        BY <2>2, <3>2, <4>1 DEF Winding, Decides
    <3>3. QED
      BY <2>3, <2>5, <3>1, <3>2 DEF Finishes, Rests
  <2>6. CASE coordinator.phase \in {"AwaitingAcks", "Done"} /\ Asked(last + 6 * Trip)
    <3>1. CASE \/ Waits(coordinator, Elapsed(e.timestamp), {m}, o)
               \/ Finishes(coordinator, Elapsed(e.timestamp), {m}, o)
      <4>1. Asked(last + 6 * Trip)'
        BY <1>4, <2>4, <2>6, <3>1
      <4>2. coordinator'.phase \in {"AwaitingAcks", "Done"}
        BY <2>2, <2>6, <3>1 DEF Waits, Finishes
      <4>3. QED
        BY <4>1, <4>2 DEF Winding
    <3>2. CASE Rests(coordinator, o)
      <4>1. coordinator' = coordinator /\ coordinator.phase = "Done" /\ status' = status
        BY <1>7, <2>2, <2>6, <3>2 DEF Rests, CoordinatorActs
      <4>2. PICK added : Departed(e, o.sent, added)
        BY <1>7 DEF CoordinatorActs
      <4>3. queue'.entries = queue.entries \ {e}
        BY <3>2, <4>2, NothingSentNothingAdded DEF Rests
      <4>4. AwaitedBy(coordinator) = {}
        BY <4>1 DEF AwaitedBy
      <4>5. Asked(last + 6 * Trip)'
        BY <2>6, <4>1, <4>3, <4>4
           DEF Asked, InTransit, IsRequest, IsAnswer, IsExternal, IsOperating
      <4>6. QED
        BY <4>1, <4>5 DEF Winding
    <3>3. QED
      BY <2>3, <2>6, <3>1, <3>2 DEF Decides
  <2>7. QED
    BY <2>1, <2>5, <2>6 DEF Winding
<1>8. CASE m.to \in Nodes /\ IsOperating(m.to) /\ ParticipantActs(e, m)
  <2>1. Reaches(e, m)
    BY <1>2, <1>8 DEF Reaches
  <2>2. QED
    BY <1>5, <1>6, <1>8, <2>1, AnswersAreDue
<1>9. CASE ~IsOperating(m.to) /\ IsLost(e)
  <2>1. Loses(e, m)
    BY <1>2, <1>9 DEF Loses
  <2>2. QED
    BY <1>5, <1>6, <2>1, LossIsNoDelay
<1>10. QED
  BY <1>3, <1>5, <1>6, <1>7, <1>8, <1>9 DEF m

\* The program's external events are all past at time last, and it drains at the end.
EndsBy(p, last) == \A i \in DOMAIN p : Enqueues(p[i]) => p[i].at_time <= last
DrainIsLast(p) == \A i \in DOMAIN p : p[i] = DrainCall => i = Len(p)

\* While external events are to come, no message is due later than the last of them
\* can cause; then the run winds down.
Limited(last) ==
    /\ at \in {"caller", "run"}
    /\ clock <= last + 11 * Trip
    /\ \A d \in queue.entries : IsExternal(d) => d.timestamp <= last
    /\ at = "caller" => \A d \in queue.entries : IsExternal(d)
    /\ \/ ~NoExternals /\ \A d \in queue.entries : d.timestamp <= last + Trip
       \/ NoExternals /\ Winding(last)

LimitInv(last) ==
    /\ EndsBy(program, last) /\ DrainIsLast(program)
    /\ Limited(last) \/ (program = <<>> /\ at # "run")

\* What a step adds to the queue is due a trip later at most.
LEMMA StepIsPrompt ==
    ASSUME IInv, NEW e \in queue.entries, Process(e)
    PROVE  \A d \in queue'.entries :
              \/ d \in queue.entries /\ d # e
              \/ /\ ~IsExternal(d)
                 /\ d.timestamp \in Nat /\ d.timestamp <= e.timestamp + Trip
<1>1. queue.next \in Nat /\ e.timestamp \in Nat /\ Trip \in Nat
  BY Typed, TripTyped DEF QueueOK, QueueOf
<1> DEFINE r == Remove(queue, e)
<1>2. r.entries = queue.entries \ {e} /\ r.next = queue.next
  BY Typed DEF Remove, QueueOK, QueueOf
<1>3. CASE queue' = r
  BY <1>2, <1>3
<1> HIDE DEF r
<1>4. ASSUME NEW sent \in SUBSET Message, NEW delay \in [sent -> Delays],
             queue' = EnqueueOutgoing(r, sent, e.timestamp, delay),
             NEW d \in queue'.entries
      PROVE  \/ d \in queue.entries /\ d # e
             \/ /\ ~IsExternal(d)
                /\ d.timestamp \in Nat /\ d.timestamp <= e.timestamp + Trip
  <2>1. CASE d \in r.entries
    BY <1>2, <2>1
  <2>2. ASSUME NEW m \in sent, d = Departure(r, m, sent, e.timestamp, delay)
        PROVE  /\ ~IsExternal(d)
               /\ d.timestamp \in Nat /\ d.timestamp <= e.timestamp + Trip
    <3>1. d.timestamp \in Nat /\ d.event = DeliverEvent(m)
      BY <1>1, <1>2, <2>2, DepartureTyped
    <3>2. d.timestamp = e.timestamp + 1 + delay[m] /\ delay[m] \in Delays
      BY <2>2 DEF Departure, Entry
    <3>3. delay[m] \in Nat /\ 1 + delay[m] <= Trip
      BY <3>2, TripTyped, DelaysAssumption
    <3>4. d.timestamp <= e.timestamp + Trip
      BY <1>1, <3>2, <3>3
    <3>5. QED
      BY <3>1, <3>4 DEF IsExternal, DeliverEvent
  <2>3. QED
    BY <1>4, <2>1, <2>2 DEF EnqueueOutgoing
<1>5. QED
  BY <1>3, <1>4, StepQueue DEF r

LEMMA StepStaysLimited ==
    ASSUME Inherited, Step, NEW last \in Nat, Limited(last), at = "run", at' = "run"
    PROVE  Limited(last)'
<1>1. PICK e \in queue.entries : IsEarliest(queue, e) /\ clock' = e.timestamp /\ Process(e)
  BY DEF Step
<1>2. /\ IInv /\ Trip \in Nat
      /\ \A d \in queue.entries : d.timestamp \in Nat /\ d.sequence \in Nat
  BY BaseFacts, TripTyped DEF Inherited
<1>3. \A d \in queue'.entries :
         \/ d \in queue.entries /\ d # e
         \/ /\ ~IsExternal(d)
            /\ d.timestamp \in Nat /\ d.timestamp <= e.timestamp + Trip
  BY <1>1, <1>2, StepIsPrompt
<1>4. \A d \in queue'.entries : IsExternal(d)' => d.timestamp <= last
  BY <1>3 DEF Limited, IsExternal
<1>5. CASE NoExternals
  <2>1. Winding(last)
    BY <1>5 DEF Limited
  <2>2. Winding(last)' /\ NoExternals' /\ e.timestamp <= last + 11 * Trip
    BY <1>1, <1>5, <2>1, DeliveryWindsDown
  <2>3. QED
    BY <1>1, <1>4, <2>2 DEF Limited, IsExternal
<1>6. CASE ~NoExternals
  <2>1. PICK f \in queue.entries : IsExternal(f)
    BY <1>6 DEF NoExternals
  <2>2. e.timestamp <= f.timestamp
    <3>1. e = f \/ Precedes(e, f)
      BY <1>1 DEF IsEarliest
    <3>2. QED
      BY <1>2, <3>1 DEF Precedes
  <2>3. f.timestamp <= last
    BY <2>1 DEF Limited
  <2>4. e.timestamp <= last
    BY <1>2, <2>2, <2>3
  <2>5. e.timestamp <= last + 11 * Trip
    BY <1>2, <2>4
  <2>6. \A d \in queue'.entries : d.timestamp \in Nat /\ d.timestamp <= last + Trip
    <3>1. e.timestamp + Trip <= last + Trip
      BY <1>2, <2>4
    <3>2. \A d \in queue.entries : d.timestamp <= last + Trip
      BY <1>6 DEF Limited
    <3>3. \A t \in Nat : t <= e.timestamp + Trip => t <= last + Trip
      BY <1>2, <3>1
    <3>4. QED
      BY <1>2, <1>3, <3>2, <3>3
  <2>7. Winding(last)'
    <3>1. \A t \in Nat : t <= last + Trip => t <= last + 2 * Trip
      BY <1>2
    <3>2. QED
      BY <2>6, <3>1 DEF Winding, Unasked
  <2>8. QED
    BY <1>1, <1>4, <2>5, <2>6, <2>7 DEF Limited, IsExternal
<1>7. QED
  BY <1>5, <1>6

LEMMA CallStaysLimited ==
    ASSUME BaseInv, MakeCall, NEW last \in Nat, LimitInv(last)
    PROVE  LimitInv(last)'
<1>1. program # <<>> /\ program' = Tail(program) /\ program \in Seq(Call)
  BY BaseFacts DEF MakeCall
<1>2. /\ Head(program) = program[1] /\ program[1] \in Call
      /\ DOMAIN program = 1..Len(program) /\ Len(program) \in Nat \ {0}
      /\ program' \in Seq(Call)
      /\ DOMAIN program' = 1..(Len(program) - 1)
      /\ \A i \in 1..(Len(program) - 1) : program'[i] = program[i + 1]
  BY <1>1, TailOfCalls
<1>3. Len(program') = Len(program) - 1
  BY <1>1
<1>4. EndsBy(program', last)
  BY <1>2 DEF LimitInv, EndsBy
<1>5. DrainIsLast(program')
  BY <1>2, <1>3 DEF LimitInv, DrainIsLast
<1>6. Limited(last) /\ at = "caller"
  BY <1>1 DEF LimitInv, MakeCall, Enqueue, CallRun, CallDrain
<1>7. CASE program[1].call = "drain"
  <2>1. program[1] = DrainCall /\ 1 \in DOMAIN program
    BY <1>2, <1>7, CallsDiffer
  <2>2. Len(program) = 1
    BY <2>1 DEF LimitInv, DrainIsLast
  <2>3. program' = <<>>
    BY <1>2, <1>3, <2>2
  <2>4. at' # "run"
    BY <1>2, <1>7 DEF MakeCall, CallDrain
  <2>5. QED
    BY <1>4, <1>5, <2>3, <2>4 DEF LimitInv
<1>8. CASE program[1].call = "run"
  <2>1. UNCHANGED simulatorVars /\ at' = "run"
    BY <1>2, <1>8 DEF MakeCall, CallRun
  <2>2. Limited(last)'
    BY <1>6, <2>1
       DEF Limited, NoExternals, Winding, Unasked, Asked, InTransit, Outstanding, AwaitedBy,
           ConcernsPhase, IsRequest, IsAnswer, IsExternal, IsOperating, simulatorVars, actorVars
  <2>3. QED
    BY <1>4, <1>5, <2>2 DEF LimitInv
<1>9. CASE program[1].call = "enqueue_external"
  <2> DEFINE event == program[1].event
             t == program[1].at_time
  <2>1. EnqueueExternal(event, t) /\ at' = at
    BY <1>2, <1>9 DEF MakeCall, Enqueue, controlVars
  <2>2. event \in ExternalEvent /\ t \in Nat
    BY <1>2, <1>9 DEF Call, RunCall, DrainCall
  <2>3. t <= last
    BY <1>2, <1>9 DEF LimitInv, EndsBy, Enqueues
  <2> HIDE DEF event, t
  <2>4. /\ queue'.entries = queue.entries \cup {Entry(t, queue.next, event)}
        /\ clock' = clock
    BY <2>1 DEF EnqueueExternal, Insert
  <2>5. /\ IsExternal(Entry(t, queue.next, event))
        /\ Entry(t, queue.next, event).timestamp = t
    BY <2>2 DEF IsExternal, Entry, ExternalEvent, StartEvent, TickAllEvent
  <2>6. \A d \in queue'.entries : IsExternal(d) /\ d.timestamp <= last
    BY <1>6, <2>3, <2>4, <2>5 DEF Limited
  <2>7. \A d \in queue'.entries : d.timestamp <= last + Trip
    <3>1. \A d \in queue'.entries : d.timestamp \in Nat
      BY <2>2, <2>4, <2>5, BaseFacts
    <3>2. QED
      BY <2>6, <3>1, TripTyped
  <2>8. ~NoExternals'
    BY <2>4, <2>6 DEF NoExternals, IsExternal
  <2>9. Limited(last)'
    BY <1>6, <2>1, <2>4, <2>6, <2>7, <2>8 DEF Limited, IsExternal
  <2>10. QED
    BY <1>4, <1>5, <2>9 DEF LimitInv
<1>10. QED
  BY <1>2, <1>7, <1>8, <1>9 DEF Call, RunCall, DrainCall

LEMMA LimitPreserved ==
    ASSUME Inherited, NEW last \in Nat, LimitInv(last), [HarnessNext]_harnessVars
    PROVE  LimitInv(last)'
<1>1. BaseInv
  BY DEF Inherited
<1>2. CASE MakeCall
  BY <1>1, <1>2, CallStaysLimited
<1>3. CASE InCall /\ UNCHANGED program
  <2>1. at # "caller" /\ EndsBy(program', last) /\ DrainIsLast(program')
    BY <1>3, InCallMoves DEF LimitInv
  <2>2. CASE Limited(last)
    <3>1. at = "run"
      BY <2>1, <2>2 DEF Limited
    <3>2. (Step /\ at' = "run") \/ (RunReturns /\ at' = "caller")
      BY <1>3, <3>1 DEF InCall, RunStep, RunReturns, OutOfRounds, DrainStep, FoundQuiescent,
         BeginProbe, ProcessProbe, ProbeAnswered, ProbeUnanswered, controlVars
    <3>3. CASE Step /\ at' = "run"
      BY <2>1, <2>2, <3>1, <3>3, StepStaysLimited DEF LimitInv
    <3>4. CASE RunReturns /\ at' = "caller"
      <4>1. queue'.entries = {} /\ clock' = clock
        BY <3>4 DEF RunReturns, IsEmpty, simulatorVars
      <4>2. Limited(last)'
        BY <2>2, <3>4, <4>1 DEF Limited, NoExternals, Winding, Unasked
      <4>3. QED
        BY <2>1, <4>2 DEF LimitInv
    <3>5. QED
      BY <3>2, <3>3, <3>4
  <2>3. CASE program = <<>> /\ at # "run"
    <3>1. at' # "run"
      BY <1>3, <2>3 DEF InCall, RunStep, RunReturns, OutOfRounds, DrainStep, FoundQuiescent,
         BeginProbe, ProcessProbe, ProbeAnswered, ProbeUnanswered, Return, Continue
    <3>2. QED
      BY <1>3, <2>1, <2>3, <3>1 DEF LimitInv
  <2>4. QED
    BY <2>2, <2>3 DEF LimitInv
<1>4. CASE UNCHANGED harnessVars
  BY <1>4 DEF LimitInv, EndsBy, DrainIsLast, Limited, NoExternals, Winding, Unasked, Asked,
     InTransit, Outstanding, AwaitedBy, ConcernsPhase, IsRequest, IsAnswer, IsExternal,
     IsOperating, harnessVars, drainVars, simulatorVars, controlVars, actorVars
<1>5. QED
  BY <1>2, <1>3, <1>4 DEF HarnessNext, Exited

LEMMA LimitAtFirst ==
    ASSUME NEW last \in Nat, \A p \in Programs : EndsBy(p, last) /\ DrainIsLast(p), HarnessInit
    PROVE  LimitInv(last)
<1>1. EndsBy(program, last) /\ DrainIsLast(program)
  BY DEF HarnessInit
<1>2. at = "caller" /\ clock = 0 /\ queue.entries = {}
  BY DEF HarnessInit, DrainInit, Init, NewQueue
<1>3. 0 <= last + 11 * Trip
  BY TripTyped
<1>4. Limited(last)
  BY <1>2, <1>3 DEF Limited, NoExternals, Winding, Unasked
<1>5. QED
  BY <1>1, <1>4 DEF LimitInv

\* The simulated time at which a run is over, at the latest: eleven trips after
\* the last event that the program puts into the queue.
THEOREM RunsEndSoon ==
    ASSUME NEW last \in Nat, \A p \in Programs : EndsBy(p, last) /\ DrainIsLast(p)
    PROVE  HarnessSpec => [](at = "run" => clock <= last + 11 * Trip)
<1> DEFINE I == LimitInv(last)
           Limit == at = "run" => clock <= last + 11 * Trip
<1>1. HarnessInit => I
  BY LimitAtFirst
<1>2. Inherited /\ I /\ [HarnessNext]_harnessVars => I'
  BY LimitPreserved
<1>3. I => Limit
  BY DEF LimitInv, Limited
<1> HIDE DEF I, Limit
<1>4. HarnessSpec => []Limit
  BY <1>1, <1>2, <1>3, InheritedHolds, PTL DEF HarnessSpec
<1>5. QED
  BY <1>4 DEF Limit
=============================================================================
