------------------------ MODULE TwoPhaseCommitProofs ------------------------
(***************************************************************************)
(* Theorems about TwoPhaseCommit for any set of nodes and any biases.      *)
(***************************************************************************)
EXTENDS TwoPhaseCommit, TLAPS

-----------------------------------------------------------------------------
(* Messages and the network *)

LEMMA MessagesTyped ==
    ASSUME NEW n \in Nodes
    PROVE  /\ PrepareMessage(n) \in Message
           /\ \A d : DecisionMessage(n, d) \in Message
           /\ \A v : VoteMessage(n, v) \in Message
           /\ AckMessage(n) \in Message
BY DEF Message, PrepareMessage, DecisionMessage, DecisionType, VoteMessage,
       VoteType, AckMessage

LEMMA MessagesNamed ==
    ASSUME NEW m \in Message, NEW n \in Nodes
    PROVE  /\ IsVote(m) /\ m.from = n => m = VoteMessage(n, VoteOf(m))
           /\ IsDecision(m) /\ m.to = n => m = DecisionMessage(n, DecisionOf(m))
           /\ m.type = "Ack" /\ m.from = n => m = AckMessage(n)
BY CoordinatorIsNoNode DEF Message, IsVote, VoteOf, VoteMessage, VoteType,
   IsDecision, DecisionOf, DecisionMessage, DecisionType, AckMessage

LEMMA EnqueueAdds ==
    ASSUME NEW net \in [Message -> Nat], NEW sent \in SUBSET Message
    PROVE  /\ Enqueue(net, sent) \in [Message -> Nat]
           /\ \A m \in Message : Enqueue(net, sent)[m] > 0 => net[m] > 0 \/ m \in sent
BY DEF Enqueue

LEMMA DequeueRemoves ==
    ASSUME NEW net \in [Message -> Nat], NEW m \in Message, net[m] > 0
    PROVE  /\ Dequeue(net, m) \in [Message -> Nat]
           /\ \A k \in Message : Dequeue(net, m)[k] > 0 => net[k] > 0
BY DEF Dequeue

-----------------------------------------------------------------------------
(* The coordinator's handlers *)

\* A handler keeps this about the coordinator alone: PhaseMatchesDurable.
PhaseOK(c) ==
    /\ c.decision = c.durable
    /\ c.durable = None <=> c.phase \in {"Waiting", "Voting"}

\* The coordinator may count v as node n's vote: it is in its tally, or in one
\* of the messages `heard' it is handling.
MayCount(c, heard, n, v) == c.votes[n] = v \/ VoteMessage(n, v) \in heard

\* What any handler makes of state c when it handles the messages `heard':
\* the only things the invariants need to know about the coordinator.
CoordinatorEffect(c, heard, o) ==
    /\ o.state \in CoordinatorState
    /\ o.sent \in SUBSET Message
    /\ PhaseOK(o.state)
    /\ c.durable # None => o.state.durable = c.durable
    /\ c.durable = None /\ o.state.durable = "Commit" =>
          /\ AbortBias # "always"
          /\ \A n \in Nodes : MayCount(c, heard, n, "Commit")
    /\ c.durable = None /\ o.state.durable = "Abort" =>
          \/ AbortBias # "never"
          \/ \E n \in Nodes : MayCount(c, heard, n, "Abort")
    /\ \A n \in Nodes : o.state.votes[n] = None \/ MayCount(c, heard, n, o.state.votes[n])
    /\ \A n \in o.state.acks : n \in c.acks \/ AckMessage(n) \in heard
    /\ o.state.phase = "Done" =>
          \/ c.phase = "Done"
          \/ \A n \in Nodes : n \in c.acks \/ AckMessage(n) \in heard
    /\ o.state.phase = "Waiting" => c.phase = "Waiting" /\ StartMessage \notin heard
    /\ \A n \in Nodes, v \in Vote : VoteMessage(n, v) \notin o.sent
    /\ \A n \in Nodes : AckMessage(n) \notin o.sent
    /\ \A n \in Nodes, d \in Decision :
          DecisionMessage(n, d) \in o.sent => o.state.durable = d

LEMMA NothingHappens ==
    ASSUME NEW c \in CoordinatorState, PhaseOK(c), NEW heard,
           c.phase = "Waiting" => StartMessage \notin heard
    PROVE  CoordinatorEffect(c, heard, Outcome(c, {}))
BY DEF CoordinatorEffect, MayCount, Outcome, CoordinatorState, Decision, None

\* The decision is durable in the state that comes with its broadcast.
LEMMA SendDecisionEffect ==
    ASSUME NEW c \in CoordinatorState, c.phase = "Decided",
           c.decision \in Decision
    PROVE  LET o == TrySendDecision(c)
           IN  /\ o.state \in CoordinatorState
               /\ PhaseOK(o.state)
               /\ o.state.durable = c.decision
               /\ o.state.votes = c.votes
               /\ o.state.acks = {}
               /\ o.state.phase = "AwaitingAcks"
               /\ o.sent = {DecisionMessage(n, c.decision) : n \in Nodes}
BY DEF TrySendDecision, Outcome, CoordinatorState, CoordinatorPhase, PhaseOK,
       Decision, None

\* Which messages a broadcast consists of.
LEMMA BroadcastOf ==
    ASSUME NEW N \in SUBSET Nodes, NEW d \in Decision
    PROVE  LET sent == {DecisionMessage(n, d) : n \in N}
           IN  /\ sent \in SUBSET Message
               /\ \A n \in Nodes, v \in Vote : VoteMessage(n, v) \notin sent
               /\ \A n \in Nodes : AckMessage(n) \notin sent
               /\ \A n \in Nodes, e \in Decision : DecisionMessage(n, e) \in sent => e = d
<1>1. \A n \in N : DecisionMessage(n, d) \in Message
  BY MessagesTyped
<1>2. \A n \in N : DecisionMessage(n, d).type = DecisionType(d)
  BY DEF DecisionMessage
<1>3. \A n \in Nodes, v \in Vote : VoteMessage(n, v).type \in {"VoteCommit", "VoteAbort"}
  BY DEF VoteMessage, VoteType
<1>4. \A n \in Nodes : AckMessage(n).type = "Ack"
  BY DEF AckMessage
<1>5. \A n \in Nodes, e \in Decision : DecisionMessage(n, e).type = DecisionType(e)
  BY DEF DecisionMessage
<1>6. QED
  BY <1>1, <1>2, <1>3, <1>4, <1>5 DEF DecisionType, Decision

LEMMA PreparesOf ==
    ASSUME NEW N \in SUBSET Nodes
    PROVE  LET sent == {PrepareMessage(n) : n \in N}
           IN  /\ sent \in SUBSET Message
               /\ \A n \in Nodes, v \in Vote : VoteMessage(n, v) \notin sent
               /\ \A n \in Nodes : AckMessage(n) \notin sent
               /\ \A n \in Nodes, d \in Decision : DecisionMessage(n, d) \notin sent
<1>1. \A n \in N : PrepareMessage(n) \in Message /\ PrepareMessage(n).type = "Prepare"
  BY MessagesTyped DEF PrepareMessage
<1>2. \A n \in Nodes, v \in Vote : VoteMessage(n, v).type # "Prepare"
  BY DEF VoteMessage, VoteType
<1>3. \A n \in Nodes : AckMessage(n).type # "Prepare"
  BY DEF AckMessage
<1>4. \A n \in Nodes, d \in Decision : DecisionMessage(n, d).type # "Prepare"
  BY DEF DecisionMessage, DecisionType
<1>5. QED
  BY <1>1, <1>2, <1>3, <1>4

LEMMA TickVotingEffect ==
    ASSUME NEW c \in CoordinatorState, PhaseOK(c), c.phase = "Voting",
           NEW elapsed \in BOOLEAN, NEW o \in TickVoting(c, elapsed)
    PROVE  CoordinatorEffect(c, {}, o)
<1>1. CASE AbortBias # "never" /\ o = TrySendDecision(Decide(c, "Abort"))
  <2> DEFINE d == Decide(c, "Abort")
  <2>1. /\ d \in CoordinatorState /\ d.phase = "Decided" /\ d.decision = "Abort"
        /\ d.votes = NoVotes
    BY DEF Decide, CoordinatorState, CoordinatorPhase, NoVotes, Decision
  <2> HIDE DEF d
  <2>2. /\ o.state \in CoordinatorState /\ PhaseOK(o.state)
        /\ o.state.durable = "Abort" /\ o.state.votes = NoVotes
        /\ o.state.acks = {} /\ o.state.phase = "AwaitingAcks"
        /\ o.sent = {DecisionMessage(n, "Abort") : n \in Nodes}
    BY <1>1, <2>1, SendDecisionEffect DEF d, Decision
  <2>3. c.durable = None
    BY DEF PhaseOK
  <2>4. QED
    BY <1>1, <2>2, <2>3, BroadcastOf DEF CoordinatorEffect, NoVotes, Decision, None
<1>2. CASE o = Outcome(c, When(elapsed, {PrepareMessage(n) :
                                n \in {u \in Nodes : c.votes[u] = None}}))
  <2>1. o.state = c /\ \E N \in SUBSET Nodes : o.sent = {PrepareMessage(n) : n \in N}
    <3>1. CASE elapsed
      BY <1>2, <3>1 DEF Outcome, When
    <3>2. CASE ~elapsed
      <4>1. o.sent = {PrepareMessage(n) : n \in {}}
        BY <1>2, <3>2 DEF Outcome, When
      <4>2. QED
        BY <1>2, <4>1 DEF Outcome
    <3>3. QED
      BY <3>1, <3>2
  <2>2. QED
    BY <2>1, PreparesOf DEF CoordinatorEffect, MayCount, CoordinatorState, PhaseOK,
       Decision, None
<1>3. QED
  BY <1>1, <1>2 DEF TickVoting, SpontaneousAbort

LEMMA TickAwaitingAcksEffect ==
    ASSUME NEW c \in CoordinatorState, PhaseOK(c), c.phase = "AwaitingAcks",
           NEW elapsed \in BOOLEAN, NEW o \in TickAwaitingAcks(c, elapsed)
    PROVE  CoordinatorEffect(c, {}, o)
<1>1. c.decision \in Decision /\ c.decision = c.durable
  BY DEF CoordinatorState, PhaseOK, None
<1>2. o.state = c /\ \E N \in SUBSET Nodes : o.sent = {DecisionMessage(n, c.decision) : n \in N}
  <2>1. CASE elapsed
    <3>1. /\ o.state = c
          /\ o.sent = {DecisionMessage(n, c.decision) : n \in Nodes \ c.acks}
      BY <2>1 DEF TickAwaitingAcks, Outcome, When
    <3>2. QED
      BY <3>1
  <2>2. CASE ~elapsed
    <3>1. o.state = c /\ o.sent = {DecisionMessage(n, c.decision) : n \in {}}
      BY <2>2 DEF TickAwaitingAcks, Outcome, When
    <3>2. QED
      BY <3>1
  <2>3. QED
    BY <2>1, <2>2
<1>3. /\ o.sent \in SUBSET Message
      /\ \A n \in Nodes, v \in Vote : VoteMessage(n, v) \notin o.sent
      /\ \A n \in Nodes : AckMessage(n) \notin o.sent
      /\ \A n \in Nodes, e \in Decision : DecisionMessage(n, e) \in o.sent => e = c.durable
  BY <1>1, <1>2, BroadcastOf
<1>4. QED
  BY <1>1, <1>2, <1>3 DEF CoordinatorEffect, MayCount, CoordinatorState, None, Decision

LEMMA TickDecidedEffect ==
    ASSUME NEW c \in CoordinatorState, PhaseOK(c), c.phase = "Decided"
    PROVE  CoordinatorEffect(c, {}, TrySendDecision(c))
<1> DEFINE o == TrySendDecision(c)
<1>1. c.decision \in Decision /\ c.decision = c.durable /\ c.durable # None
  BY DEF CoordinatorState, PhaseOK, None
<1>2. /\ o.state \in CoordinatorState /\ PhaseOK(o.state)
      /\ o.state.durable = c.decision /\ o.state.votes = c.votes
      /\ o.state.acks = {} /\ o.state.phase = "AwaitingAcks"
      /\ o.sent = {DecisionMessage(n, c.decision) : n \in Nodes}
  BY <1>1, SendDecisionEffect
<1> HIDE DEF o
<1>3. CoordinatorEffect(c, {}, o)
  BY <1>1, <1>2, BroadcastOf DEF CoordinatorEffect, MayCount, CoordinatorState
<1>4. QED
  BY <1>3 DEF o

LEMMA TickEffect ==
    ASSUME NEW c \in CoordinatorState, PhaseOK(c),
           NEW elapsed \in BOOLEAN, NEW o \in CoordinatorTick(c, elapsed)
    PROVE  CoordinatorEffect(c, {}, o)
<1>1. CASE c.phase = "Voting"
  BY <1>1, TickVotingEffect DEF CoordinatorTick
<1>2. CASE c.phase = "Decided"
  BY <1>2, TickDecidedEffect DEF CoordinatorTick
<1>3. CASE c.phase = "AwaitingAcks"
  BY <1>3, TickAwaitingAcksEffect DEF CoordinatorTick
<1>4. CASE c.phase \in {"Waiting", "Done"}
  <2>1. o = Outcome(c, {})
    BY <1>4 DEF CoordinatorTick
  <2>2. QED
    BY <2>1, NothingHappens
<1>5. QED
  BY <1>1, <1>2, <1>3, <1>4 DEF CoordinatorState, CoordinatorPhase

-----------------------------------------------------------------------------
(* on_message of the coordinator *)

LEMMA BeginVotingEffect ==
    ASSUME NEW c \in CoordinatorState, PhaseOK(c), c.phase = "Waiting",
           NEW heard, NEW o \in BeginVoting(c)
    PROVE  CoordinatorEffect(c, heard, o)
<1>1. /\ o.state \in CoordinatorState /\ PhaseOK(o.state)
      /\ o.state.durable = c.durable /\ o.state.votes = NoVotes
      /\ o.state.acks = c.acks /\ o.state.phase = "Voting"
      /\ o.sent = {PrepareMessage(n) : n \in Nodes}
  <2>1. /\ o.state = [c EXCEPT !.phase = "Voting", !.votes = NoVotes]
        /\ o.sent = {PrepareMessage(n) : n \in Nodes}
    BY DEF BeginVoting, Outcome
  <2>2. NoVotes \in [Nodes -> Vote \cup {None}]
    BY DEF NoVotes
  <2>3. QED
    BY <2>1, <2>2 DEF CoordinatorState, CoordinatorPhase, PhaseOK
<1>2. c.durable = None
  BY DEF PhaseOK
<1>3. /\ o.sent \in SUBSET Message
      /\ \A n \in Nodes, v \in Vote : VoteMessage(n, v) \notin o.sent
      /\ \A n \in Nodes : AckMessage(n) \notin o.sent
      /\ \A n \in Nodes, d \in Decision : DecisionMessage(n, d) \notin o.sent
  BY <1>1, PreparesOf
<1>4. QED
  BY <1>1, <1>2, <1>3 DEF CoordinatorEffect, NoVotes, None

\* try_decide leaves the state alone or decides, and commits only on a tally
\* of Commits.
LEMMA TryDecideEffect ==
    ASSUME NEW c \in CoordinatorState, c.phase = "Voting", NEW d \in TryDecide(c)
    PROVE  \/ d = c
           \/ /\ AbortBias # "always"
              /\ \A n \in Nodes : c.votes[n] = "Commit"
              /\ d = Decide(c, "Commit")
           \/ /\ AbortBias # "never" \/ \E n \in Nodes : c.votes[n] = "Abort"
              /\ d = Decide(c, "Abort")
<1>1. CASE \E n \in Nodes : c.votes[n] = "Abort"
  BY <1>1 DEF TryDecide
<1>2. CASE /\ ~ \E n \in Nodes : c.votes[n] = "Abort"
           /\ \A n \in Nodes : c.votes[n] # None
  <2>1. \A n \in Nodes : c.votes[n] = "Commit"
    BY <1>2 DEF CoordinatorState, Vote
  <2>2. PICK abort \in RandomBool(AbortBias) :
            d = Decide(c, IF abort THEN "Abort" ELSE "Commit")
    BY <1>2 DEF TryDecide
  <2>3. /\ abort \in BOOLEAN
        /\ abort => AbortBias # "never"
        /\ ~abort => AbortBias # "always"
    BY <2>2, AbortBiasAssumption DEF RandomBool, Bias
  <2>4. QED
    BY <2>1, <2>2, <2>3
<1>3. CASE /\ ~ \E n \in Nodes : c.votes[n] = "Abort"
           /\ ~ \A n \in Nodes : c.votes[n] # None
  BY <1>3 DEF TryDecide
<1>4. QED
  BY <1>1, <1>2, <1>3

LEMMA RecordVoteEffect ==
    ASSUME NEW c \in CoordinatorState, PhaseOK(c), c.phase = "Voting",
           NEW n \in Nodes, NEW v \in Vote, NEW heard, VoteMessage(n, v) \in heard,
           NEW o \in RecordVote(c, n, v)
    PROVE  CoordinatorEffect(c, heard, o)
<1> DEFINE t == [c EXCEPT !.votes[n] = v]   \* the tally with the new vote
<1>1. CASE c.votes[n] # None
  <2>1. o = Outcome(c, {})
    BY <1>1 DEF RecordVote
  <2>2. QED
    BY <2>1, NothingHappens
<1>2. CASE c.votes[n] = None
  <2>1. /\ t \in CoordinatorState /\ PhaseOK(t) /\ t.phase = "Voting"
        /\ t.durable = None /\ c.durable = None /\ t.acks = c.acks
    BY DEF CoordinatorState, PhaseOK
  <2>2. \A u \in Nodes : t.votes[u] = None \/ MayCount(c, heard, u, t.votes[u])
    BY DEF CoordinatorState, MayCount
  <2>3. PICK d \in TryDecide(t) : o = TrySendDecision(d)
    BY <1>2 DEF RecordVote
  <2> HIDE DEF t
  <2>4. CASE d = t
    <3>1. o = Outcome(t, {})
      BY <2>1, <2>3, <2>4 DEF TrySendDecision
    <3>2. QED
      BY <2>1, <2>2, <3>1 DEF CoordinatorEffect, Outcome, None, Decision
  <2>5. ASSUME NEW e \in Decision, d = Decide(t, e),
               e = "Commit" => /\ AbortBias # "always"
                               /\ \A u \in Nodes : t.votes[u] = "Commit",
               e = "Abort"  => \/ AbortBias # "never"
                               \/ \E u \in Nodes : t.votes[u] = "Abort"
        PROVE  CoordinatorEffect(c, heard, o)
    <3>1. /\ d \in CoordinatorState /\ d.phase = "Decided" /\ d.decision = e
          /\ d.votes = NoVotes
      BY <2>1, <2>5 DEF Decide, CoordinatorState, CoordinatorPhase, NoVotes
    <3>2. /\ o.state \in CoordinatorState /\ PhaseOK(o.state)
          /\ o.state.durable = e /\ o.state.votes = NoVotes
          /\ o.state.acks = {} /\ o.state.phase = "AwaitingAcks"
          /\ o.sent = {DecisionMessage(u, e) : u \in Nodes}
      BY <2>3, <3>1, SendDecisionEffect
    <3>3. /\ o.sent \in SUBSET Message
          /\ \A u \in Nodes, w \in Vote : VoteMessage(u, w) \notin o.sent
          /\ \A u \in Nodes : AckMessage(u) \notin o.sent
          /\ \A u \in Nodes, f \in Decision : DecisionMessage(u, f) \in o.sent => f = e
      BY <3>2, BroadcastOf
    <3>4. /\ e = "Commit" => /\ AbortBias # "always"
                             /\ \A u \in Nodes : MayCount(c, heard, u, "Commit")
          /\ e = "Abort" => \/ AbortBias # "never"
                            \/ \E u \in Nodes : MayCount(c, heard, u, "Abort")
      BY <2>2, <2>5 DEF None
    <3>5. QED
      BY <2>1, <3>2, <3>3, <3>4 DEF CoordinatorEffect, NoVotes
  <2>6. QED
    BY <2>1, <2>3, <2>4, <2>5, TryDecideEffect DEF Decision
<1>3. QED
  BY <1>1, <1>2

LEMMA RecordAckEffect ==
    ASSUME NEW c \in CoordinatorState, PhaseOK(c), c.phase = "AwaitingAcks",
           NEW n \in Nodes, NEW heard, AckMessage(n) \in heard,
           NEW o \in RecordAck(c, n)
    PROVE  CoordinatorEffect(c, heard, o)
<1>1. c.decision = c.durable /\ c.durable # None
  BY DEF PhaseOK
<1>2. /\ o.sent = {}
      /\ o.state \in CoordinatorState
      /\ o.state.durable = c.durable
      /\ o.state.votes = c.votes
      /\ PhaseOK(o.state)
      /\ \A u \in o.state.acks : u \in c.acks \/ u = n
      /\ o.state.phase = "Done" => \A u \in Nodes : u \in c.acks \/ u = n
      /\ o.state.phase # "Waiting"
  <2>1. CASE c.acks \cup {n} = Nodes
    <3>1. o.state = [c EXCEPT !.phase = "Done", !.acks = {}] /\ o.sent = {}
      BY <2>1 DEF RecordAck, Outcome
    <3>2. QED
      BY <1>1, <2>1, <3>1 DEF CoordinatorState, CoordinatorPhase, PhaseOK
  <2>2. CASE c.acks \cup {n} # Nodes
    <3>1. o.state = [c EXCEPT !.acks = @ \cup {n}] /\ o.sent = {}
      BY <2>2 DEF RecordAck, Outcome
    <3>2. QED
      BY <1>1, <3>1 DEF CoordinatorState, CoordinatorPhase, PhaseOK
  <2>3. QED
    BY <2>1, <2>2
<1>3. QED
  BY <1>1, <1>2 DEF CoordinatorEffect, MayCount

LEMMA HandleEffect ==
    ASSUME NEW c \in CoordinatorState, PhaseOK(c),
           NEW m \in Message \cup {StartMessage}, NEW o \in CoordinatorHandle(c, m)
    PROVE  CoordinatorEffect(c, {m}, o)
<1>1. CASE m.type = "StartTransaction" /\ c.phase = "Waiting"
  BY <1>1, BeginVotingEffect DEF CoordinatorHandle
<1>2. CASE IsVote(m) /\ c.phase = "Voting" /\ m.from \in Nodes
  <2>1. m \in Message
    BY <1>2 DEF IsVote, StartMessage
  <2>2. VoteMessage(m.from, VoteOf(m)) = m /\ VoteOf(m) \in Vote
    BY <1>2, <2>1, MessagesNamed DEF VoteOf, Vote
  <2>3. o \in RecordVote(c, m.from, VoteOf(m))
    BY <1>2 DEF CoordinatorHandle, IsVote
  <2>4. QED
    BY <1>2, <2>2, <2>3, RecordVoteEffect
<1>3. CASE m.type = "Ack" /\ c.phase = "AwaitingAcks" /\ m.from \in Nodes
  <2>1. m \in Message
    BY <1>3 DEF StartMessage
  <2>2. AckMessage(m.from) = m
    BY <1>3, <2>1, MessagesNamed
  <2>3. o \in RecordAck(c, m.from)
    BY <1>3 DEF CoordinatorHandle, IsVote
  <2>4. QED
    BY <1>3, <2>2, <2>3, RecordAckEffect
<1>4. CASE /\ ~ (m.type = "StartTransaction" /\ c.phase = "Waiting")
           /\ ~ (IsVote(m) /\ c.phase = "Voting" /\ m.from \in Nodes)
           /\ ~ (m.type = "Ack" /\ c.phase = "AwaitingAcks" /\ m.from \in Nodes)
  <2>1. o = Outcome(c, {})
    BY <1>4 DEF CoordinatorHandle
  <2>2. c.phase = "Waiting" => StartMessage # m
    BY <1>4 DEF StartMessage
  <2>3. QED
    BY <2>1, <2>2, NothingHappens
<1>5. QED
  BY <1>1, <1>2, <1>3, <1>4

\* The effects of the tick and of the match compose.
LEMMA OnMessageEffect ==
    ASSUME NEW c \in CoordinatorState, PhaseOK(c), NEW elapsed \in BOOLEAN,
           NEW m \in Message \cup {StartMessage},
           NEW o \in CoordinatorOnMessage(c, m, elapsed)
    PROVE  CoordinatorEffect(c, {m}, o)
<1>1. PICK ticked \in CoordinatorTick(c, elapsed) :
        \E handled \in CoordinatorHandle(ticked.state, m) :
            o = Outcome(handled.state, ticked.sent \cup handled.sent)
  BY DEF CoordinatorOnMessage
<1>2. PICK handled \in CoordinatorHandle(ticked.state, m) :
            o = Outcome(handled.state, ticked.sent \cup handled.sent)
  BY <1>1
<1>3. CoordinatorEffect(c, {}, ticked)
  BY TickEffect
<1>4. CoordinatorEffect(ticked.state, {m}, handled)
  BY <1>3, HandleEffect DEF CoordinatorEffect
<1>5. o.state = handled.state /\ o.sent = ticked.sent \cup handled.sent
  BY <1>2 DEF Outcome
<1>6. /\ o.state \in CoordinatorState /\ o.sent \in SUBSET Message /\ PhaseOK(o.state)
      /\ \A n \in Nodes, v \in Vote : VoteMessage(n, v) \notin o.sent
      /\ \A n \in Nodes : AckMessage(n) \notin o.sent
  BY <1>3, <1>4, <1>5 DEF CoordinatorEffect
<1>7. /\ c.durable # None => o.state.durable = c.durable
      /\ \A n \in Nodes, d \in Decision :
            DecisionMessage(n, d) \in o.sent => o.state.durable = d
  BY <1>3, <1>4, <1>5 DEF CoordinatorEffect, Decision, None
<1>8. \A n \in Nodes, v \in Vote :
        MayCount(ticked.state, {m}, n, v) => MayCount(c, {m}, n, v)
  BY <1>3 DEF CoordinatorEffect, MayCount, Vote, None
<1>9. /\ c.durable = None /\ o.state.durable = "Commit" =>
            /\ AbortBias # "always"
            /\ \A n \in Nodes : MayCount(c, {m}, n, "Commit")
      /\ c.durable = None /\ o.state.durable = "Abort" =>
            \/ AbortBias # "never"
            \/ \E n \in Nodes : MayCount(c, {m}, n, "Abort")
  <2>1. CASE ticked.state.durable = None
    BY <1>4, <1>5, <1>8, <2>1 DEF CoordinatorEffect, Vote
  <2>2. CASE ticked.state.durable # None
    <3>1. o.state.durable = ticked.state.durable
      BY <1>4, <1>5, <2>2 DEF CoordinatorEffect
    <3>2. QED
      BY <1>3, <3>1 DEF CoordinatorEffect, MayCount
  <2>3. QED
    BY <2>1, <2>2
<1>10. \A n \in Nodes : o.state.votes[n] = None \/ MayCount(c, {m}, n, o.state.votes[n])
  <2>1. \A n \in Nodes : o.state.votes[n] \in Vote \cup {None}
    BY <1>6 DEF CoordinatorState
  <2>2. QED
    BY <1>4, <1>5, <1>8, <2>1 DEF CoordinatorEffect
<1>11. /\ \A n \in o.state.acks : n \in c.acks \/ AckMessage(n) \in {m}
       /\ o.state.phase = "Done" =>
             \/ c.phase = "Done"
             \/ \A n \in Nodes : n \in c.acks \/ AckMessage(n) \in {m}
  BY <1>3, <1>4, <1>5 DEF CoordinatorEffect
<1>12. o.state.phase = "Waiting" => c.phase = "Waiting" /\ StartMessage \notin {m}
  BY <1>3, <1>4, <1>5 DEF CoordinatorEffect
<1>13. QED
  BY <1>6, <1>7, <1>9, <1>10, <1>11, <1>12 DEF CoordinatorEffect

-----------------------------------------------------------------------------
(* The participant's handler *)

\* What any handler makes of the state p of node n when it handles message m.
ParticipantEffect(p, n, m, o) ==
    /\ o.state \in ParticipantState
    /\ o.sent \in SUBSET Message
    /\ ParticipantRecover(o.state) = o.state
    /\ p.durableVote # None => o.state.durableVote = p.durableVote
    /\ o.state.durableVote # p.durableVote =>
          p.durableDecision = None /\ o.state.durableDecision = None
    /\ o.state.durableDecision # p.durableDecision =>
          /\ p.durableDecision = None
          /\ o.state.durableDecision \in Decision
          /\ m = DecisionMessage(n, o.state.durableDecision)
    /\ \A u \in Nodes, v \in Vote :
          VoteMessage(u, v) \in o.sent => u = n /\ o.state.durableVote = v
    /\ \A u \in Nodes :
          AckMessage(u) \in o.sent => u = n /\ o.state.durableDecision # None
    /\ \A u \in Nodes, d \in Decision : DecisionMessage(u, d) \notin o.sent

\* A state that recovery leaves alone holds nothing but what is durable.
LEMMA RecoverFixpoint ==
    ASSUME NEW p \in ParticipantState
    PROVE  ParticipantRecover(p) = p <=>
              /\ p.vote = p.durableVote
              /\ p.decision = p.durableDecision
              /\ p.phase = "Decided" <=> p.durableDecision # None
              /\ p.phase = "Waiting" <=> p.durableDecision = None /\ p.durableVote = None
BY DEF ParticipantRecover, ParticipantState, ParticipantPhase

LEMMA RecoverTyped ==
    ASSUME NEW p \in ParticipantState
    PROVE  ParticipantRecover(p) \in ParticipantState
BY DEF ParticipantRecover, ParticipantState, ParticipantPhase

LEMMA MessagesDistinct ==
    ASSUME NEW n \in Nodes, NEW u \in Nodes, NEW v \in Vote, NEW w \in Vote,
           NEW d \in Decision
    PROVE  /\ VoteMessage(n, v) = VoteMessage(u, w) => n = u /\ v = w
           /\ AckMessage(n) = AckMessage(u) => n = u
           /\ VoteMessage(n, v) # AckMessage(u)
           /\ VoteMessage(n, v) # DecisionMessage(u, d)
           /\ AckMessage(n) # DecisionMessage(u, d)
BY DEF VoteMessage, VoteType, AckMessage, DecisionMessage, DecisionType, Vote, Decision

\* Sending the vote that state q of node n holds durably, q being p or p with
\* its first vote.
LEMMA AnswerVoteEffect ==
    ASSUME NEW p \in ParticipantState, NEW n \in Nodes, NEW m,
           NEW q \in ParticipantState, ParticipantRecover(q) = q,
           q.durableVote \in Vote, q.durableDecision = p.durableDecision,
           \/ p.durableVote = q.durableVote
           \/ p.durableVote = None /\ p.durableDecision = None
    PROVE  ParticipantEffect(p, n, m, Outcome(q, {VoteMessage(n, q.durableVote)}))
<1>1. VoteMessage(n, q.durableVote) \in Message
  BY MessagesTyped
<1>2. QED
  BY <1>1, MessagesDistinct DEF ParticipantEffect, Outcome, None, Vote, Decision

LEMMA OnPrepareEffect ==
    ASSUME NEW p \in ParticipantState, ParticipantRecover(p) = p,
           NEW n \in Nodes, NEW m, NEW o \in OnPrepare(p, n)
    PROVE  ParticipantEffect(p, n, m, o)
<1>1. CASE p.phase = "Waiting"
  <2>1. PICK v \in Vote : o = Outcome(CastVote(p, v), {VoteMessage(n, v)})
    BY <1>1 DEF OnPrepare, Vote
  <2>2. p.durableVote = None /\ p.durableDecision = None
    BY <1>1, RecoverFixpoint
  <2>3. CastVote(p, v) \in ParticipantState /\ CastVote(p, v).durableVote = v
    BY DEF CastVote, ParticipantState, ParticipantPhase
  <2>4. ParticipantRecover(CastVote(p, v)) = CastVote(p, v)
    BY <2>2, <2>3, RecoverFixpoint DEF CastVote, ParticipantState, None, Vote
  <2>5. CastVote(p, v).durableDecision = p.durableDecision
    BY DEF CastVote, ParticipantState
  <2>6. ParticipantEffect(p, n, m, Outcome(CastVote(p, v), {VoteMessage(n, v)}))
    BY <2>2, <2>3, <2>4, <2>5, AnswerVoteEffect
  <2>7. QED
    BY <2>1, <2>6
<1>2. CASE p.phase = "Voted"
  <2>1. p.vote = p.durableVote /\ p.durableVote \in Vote
    BY <1>2, RecoverFixpoint DEF ParticipantState
  <2>2. o = Outcome(p, {VoteMessage(n, p.durableVote)})
    BY <1>2, <2>1 DEF OnPrepare
  <2>3. ParticipantEffect(p, n, m, Outcome(p, {VoteMessage(n, p.durableVote)}))
    BY <2>1, AnswerVoteEffect
  <2>4. QED
    BY <2>2, <2>3
<1>3. CASE p.phase = "Decided"
  <2>1. o = Outcome(p, {})
    BY <1>3 DEF OnPrepare
  <2>2. QED
    BY <2>1 DEF ParticipantEffect, Outcome
<1>4. QED
  BY <1>1, <1>2, <1>3 DEF ParticipantState, ParticipantPhase

LEMMA OnDecisionEffect ==
    ASSUME NEW p \in ParticipantState, ParticipantRecover(p) = p,
           NEW n \in Nodes, NEW d \in Decision, NEW o \in OnDecision(p, n, d)
    PROVE  ParticipantEffect(p, n, DecisionMessage(n, d), o)
<1> DEFINE q == IF p.phase = "Decided" THEN p ELSE Learn(p, d)
<1>1. o = Outcome(q, {AckMessage(n)})
  BY DEF OnDecision
<1>2. /\ q \in ParticipantState
      /\ ParticipantRecover(q) = q
      /\ q.durableVote = p.durableVote
      /\ q.durableDecision # None
      /\ q.durableDecision # p.durableDecision => p.durableDecision = None /\ q.durableDecision = d
  <2>1. CASE p.phase = "Decided"
    BY <2>1, RecoverFixpoint
  <2>2. CASE p.phase # "Decided"
    <3>1. q = Learn(p, d) /\ p.durableDecision = None
      BY <2>2, RecoverFixpoint
    <3>2. p.vote = p.durableVote
      BY RecoverFixpoint
    <3>3. /\ q \in ParticipantState
          /\ q.phase = "Decided" /\ q.vote = p.vote /\ q.durableVote = p.durableVote
          /\ q.decision = d /\ q.durableDecision = d
      BY <3>1 DEF Learn, ParticipantState, ParticipantPhase
    <3>4. ParticipantRecover(q) = q
      BY <3>2, <3>3, RecoverFixpoint DEF Decision, None
    <3>5. QED
      BY <3>1, <3>3, <3>4 DEF Decision, None
  <2>3. QED
    BY <2>1, <2>2
<1> HIDE DEF q
<1>3. AckMessage(n) \in Message
  BY MessagesTyped
<1>4. QED
  BY <1>1, <1>2, <1>3, MessagesDistinct DEF ParticipantEffect, Outcome, Vote, Decision

LEMMA ParticipantOnMessageEffect ==
    ASSUME NEW p \in ParticipantState, ParticipantRecover(p) = p,
           NEW n \in Nodes, NEW m \in Message, m.to = n,
           NEW o \in ParticipantOnMessage(p, n, m)
    PROVE  ParticipantEffect(p, n, m, o)
<1>1. CASE m.type = "Prepare"
  <2>1. o \in OnPrepare(p, n)
    BY <1>1 DEF ParticipantOnMessage, IsDecision
  <2>2. QED
    BY <2>1, OnPrepareEffect
<1>2. CASE IsDecision(m)
  <2>1. m = DecisionMessage(n, DecisionOf(m)) /\ DecisionOf(m) \in Decision
    BY <1>2, MessagesNamed DEF DecisionOf, Decision
  <2>2. o \in OnDecision(p, n, DecisionOf(m))
    BY <1>2 DEF ParticipantOnMessage, IsDecision
  <2>3. ParticipantEffect(p, n, DecisionMessage(n, DecisionOf(m)), o)
    BY <2>1, <2>2, OnDecisionEffect
  <2>4. QED
    BY <2>1, <2>3
<1>3. CASE m.type # "Prepare" /\ ~IsDecision(m)
  <2>1. o = Outcome(p, {})
    BY <1>3 DEF ParticipantOnMessage
  <2>2. QED
    BY <2>1 DEF ParticipantEffect, Outcome
<1>4. QED
  BY <1>1, <1>2, <1>3

-----------------------------------------------------------------------------
(* The inductive invariant *)

\* The invariants the runs check, in the form the induction uses.
\* CommitNeedsUnanimity needs VotesNeverConflict (the votes that were counted
\* are the durable ones); Agreement needs DecisionsNeverConflict; both need
\* PhaseMatchesDurable and CrashLosesNoVote, as recovery restores what is
\* durable only.
DurableCommitUnanimous ==
    coordinator.durable = "Commit" =>
        \A n \in Nodes : participants[n].durableVote = "Commit"

\* Starting leaves Waiting for good: recovery goes to Voting or Decided.
StartedIsUnderWay == started => coordinator.phase # "Waiting"

IInv ==
    /\ TypeOK
    /\ PhaseMatchesDurable
    /\ CrashLosesNoVote
    /\ VotesNeverConflict
    /\ DecisionsNeverConflict
    /\ DurableCommitUnanimous
    /\ AbortNeedsAVote
    /\ AckMeansDecided
    /\ StartedIsUnderWay

LEMMA InitEstablishes == Init => IInv
<1> SUFFICES ASSUME Init PROVE IInv
  OBVIOUS
<1>1. TypeOK
  BY DEF Init, TypeOK, NewCoordinator, NewParticipant, CoordinatorState,
     CoordinatorPhase, ParticipantState, ParticipantPhase, NoVotes, ActorStatus
<1>2. \A m \in Message : ~InTransit(m)
  BY DEF Init, InTransit
<1>3. CrashLosesNoVote
  <2>1. NewParticipant \in ParticipantState
    BY DEF NewParticipant, ParticipantState, ParticipantPhase
  <2>2. ParticipantRecover(NewParticipant) = NewParticipant
    BY <2>1, RecoverFixpoint DEF NewParticipant
  <2>3. QED
    BY <2>2 DEF Init, CrashLosesNoVote
<1>4. PhaseMatchesDurable /\ DurableCommitUnanimous /\ AbortNeedsAVote /\ StartedIsUnderWay
  BY DEF Init, PhaseMatchesDurable, DurableCommitUnanimous, AbortNeedsAVote,
     StartedIsUnderWay, NewCoordinator, None
<1>5. VotesNeverConflict /\ DecisionsNeverConflict /\ AckMeansDecided
  BY <1>2, MessagesTyped DEF Init, VotesNeverConflict, DecisionsNeverConflict,
     AckMeansDecided, NewCoordinator, NewParticipant, NoVotes, Decision, None
<1>6. QED
  BY <1>1, <1>3, <1>4, <1>5 DEF IInv

-----------------------------------------------------------------------------
(* Three kinds of steps *)

\* `net' is what handling leaves of the network before anything is sent.
LeftOver(net) ==
    net \in [Message -> Nat] /\ \A m \in Message : net[m] > 0 => InTransit(m)

EnvironmentTyped == status' \in [ActorId -> ActorStatus] /\ started' \in BOOLEAN

\* A step of the coordinator with the effect of a handler, on messages that
\* were in transit.
CoordinatorMoves ==
    \E heard, o, net :
        /\ CoordinatorEffect(coordinator, heard, o)
        /\ \A m \in Message : m \in heard => InTransit(m)
        /\ LeftOver(net)
        /\ coordinator' = o.state
        /\ network' = Enqueue(net, o.sent)
        /\ participants' = participants
        /\ started' => started \/ StartMessage \in heard
        /\ EnvironmentTyped

ParticipantMoves(n) ==
    \E m, o, net :
        /\ m \in Message /\ InTransit(m)
        /\ ParticipantEffect(participants[n], n, m, o)
        /\ LeftOver(net)
        /\ participants' = [participants EXCEPT ![n] = o.state]
        /\ network' = Enqueue(net, o.sent)
        /\ coordinator' = coordinator
        /\ started' = started
        /\ EnvironmentTyped

NobodyMoves ==
    /\ LeftOver(network')
    /\ coordinator' = coordinator
    /\ participants' = participants
    /\ started' = started
    /\ EnvironmentTyped

LEMMA CoordinatorPreserves ==
    ASSUME IInv, CoordinatorMoves
    PROVE  IInv'
<1> PICK heard, o, net :
        /\ CoordinatorEffect(coordinator, heard, o)
        /\ \A m \in Message : m \in heard => InTransit(m)
        /\ LeftOver(net)
        /\ coordinator' = o.state
        /\ network' = Enqueue(net, o.sent)
        /\ participants' = participants
        /\ started' => started \/ StartMessage \in heard
        /\ EnvironmentTyped
  BY DEF CoordinatorMoves
<1> USE DEF LeftOver, EnvironmentTyped
<1>1. \A m \in Message : InTransit(m)' => InTransit(m) \/ m \in o.sent
  BY EnqueueAdds DEF CoordinatorEffect, InTransit
<1>2. TypeOK'
  <2>1. coordinator' \in CoordinatorState /\ network' \in [Message -> Nat]
    BY EnqueueAdds DEF CoordinatorEffect
  <2>2. QED
    BY <2>1 DEF IInv, TypeOK
<1>3. PhaseMatchesDurable'
  BY DEF CoordinatorEffect, PhaseOK, PhaseMatchesDurable
<1>4. CrashLosesNoVote'
  BY DEF IInv, CrashLosesNoVote
<1>5. \A n \in Nodes, v \in Vote :
        MayCount(coordinator, heard, n, v) => participants[n].durableVote = v
  BY MessagesTyped DEF MayCount, IInv, VotesNeverConflict, Vote, None
<1>6. VotesNeverConflict'
  <2>1. \A n \in Nodes : coordinator'.votes[n] \in {None, participants[n].durableVote}
    <3>1. \A n \in Nodes : coordinator'.votes[n] \in Vote \cup {None}
      BY <1>2 DEF TypeOK, CoordinatorState
    <3>2. QED
      BY <1>5, <3>1 DEF CoordinatorEffect
  <2>2. \A n \in Nodes, v \in Vote :
          InTransit(VoteMessage(n, v))' => participants[n].durableVote = v
    BY <1>1, MessagesTyped DEF CoordinatorEffect, IInv, VotesNeverConflict
  <2>3. QED
    BY <2>1, <2>2 DEF VotesNeverConflict
<1>7. DecisionsNeverConflict'
  <2>1. \A n \in Nodes, d \in Decision :
          InTransit(DecisionMessage(n, d)) \/ participants[n].decision = d
            => coordinator'.durable = d
    BY DEF IInv, DecisionsNeverConflict, CoordinatorEffect, Decision, None
  <2>2. \A n \in Nodes, d \in Decision :
          InTransit(DecisionMessage(n, d))' => coordinator'.durable = d
    BY <1>1, <2>1, MessagesTyped DEF CoordinatorEffect
  <2>3. QED
    BY <2>1, <2>2 DEF DecisionsNeverConflict
<1>8. DurableCommitUnanimous'
  <2>1. CASE coordinator.durable = None
    BY <1>5, <2>1 DEF CoordinatorEffect, DurableCommitUnanimous, Vote
  <2>2. CASE coordinator.durable # None
    BY <2>2 DEF CoordinatorEffect, IInv, DurableCommitUnanimous
  <2>3. QED
    BY <2>1, <2>2
<1>9. AckMeansDecided'
  <2>1. \A n \in Nodes : AckMessage(n) \in heard => participants[n].durableDecision # None
    BY MessagesTyped DEF IInv, AckMeansDecided
  <2>2. \A n \in Nodes :
          InTransit(AckMessage(n))' => participants[n].durableDecision # None
    BY <1>1, MessagesTyped DEF CoordinatorEffect, IInv, AckMeansDecided
  <2>3. \A n \in Nodes :
          n \in coordinator'.acks => participants[n].durableDecision # None
    BY <2>1 DEF CoordinatorEffect, IInv, AckMeansDecided
  <2>4. \A n \in Nodes :
          coordinator'.phase = "Done" => participants[n].durableDecision # None
    BY <2>1 DEF CoordinatorEffect, IInv, AckMeansDecided
  <2>5. QED
    BY <2>2, <2>3, <2>4 DEF AckMeansDecided
<1>10. AbortNeedsAVote'
  <2>1. CASE coordinator.durable = None
    BY <1>5, <2>1 DEF CoordinatorEffect, AbortNeedsAVote, Vote
  <2>2. CASE coordinator.durable # None
    BY <2>2 DEF CoordinatorEffect, IInv, AbortNeedsAVote
  <2>3. QED
    BY <2>1, <2>2
<1>11. StartedIsUnderWay'
  BY DEF CoordinatorEffect, IInv, StartedIsUnderWay
<1>12. QED
  BY <1>2, <1>3, <1>4, <1>6, <1>7, <1>8, <1>9, <1>10, <1>11 DEF IInv

LEMMA ParticipantPreserves ==
    ASSUME IInv, NEW n \in Nodes, ParticipantMoves(n)
    PROVE  IInv'
<1> PICK m, o, net :
        /\ m \in Message /\ InTransit(m)
        /\ ParticipantEffect(participants[n], n, m, o)
        /\ LeftOver(net)
        /\ participants' = [participants EXCEPT ![n] = o.state]
        /\ network' = Enqueue(net, o.sent)
        /\ coordinator' = coordinator
        /\ started' = started
        /\ EnvironmentTyped
  BY DEF ParticipantMoves
<1> USE DEF LeftOver, EnvironmentTyped
<1>1. \A k \in Message : InTransit(k)' => InTransit(k) \/ k \in o.sent
  BY EnqueueAdds DEF ParticipantEffect, InTransit
<1>2. TypeOK'
  <2>1. network' \in [Message -> Nat]
    BY EnqueueAdds DEF ParticipantEffect
  <2>2. participants' \in [Nodes -> ParticipantState]
    BY DEF ParticipantEffect, IInv, TypeOK
  <2>3. QED
    BY <2>1, <2>2 DEF IInv, TypeOK
<1>3. /\ participants'[n] = o.state
      /\ \A u \in Nodes : u # n => participants'[u] = participants[u]
  BY DEF IInv, TypeOK
<1>4. PhaseMatchesDurable'
  BY DEF IInv, PhaseMatchesDurable
<1>5. CrashLosesNoVote'
  BY <1>3 DEF ParticipantEffect, IInv, CrashLosesNoVote
<1>6. \A u \in Nodes :
        /\ participants[u].durableVote # None =>
              participants'[u].durableVote = participants[u].durableVote
        /\ participants[u].durableDecision # None =>
              participants'[u].durableDecision = participants[u].durableDecision
  BY <1>3 DEF ParticipantEffect
<1>7. VotesNeverConflict'
  <2>1. \A u \in Nodes : coordinator.votes[u] \in {None, participants'[u].durableVote}
    BY <1>6 DEF IInv, VotesNeverConflict
  <2>2. \A u \in Nodes, v \in Vote :
          InTransit(VoteMessage(u, v))' => participants'[u].durableVote = v
    BY <1>1, <1>3, <1>6, MessagesTyped
       DEF ParticipantEffect, IInv, VotesNeverConflict, Vote, None
  <2>3. QED
    BY <2>1, <2>2 DEF VotesNeverConflict
<1>8. DecisionsNeverConflict'
  <2>1. \A u \in Nodes, d \in Decision :
          InTransit(DecisionMessage(u, d))' => coordinator.durable = d
    BY <1>1, MessagesTyped DEF ParticipantEffect, IInv, DecisionsNeverConflict
  <2>2. \A u \in Nodes : participants'[u].decision = participants'[u].durableDecision
    BY <1>2, <1>5, RecoverFixpoint DEF CrashLosesNoVote, TypeOK
  <2>3. participants[n].decision = participants[n].durableDecision
    BY RecoverFixpoint DEF CrashLosesNoVote, IInv, TypeOK
  <2>4. \A d \in Decision : participants'[n].decision = d => coordinator.durable = d
    BY <1>3, <2>2, <2>3, MessagesTyped
       DEF ParticipantEffect, IInv, DecisionsNeverConflict
  <2>5. QED
    BY <1>3, <2>1, <2>4 DEF DecisionsNeverConflict, IInv
<1>9. DurableCommitUnanimous'
  BY <1>6 DEF IInv, DurableCommitUnanimous, None
<1>10. AckMeansDecided'
  <2>1. \A u \in Nodes :
          InTransit(AckMessage(u))' => participants'[u].durableDecision # None
    BY <1>1, <1>3, <1>6, MessagesTyped DEF ParticipantEffect, IInv, AckMeansDecided
  <2>2. QED
    BY <1>6, <2>1 DEF IInv, AckMeansDecided
<1>11. AbortNeedsAVote' /\ StartedIsUnderWay'
  BY <1>6 DEF IInv, AbortNeedsAVote, StartedIsUnderWay, None
<1>12. QED
  BY <1>2, <1>4, <1>5, <1>7, <1>8, <1>9, <1>10, <1>11 DEF IInv

LEMMA NobodyPreserves ==
    ASSUME IInv, NobodyMoves
    PROVE  IInv'
<1>1. \A m \in Message : InTransit(m)' => InTransit(m)
  BY DEF NobodyMoves, LeftOver, InTransit
<1>2. TypeOK'
  BY DEF NobodyMoves, LeftOver, EnvironmentTyped, IInv, TypeOK
<1>3. /\ PhaseMatchesDurable' /\ CrashLosesNoVote' /\ DurableCommitUnanimous'
      /\ AbortNeedsAVote' /\ StartedIsUnderWay'
  BY DEF NobodyMoves, IInv, PhaseMatchesDurable, CrashLosesNoVote,
     DurableCommitUnanimous, AbortNeedsAVote, StartedIsUnderWay
<1>4. VotesNeverConflict' /\ DecisionsNeverConflict' /\ AckMeansDecided'
  BY <1>1, MessagesTyped DEF NobodyMoves, IInv, VotesNeverConflict,
     DecisionsNeverConflict, AckMeansDecided
<1>5. QED
  BY <1>2, <1>3, <1>4 DEF IInv

\* A recovery finds what CrashLosesNoVote and PhaseMatchesDurable promise: the
\* participant is unchanged, and the coordinator forgets only votes and acks.
LEMMA RecoverEffect ==
    ASSUME NEW c \in CoordinatorState, PhaseOK(c)
    PROVE  CoordinatorEffect(c, {}, Outcome(CoordinatorRecover(c), {}))
<1>1. /\ CoordinatorRecover(c) \in CoordinatorState
      /\ PhaseOK(CoordinatorRecover(c))
      /\ CoordinatorRecover(c).durable = c.durable
      /\ CoordinatorRecover(c).votes = NoVotes
      /\ CoordinatorRecover(c).acks = {}
      /\ CoordinatorRecover(c).phase \in {"Voting", "Decided"}
  BY DEF CoordinatorRecover, CoordinatorState, CoordinatorPhase, PhaseOK, NoVotes
<1>2. QED
  BY <1>1 DEF CoordinatorEffect, Outcome, NoVotes, None

LEMMA EnqueueNothing ==
    ASSUME NEW net \in [Message -> Nat]
    PROVE  Enqueue(net, {}) = net
BY DEF Enqueue

LEMMA StepMoves ==
    ASSUME IInv, Next
    PROVE  CoordinatorMoves \/ (\E n \in Nodes : ParticipantMoves(n)) \/ NobodyMoves
<1>1. /\ coordinator \in CoordinatorState /\ PhaseOK(coordinator)
      /\ network \in [Message -> Nat]
      /\ status \in [ActorId -> ActorStatus] /\ started \in BOOLEAN
  BY DEF IInv, TypeOK, PhaseMatchesDurable, PhaseOK
<1>2. LeftOver(network)
  BY <1>1 DEF LeftOver, InTransit
<1>3. ASSUME NEW m \in Message, InTransit(m)
      PROVE  LeftOver(Dequeue(network, m))
  BY <1>1, <1>3, DequeueRemoves DEF LeftOver, InTransit
<1>4. ASSUME StartTransaction PROVE CoordinatorMoves
  <2>0. PICK elapsed \in BOOLEAN :
            CoordinatorTakes(CoordinatorOnMessage(coordinator, StartMessage, elapsed),
                             network)
    BY <1>4 DEF StartTransaction
  <2>1. PICK o \in CoordinatorOnMessage(coordinator, StartMessage, elapsed) :
               coordinator' = o.state /\ network' = Enqueue(network, o.sent)
    BY <2>0 DEF CoordinatorTakes
  <2>2. CoordinatorEffect(coordinator, {StartMessage}, o)
    BY <1>1, OnMessageEffect
  <2>3. StartMessage \notin Message
    BY DEF StartMessage, Message
  <2>4. participants' = participants /\ status' = status /\ started' = TRUE
    BY <1>4 DEF StartTransaction, CoordinatorTakes
  <2>5. QED
    BY <1>1, <1>2, <2>1, <2>2, <2>3, <2>4 DEF CoordinatorMoves, EnvironmentTyped
<1>5. ASSUME NEW elapsed \in BOOLEAN, Tick(elapsed) PROVE CoordinatorMoves
  <2>1. PICK o \in CoordinatorTick(coordinator, elapsed) :
               coordinator' = o.state /\ network' = Enqueue(network, o.sent)
    BY <1>5 DEF Tick, CoordinatorTakes
  <2>2. CoordinatorEffect(coordinator, {}, o)
    BY <1>1, TickEffect
  <2>3. participants' = participants /\ status' = status /\ started' = started
    BY <1>5 DEF Tick, CoordinatorTakes
  <2>4. QED
    BY <1>1, <1>2, <2>1, <2>2, <2>3 DEF CoordinatorMoves, EnvironmentTyped
<1>6. ASSUME NEW m \in Message, DeliverToCoordinator(m) PROVE CoordinatorMoves
  <2>0. PICK elapsed \in BOOLEAN :
            CoordinatorTakes(CoordinatorOnMessage(coordinator, m, elapsed),
                             Dequeue(network, m))
    BY <1>6 DEF DeliverToCoordinator
  <2>1. PICK o \in CoordinatorOnMessage(coordinator, m, elapsed) :
               /\ coordinator' = o.state
               /\ network' = Enqueue(Dequeue(network, m), o.sent)
    BY <2>0 DEF CoordinatorTakes
  <2>2. CoordinatorEffect(coordinator, {m}, o)
    BY <1>1, OnMessageEffect
  <2>3. /\ InTransit(m)
        /\ participants' = participants /\ status' = status /\ started' = started
    BY <1>6 DEF DeliverToCoordinator, CoordinatorTakes
  <2>4. LeftOver(Dequeue(network, m))
    BY <1>3, <2>3
  <2>5. QED
    BY <1>1, <2>1, <2>2, <2>3, <2>4 DEF CoordinatorMoves, EnvironmentTyped
<1>7. ASSUME NEW m \in Message, DeliverToParticipant(m)
      PROVE  \E n \in Nodes : ParticipantMoves(n)
  <2>1. m.to \in Nodes /\ InTransit(m)
    BY <1>7 DEF DeliverToParticipant
  <2>2. /\ participants[m.to] \in ParticipantState
        /\ ParticipantRecover(participants[m.to]) = participants[m.to]
    BY <2>1 DEF IInv, TypeOK, CrashLosesNoVote
  <2>3. PICK o \in ParticipantOnMessage(participants[m.to], m.to, m) :
               /\ participants' = [participants EXCEPT ![m.to] = o.state]
               /\ network' = Enqueue(Dequeue(network, m), o.sent)
    BY <1>7 DEF DeliverToParticipant, ParticipantTakes
  <2>4. ParticipantEffect(participants[m.to], m.to, m, o)
    BY <2>1, <2>2, ParticipantOnMessageEffect
  <2>5. coordinator' = coordinator /\ status' = status /\ started' = started
    BY <1>7 DEF DeliverToParticipant, ParticipantTakes
  <2>6. LeftOver(Dequeue(network, m))
    BY <1>3, <2>1
  <2>7. ParticipantMoves(m.to)
    BY <1>1, <2>1, <2>3, <2>4, <2>5, <2>6 DEF ParticipantMoves, EnvironmentTyped
  <2>8. QED
    BY <2>1, <2>7
<1>8. ASSUME NEW m \in Message, Drop(m) PROVE NobodyMoves
  BY <1>1, <1>3, <1>8 DEF Drop, NobodyMoves, EnvironmentTyped
<1>9. ASSUME RecoverCoordinator PROVE CoordinatorMoves
  <2> DEFINE o == Outcome(CoordinatorRecover(coordinator), {})
  <2>1. CoordinatorEffect(coordinator, {}, o)
    BY <1>1, RecoverEffect
  <2>2. coordinator' = o.state /\ network' = Enqueue(network, o.sent)
    BY <1>1, <1>9, EnqueueNothing DEF RecoverCoordinator, Outcome
  <2>3. participants' = participants /\ started' = started
        /\ status' \in [ActorId -> ActorStatus]
    BY <1>1, <1>9 DEF RecoverCoordinator, ActorStatus
  <2> HIDE DEF o
  <2>4. QED
    BY <1>1, <1>2, <2>1, <2>2, <2>3 DEF CoordinatorMoves, EnvironmentTyped
<1>10. ASSUME NEW n \in Nodes, RecoverParticipant(n) PROVE NobodyMoves
  <2>1. ParticipantRecover(participants[n]) = participants[n]
    BY DEF IInv, CrashLosesNoVote
  <2>2. participants' = participants
    BY <1>10, <2>1 DEF RecoverParticipant, IInv, TypeOK
  <2>3. QED
    BY <1>1, <1>2, <1>10, <2>2
       DEF RecoverParticipant, NobodyMoves, EnvironmentTyped, ActorStatus
<1>11. ASSUME NEW a \in ActorId, Crash(a) PROVE NobodyMoves
  BY <1>1, <1>2, <1>11 DEF Crash, NobodyMoves, EnvironmentTyped, ActorStatus
<1>12. QED
  BY <1>4, <1>5, <1>6, <1>7, <1>8, <1>9, <1>10, <1>11 DEF Next, Progress, Deliver

-----------------------------------------------------------------------------
(* Theorems *)

LEMMA NextPreserves == IInv /\ [Next]_vars => IInv'
<1>1. ASSUME IInv, Next PROVE IInv'
  BY <1>1, StepMoves, CoordinatorPreserves, ParticipantPreserves, NobodyPreserves
<1>2. ASSUME IInv, UNCHANGED vars PROVE IInv'
  BY <1>2 DEF vars, IInv, TypeOK, PhaseMatchesDurable, CrashLosesNoVote,
     VotesNeverConflict, DecisionsNeverConflict, DurableCommitUnanimous,
     AbortNeedsAVote, AckMeansDecided, StartedIsUnderWay, InTransit
<1>3. QED
  BY <1>1, <1>2

\* The inductive invariant holds in every reachable state.
THEOREM InvariantHolds == Spec => []IInv
BY InitEstablishes, NextPreserves, PTL DEF Spec

\* Type correctness of the composed system, in particular that no message is
\* taken from the network more often than it was put there.
THEOREM TypeCorrect == Spec => []TypeOK
<1>1. IInv => TypeOK
  BY DEF IInv
<1>2. QED
  BY <1>1, InvariantHolds, PTL

\* AC1: no two participants ever hold different decisions.
THEOREM AgreementHolds == Spec => []Agreement
<1>1. IInv => Agreement
  <2> SUFFICES ASSUME IInv, NEW m \in Nodes, NEW n \in Nodes,
                      participants[m].decision # None, participants[n].decision # None
               PROVE  participants[m].decision = participants[n].decision
    BY DEF Agreement
  <2>1. participants[m].decision \in Decision /\ participants[n].decision \in Decision
    BY DEF IInv, TypeOK, ParticipantState
  <2>2. QED
    BY <2>1 DEF IInv, DecisionsNeverConflict
<1>2. QED
  BY <1>1, InvariantHolds, PTL

\* AC2: wherever a Commit decision is found, every node has voted Commit.
THEOREM CommitIsUnanimous == Spec => []CommitNeedsUnanimity
<1>1. IInv => CommitNeedsUnanimity
  BY DEF IInv, DecisionsNeverConflict, DurableCommitUnanimous, CommitNeedsUnanimity,
     Decision
<1>2. QED
  BY <1>1, InvariantHolds, PTL

\* A coordinator without abort bias aborts only on an Abort vote.
THEOREM AbortIsExcused == Spec => []AbortNeedsAVote
<1>1. IInv => AbortNeedsAVote
  BY DEF IInv
<1>2. QED
  BY <1>1, InvariantHolds, PTL

\* Votes heard by anyone, at any time, are those their senders made durable.
THEOREM VotesAgree == Spec => []VotesNeverConflict
<1>1. IInv => VotesNeverConflict
  BY DEF IInv
<1>2. QED
  BY <1>1, InvariantHolds, PTL

\* Decisions heard by anyone, at any time, are the one the coordinator made durable.
THEOREM DecisionsAgree == Spec => []DecisionsNeverConflict
<1>1. IInv => DecisionsNeverConflict
  BY DEF IInv
<1>2. QED
  BY <1>1, InvariantHolds, PTL

\* The coordinator's phase is the one its durable decision stands for.
THEOREM PhasesAreDurable == Spec => []PhaseMatchesDurable
<1>1. IInv => PhaseMatchesDurable
  BY DEF IInv
<1>2. QED
  BY <1>1, InvariantHolds, PTL

\* Every participant's memory is what it would recover from a crash.
THEOREM CrashesLoseNoVote == Spec => []CrashLosesNoVote
<1>1. IInv => CrashLosesNoVote
  BY DEF IInv
<1>2. QED
  BY <1>1, InvariantHolds, PTL

\* An Ack, and all the more Done, implies a durable decision.
THEOREM AcksAreTruthful == Spec => []AckMeansDecided
<1>1. IInv => AckMeansDecided
  BY DEF IInv
<1>2. QED
  BY <1>1, InvariantHolds, PTL

\* A started system that is up and quiescent has decided everywhere.
THEOREM QuiescenceIsTermination == Spec => []QuiescentMeansDecided
<1>1. IInv => QuiescentMeansDecided
  <2> SUFFICES ASSUME IInv, IsQuiescent, started, \A a \in ActorId : IsOperating(a),
                      NEW n \in Nodes
               PROVE  participants[n].decision # None
    BY DEF QuiescentMeansDecided
  <2>1. coordinator.phase = "Done"
    BY DEF IsQuiescent, CoordinatorIsQuiescent, ActorId, IInv, StartedIsUnderWay
  <2>2. participants[n].durableDecision # None
    BY <2>1 DEF IInv, AckMeansDecided
  <2>3. participants[n].decision = participants[n].durableDecision
    BY RecoverFixpoint DEF IInv, TypeOK, CrashLosesNoVote
  <2>4. QED
    BY <2>2, <2>3
<1>2. QED
  BY <1>1, InvariantHolds, PTL

-----------------------------------------------------------------------------
(* What a step may do to the durable state *)

\* The durable state of the abstract specification.
durableVotes == [n \in Nodes |-> participants[n].durableVote]
durableDecisions == [n \in Nodes |-> participants[n].durableDecision]

LEMMA CoordinatorDurable ==
    ASSUME IInv, CoordinatorMoves
    PROVE  /\ participants' = participants
           /\ coordinator.durable # None => coordinator'.durable = coordinator.durable
           /\ coordinator.durable = None /\ coordinator'.durable = "Commit" =>
                 AbortBias # "always" /\ \A n \in Nodes : durableVotes[n] = "Commit"
           /\ coordinator.durable = None /\ coordinator'.durable = "Abort" =>
                 AbortBias # "never" \/ \E n \in Nodes : durableVotes[n] = "Abort"
<1> PICK heard, o, net :
        /\ CoordinatorEffect(coordinator, heard, o)
        /\ \A m \in Message : m \in heard => InTransit(m)
        /\ coordinator' = o.state
        /\ participants' = participants
  BY DEF CoordinatorMoves
<1>1. \A n \in Nodes, v \in Vote :
        MayCount(coordinator, heard, n, v) => participants[n].durableVote = v
  BY MessagesTyped DEF MayCount, IInv, VotesNeverConflict, Vote, None
<1>2. QED
  BY <1>1 DEF CoordinatorEffect, durableVotes, Vote

LEMMA ParticipantDurable ==
    ASSUME IInv, NEW n \in Nodes, ParticipantMoves(n)
    PROVE  LET p == participants[n]
               q == participants'[n]
           IN  /\ coordinator' = coordinator
               /\ participants' = [participants EXCEPT ![n] = q]
               /\ q \in ParticipantState
               /\ p.durableVote # None => q.durableVote = p.durableVote
               /\ q.durableVote # p.durableVote =>
                     p.durableDecision = None /\ q.durableDecision = None
               /\ q.durableDecision # p.durableDecision =>
                     /\ p.durableDecision = None
                     /\ q.durableDecision = coordinator.durable
                     /\ coordinator.durable # None
<1> PICK m, o, net :
        /\ m \in Message /\ InTransit(m)
        /\ ParticipantEffect(participants[n], n, m, o)
        /\ participants' = [participants EXCEPT ![n] = o.state]
        /\ coordinator' = coordinator
  BY DEF ParticipantMoves
<1>1. participants'[n] = o.state
  BY DEF IInv, TypeOK
<1>2. \A d \in Decision : m = DecisionMessage(n, d) => coordinator.durable = d
  BY DEF IInv, DecisionsNeverConflict
<1>3. QED
  BY <1>1, <1>2 DEF ParticipantEffect, Decision, None

\* What is durable is never lost or replaced.
THEOREM DurabilityHolds == Spec => DurableIsFinal
<1> DEFINE Final ==
        /\ coordinator.durable # None => coordinator'.durable = coordinator.durable
        /\ \A n \in Nodes :
             /\ participants[n].durableVote # None =>
                  participants'[n].durableVote = participants[n].durableVote
             /\ participants[n].durableDecision # None =>
                  participants'[n].durableDecision = participants[n].durableDecision
<1>1. ASSUME IInv, Next PROVE Final
  <2>1. CASE CoordinatorMoves
    BY <1>1, <2>1, CoordinatorDurable
  <2>2. ASSUME NEW n \in Nodes, ParticipantMoves(n) PROVE Final
    BY <1>1, <2>2, ParticipantDurable DEF IInv, TypeOK
  <2>3. CASE NobodyMoves
    BY <2>3 DEF NobodyMoves
  <2>4. QED
    BY <1>1, <2>1, <2>2, <2>3, StepMoves
<1>2. IInv /\ [Next]_vars => [Final]_vars
  BY <1>1
<1>3. QED
  BY <1>2, InvariantHolds, PTL DEF Spec, DurableIsFinal

-----------------------------------------------------------------------------
(* Refinement *)

LEMMA RefinesInit == Init => AC!Init
BY DEF Init, AC!Init, AC!Undecided, AC!None, NewCoordinator, NewParticipant, None

LEMMA CoordinatorRefines ==
    ASSUME IInv, IInv', CoordinatorMoves
    PROVE  AC!Next \/ UNCHANGED AC!abstractVars
<1>1. coordinator.durable \in Decision \cup {None} /\ coordinator'.durable \in Decision \cup {None}
  BY DEF IInv, TypeOK, CoordinatorState
<1>2. CASE coordinator'.durable = coordinator.durable
  BY <1>2, CoordinatorDurable DEF AC!abstractVars
<1>3. CASE coordinator.durable = None /\ coordinator'.durable = "Commit"
  <2>1. AC!DecideCommit
    BY <1>3, CoordinatorDurable DEF AC!DecideCommit, AC!None, None, durableVotes
  <2>2. QED
    BY <2>1 DEF AC!Next
<1>4. CASE coordinator.durable = None /\ coordinator'.durable = "Abort"
  <2>1. AC!DecideAbort
    BY <1>4, CoordinatorDurable DEF AC!DecideAbort, AC!None, None, durableVotes
  <2>2. QED
    BY <2>1 DEF AC!Next
<1>5. QED
  BY <1>1, <1>2, <1>3, <1>4, CoordinatorDurable DEF Decision

LEMMA ParticipantRefines ==
    ASSUME IInv, NEW n \in Nodes, ParticipantMoves(n)
    PROVE  AC!Next \/ UNCHANGED AC!abstractVars
<1> DEFINE p == participants[n]
           q == participants'[n]
<1>1. /\ participants \in [Nodes -> ParticipantState]
      /\ participants' = [participants EXCEPT ![n] = q]
      /\ coordinator' = coordinator
      /\ q \in ParticipantState
  BY ParticipantDurable DEF IInv, TypeOK
<1>2. /\ durableVotes' = [durableVotes EXCEPT ![n] = q.durableVote]
      /\ durableDecisions' = [durableDecisions EXCEPT ![n] = q.durableDecision]
  BY <1>1 DEF durableVotes, durableDecisions
<1>3. durableVotes[n] = p.durableVote /\ durableDecisions[n] = p.durableDecision
  BY DEF durableVotes, durableDecisions
<1>4. CASE q.durableVote # p.durableVote
  <2>1. PICK v \in Vote : /\ q.durableVote = v
                          /\ p.durableVote = None /\ p.durableDecision = None
                          /\ q.durableDecision = None
    BY <1>1, <1>4, ParticipantDurable DEF ParticipantState
  <2>2. durableDecisions' = durableDecisions
    BY <1>2, <1>3, <2>1 DEF durableDecisions
  <2>3. AC!CastVote(n, v)
    BY <1>1, <1>2, <1>3, <2>1, <2>2
       DEF AC!CastVote, AC!None, None, durableVotes, durableDecisions
  <2>4. QED
    BY <2>3 DEF AC!Next, AC!Vote, Vote
<1>5. CASE q.durableVote = p.durableVote /\ q.durableDecision # p.durableDecision
  <2>1. /\ p.durableDecision = None
        /\ q.durableDecision = coordinator.durable /\ coordinator.durable # None
    BY <1>5, ParticipantDurable
  <2>2. durableVotes' = durableVotes
    BY <1>2, <1>3, <1>5 DEF durableVotes
  <2>3. AC!Learn(n)
    BY <1>1, <1>2, <1>3, <2>1, <2>2
       DEF AC!Learn, AC!None, None, durableVotes, durableDecisions
  <2>4. QED
    BY <2>3 DEF AC!Next
<1>6. CASE q.durableVote = p.durableVote /\ q.durableDecision = p.durableDecision
  <2>1. durableVotes' = durableVotes /\ durableDecisions' = durableDecisions
    BY <1>2, <1>3, <1>6 DEF durableVotes, durableDecisions
  <2>2. QED
    BY <1>1, <2>1 DEF AC!abstractVars, durableVotes, durableDecisions
<1>7. QED
  BY <1>4, <1>5, <1>6

LEMMA RefinesNext == IInv /\ IInv' /\ [Next]_vars => [AC!Next]_(AC!abstractVars)
<1>1. ASSUME IInv, IInv', Next PROVE [AC!Next]_(AC!abstractVars)
  <2>1. CASE CoordinatorMoves
    BY <1>1, <2>1, CoordinatorRefines
  <2>2. CASE \E n \in Nodes : ParticipantMoves(n)
    BY <1>1, <2>2, ParticipantRefines
  <2>3. CASE NobodyMoves
    BY <2>3 DEF NobodyMoves, AC!abstractVars
  <2>4. QED
    BY <1>1, <2>1, <2>2, <2>3, StepMoves
<1>2. ASSUME UNCHANGED vars PROVE UNCHANGED AC!abstractVars
  BY <1>2 DEF vars, AC!abstractVars
<1>3. QED
  BY <1>1, <1>2

\* The protocol, crashes and retransmissions included, implements atomic
\* commitment.
THEOREM Refinement == Spec => ImplementsAtomicCommit
BY RefinesInit, RefinesNext, InvariantHolds, PTL
   DEF Spec, ImplementsAtomicCommit, AC!Spec

-----------------------------------------------------------------------------
(* Whom the coordinator waits for *)

Awaits(c) ==
    /\ c.phase = "Voting" => \E n \in Nodes : c.votes[n] = None
    /\ c.phase = "AwaitingAcks" => c.acks # Nodes

LEMMA SendAwaits ==
    ASSUME Nodes # {}, NEW c \in CoordinatorState, Awaits(c) \/ c.phase = "Decided"
    PROVE  Awaits(TrySendDecision(c).state)
<1>1. CASE c.phase = "Decided"
  <2>1. TrySendDecision(c).state =
            [c EXCEPT !.phase = "AwaitingAcks", !.acks = {}, !.durable = c.decision]
    BY <1>1 DEF TrySendDecision, Outcome
  <2>2. QED
    BY <2>1 DEF Awaits, CoordinatorState
<1>2. QED
  BY <1>1 DEF TrySendDecision, Outcome, Awaits

LEMMA DecideTyped ==
    ASSUME NEW c \in CoordinatorState, NEW d \in Decision
    PROVE  Decide(c, d) \in CoordinatorState /\ Decide(c, d).phase = "Decided"
BY DEF Decide, CoordinatorState, CoordinatorPhase, NoVotes

LEMMA TickAwaits ==
    ASSUME Nodes # {}, NEW c \in CoordinatorState, Awaits(c),
           NEW elapsed \in BOOLEAN, NEW o \in CoordinatorTick(c, elapsed)
    PROVE  Awaits(o.state)
<1>1. CASE c.phase = "Voting"
  <2>1. \/ o = TrySendDecision(Decide(c, "Abort"))
        \/ o.state = c
    <3>1. PICK abort \in SpontaneousAbort :
            o = IF abort THEN TrySendDecision(Decide(c, "Abort"))
                ELSE Outcome(c, When(elapsed, {PrepareMessage(n) :
                                     n \in {u \in Nodes : c.votes[u] = None}}))
      BY <1>1 DEF CoordinatorTick, TickVoting
    <3>2. QED
      BY <3>1 DEF Outcome
  <2>2. QED
    BY <2>1, DecideTyped, SendAwaits DEF Decision
<1>2. CASE c.phase = "Decided"
  BY <1>2, SendAwaits DEF CoordinatorTick
<1>3. CASE c.phase \notin {"Voting", "Decided"}
  BY <1>3 DEF CoordinatorTick, TickAwaitingAcks, Outcome
<1>4. QED
  BY <1>1, <1>2, <1>3

\* A vote that leaves the tally complete decides.
LEMMA RecordVoteAwaits ==
    ASSUME Nodes # {}, NEW c \in CoordinatorState, Awaits(c), c.phase = "Voting",
           NEW n \in Nodes, NEW v \in Vote, NEW o \in RecordVote(c, n, v)
    PROVE  Awaits(o.state)
<1> DEFINE t == [c EXCEPT !.votes[n] = v]
<1>1. CASE c.votes[n] # None
  BY <1>1 DEF RecordVote, Outcome
<1>2. CASE c.votes[n] = None
  <2>1. t \in CoordinatorState /\ t.phase = "Voting"
    BY DEF CoordinatorState
  <2>2. PICK d \in TryDecide(t) : o = TrySendDecision(d)
    BY <1>2 DEF RecordVote
  <2> HIDE DEF t
  <2>3. \/ \E e \in Decision : d = Decide(t, e)
        \/ d = t /\ \E u \in Nodes : t.votes[u] = None
    BY <2>2 DEF TryDecide, Decision
  <2>4. d \in CoordinatorState /\ (Awaits(d) \/ d.phase = "Decided")
    BY <2>1, <2>3, DecideTyped DEF Awaits
  <2>5. QED
    BY <2>2, <2>4, SendAwaits
<1>3. QED
  BY <1>1, <1>2

LEMMA HandleAwaits ==
    ASSUME Nodes # {}, NEW c \in CoordinatorState, Awaits(c),
           NEW m \in Message \cup {StartMessage}, NEW o \in CoordinatorHandle(c, m)
    PROVE  Awaits(o.state)
<1>1. CASE m.type = "StartTransaction" /\ c.phase = "Waiting"
  <2>1. o.state = [c EXCEPT !.phase = "Voting", !.votes = NoVotes]
    BY <1>1 DEF CoordinatorHandle, BeginVoting, Outcome
  <2>2. QED
    BY <2>1 DEF Awaits, NoVotes, CoordinatorState
<1>2. CASE IsVote(m) /\ c.phase = "Voting" /\ m.from \in Nodes
  <2>1. o \in RecordVote(c, m.from, VoteOf(m)) /\ VoteOf(m) \in Vote
    BY <1>2 DEF CoordinatorHandle, IsVote, VoteOf, Vote
  <2>2. QED
    BY <1>2, <2>1, RecordVoteAwaits
<1>3. CASE m.type = "Ack" /\ c.phase = "AwaitingAcks" /\ m.from \in Nodes
  <2>1. o \in RecordAck(c, m.from)
    BY <1>3 DEF CoordinatorHandle, IsVote
  <2>2. CASE c.acks \cup {m.from} = Nodes
    <3>1. o.state = [c EXCEPT !.phase = "Done", !.acks = {}]
      BY <2>1, <2>2 DEF RecordAck, Outcome
    <3>2. QED
      BY <3>1 DEF Awaits, CoordinatorState
  <2>3. CASE c.acks \cup {m.from} # Nodes
    <3>1. o.state = [c EXCEPT !.acks = @ \cup {m.from}]
      BY <2>1, <2>3 DEF RecordAck, Outcome
    <3>2. QED
      BY <1>3, <2>3, <3>1 DEF Awaits, CoordinatorState
  <2>4. QED
    BY <2>2, <2>3
<1>4. CASE /\ ~ (m.type = "StartTransaction" /\ c.phase = "Waiting")
           /\ ~ (IsVote(m) /\ c.phase = "Voting" /\ m.from \in Nodes)
           /\ ~ (m.type = "Ack" /\ c.phase = "AwaitingAcks" /\ m.from \in Nodes)
  BY <1>4 DEF CoordinatorHandle, Outcome
<1>5. QED
  BY <1>1, <1>2, <1>3, <1>4

LEMMA OnMessageAwaits ==
    ASSUME Nodes # {}, NEW c \in CoordinatorState, PhaseOK(c), Awaits(c),
           NEW elapsed \in BOOLEAN, NEW m \in Message \cup {StartMessage},
           NEW o \in CoordinatorOnMessage(c, m, elapsed)
    PROVE  Awaits(o.state)
<1>1. PICK ticked \in CoordinatorTick(c, elapsed) :
        \E handled \in CoordinatorHandle(ticked.state, m) : o.state = handled.state
  BY DEF CoordinatorOnMessage, Outcome
<1>2. ticked.state \in CoordinatorState /\ Awaits(ticked.state)
  BY TickEffect, TickAwaits DEF CoordinatorEffect
<1>3. QED
  BY <1>1, <1>2, HandleAwaits

LEMMA AwaitsPreserved ==
    ASSUME IInv, Nodes # {}, Awaits(coordinator), [Next]_vars
    PROVE  Awaits(coordinator')
<1>1. coordinator \in CoordinatorState /\ PhaseOK(coordinator)
  BY DEF IInv, TypeOK, PhaseMatchesDurable, PhaseOK
<1>2. CASE StartTransaction
  BY <1>1, <1>2, OnMessageAwaits DEF StartTransaction, CoordinatorTakes
<1>3. ASSUME NEW elapsed \in BOOLEAN, Tick(elapsed) PROVE Awaits(coordinator')
  BY <1>1, <1>3, TickAwaits DEF Tick, CoordinatorTakes
<1>4. ASSUME NEW m \in Message, DeliverToCoordinator(m) PROVE Awaits(coordinator')
  BY <1>1, <1>4, OnMessageAwaits DEF DeliverToCoordinator, CoordinatorTakes
<1>5. CASE RecoverCoordinator
  BY <1>5 DEF RecoverCoordinator, CoordinatorRecover, Awaits, NoVotes
<1>6. CASE UNCHANGED coordinator
  BY <1>6
<1>7. QED
  BY <1>2, <1>3, <1>4, <1>5, <1>6
     DEF Next, Progress, Deliver, DeliverToParticipant, ParticipantTakes, Drop,
         RecoverParticipant, Crash, vars

\* The coordinator never waits for answers it already has: its next decision,
\* and its end, always hang on a message of some node.
THEOREM SomeoneIsAwaited == Spec => []AwaitsSomeone
<1>1. CASE Nodes = {}
  <2>1. AwaitsSomeone
    BY <1>1 DEF AwaitsSomeone
  <2>2. QED
    BY <2>1, PTL
<1>2. CASE Nodes # {}
  <2>1. Init => Awaits(coordinator)
    BY DEF Init, NewCoordinator, Awaits
  <2>2. IInv /\ Awaits(coordinator) /\ [Next]_vars => Awaits(coordinator)'
    BY <1>2, AwaitsPreserved
  <2>3. Awaits(coordinator) => AwaitsSomeone
    BY DEF Awaits, AwaitsSomeone
  <2>4. QED
    BY <2>1, <2>2, <2>3, InvariantHolds, PTL DEF Spec
<1>3. QED
  BY <1>1, <1>2

-----------------------------------------------------------------------------
(* Without participants *)

\* A coordinator that has not come to a decision.
Undecided ==
    /\ coordinator.phase \in {"Waiting", "Voting"}
    /\ coordinator.durable = None

LEMMA TickWithoutBias ==
    ASSUME AbortBias = "never", NEW c, c.phase \in {"Waiting", "Voting"},
           NEW elapsed \in BOOLEAN, NEW o \in CoordinatorTick(c, elapsed)
    PROVE  o.state = c
<1>1. CASE c.phase = "Waiting"
  BY <1>1 DEF CoordinatorTick, Outcome
<1>2. CASE c.phase = "Voting"
  BY <1>2 DEF CoordinatorTick, TickVoting, SpontaneousAbort, Outcome
<1>3. QED
  BY <1>1, <1>2

LEMMA UndecidedPreserved ==
    ASSUME IInv, Nodes = {}, AbortBias = "never", Undecided, [Next]_vars
    PROVE  Undecided'
<1>1. coordinator \in CoordinatorState
  BY DEF IInv, TypeOK
<1>2. Message = {}
  BY DEF Message
<1>3. CASE StartTransaction
  <2>1. PICK elapsed \in BOOLEAN :
          \E o \in CoordinatorOnMessage(coordinator, StartMessage, elapsed) :
             coordinator' = o.state
    BY <1>3 DEF StartTransaction, CoordinatorTakes
  <2>2. PICK handled \in CoordinatorHandle(coordinator, StartMessage) :
          coordinator' = handled.state
    BY <2>1, TickWithoutBias DEF CoordinatorOnMessage, Outcome, Undecided
  <2>3. /\ StartMessage.type = "StartTransaction"
        /\ ~IsVote(StartMessage)
    BY DEF StartMessage, IsVote
  <2>4. CASE coordinator.phase = "Waiting"
    <3>1. coordinator' = [coordinator EXCEPT !.phase = "Voting", !.votes = NoVotes]
      BY <2>2, <2>3, <2>4 DEF CoordinatorHandle, BeginVoting, Outcome
    <3>2. QED
      BY <1>1, <3>1 DEF Undecided, CoordinatorState
  <2>5. CASE coordinator.phase = "Voting"
    <3>1. coordinator' = coordinator
      BY <2>2, <2>3, <2>5 DEF CoordinatorHandle, Outcome
    <3>2. QED
      BY <3>1 DEF Undecided
  <2>6. QED
    BY <2>4, <2>5 DEF Undecided
<1>4. ASSUME NEW elapsed \in BOOLEAN, Tick(elapsed) PROVE Undecided'
  BY <1>4, TickWithoutBias DEF Tick, CoordinatorTakes, Undecided
<1>5. CASE RecoverCoordinator
  BY <1>5 DEF RecoverCoordinator, CoordinatorRecover, Undecided
<1>6. CASE UNCHANGED coordinator
  BY <1>6 DEF Undecided
<1>7. QED
  BY <1>2, <1>3, <1>4, <1>5, <1>6 DEF Next, Progress, RecoverParticipant, Crash, vars

\* "With abort_bias = 0.0 the coordinator is deterministic: it commits if and
\* only if every participant votes Commit" (coordinator/mod.rs) needs someone to
\* vote.  The tally is looked at when a vote arrives, and so with no
\* participants, which Simulator::new accepts, the coordinator never decides.
THEOREM NobodyIsAsked ==
    ASSUME Nodes = {}, AbortBias = "never"
    PROVE  Spec => []Undecided
<1>1. Init => Undecided
  BY DEF Init, NewCoordinator, Undecided
<1>2. IInv /\ Undecided /\ [Next]_vars => Undecided'
  BY UndecidedPreserved
<1>3. QED
  BY <1>1, <1>2, InvariantHolds, PTL DEF Spec

-----------------------------------------------------------------------------
(* Before anything happens *)

\* A coordinator that is Waiting has neither been started nor recovered, and
\* nobody else does anything of its own accord.
Untouched ==
    coordinator.phase = "Waiting" =>
        /\ \A m \in Message : ~InTransit(m)
        /\ \A n \in Nodes : participants[n].phase = "Waiting"

LEMMA UntouchedPreserved ==
    ASSUME IInv, Untouched, [Next]_vars
    PROVE  Untouched'
<1> SUFFICES ASSUME coordinator'.phase = "Waiting"
             PROVE  /\ \A m \in Message : ~InTransit(m)'
                    /\ \A n \in Nodes : participants'[n].phase = "Waiting"
  BY DEF Untouched
<1>1. coordinator \in CoordinatorState /\ PhaseOK(coordinator) /\ network \in [Message -> Nat]
  BY DEF IInv, TypeOK, PhaseMatchesDurable, PhaseOK
<1>2. ASSUME StartTransaction PROVE FALSE
  <2>1. PICK elapsed \in BOOLEAN :
          \E o \in CoordinatorOnMessage(coordinator, StartMessage, elapsed) :
              coordinator' = o.state
    BY <1>2 DEF StartTransaction, CoordinatorTakes
  <2>2. PICK o \in CoordinatorOnMessage(coordinator, StartMessage, elapsed) :
          coordinator' = o.state
    BY <2>1
  <2>3. CoordinatorEffect(coordinator, {StartMessage}, o)
    BY <1>1, OnMessageEffect
  <2>4. QED
    BY <2>2, <2>3 DEF CoordinatorEffect
<1>3. ASSUME NEW elapsed \in BOOLEAN, Tick(elapsed)
      PROVE  UNCHANGED <<participants, network>> /\ coordinator.phase = "Waiting"
  <2>1. PICK o \in CoordinatorTick(coordinator, elapsed) :
          coordinator' = o.state /\ network' = Enqueue(network, o.sent)
    BY <1>3 DEF Tick, CoordinatorTakes
  <2>2. coordinator.phase = "Waiting"
    BY <1>1, <2>1, TickEffect DEF CoordinatorEffect
  <2>3. o.sent = {}
    BY <2>1, <2>2 DEF CoordinatorTick, Outcome
  <2>4. QED
    BY <1>1, <1>3, <2>1, <2>2, <2>3, EnqueueNothing DEF Tick, CoordinatorTakes
<1>4. ASSUME NEW m \in Message, DeliverToCoordinator(m) PROVE FALSE
  <2>1. coordinator.phase = "Waiting"
    <3>1. PICK elapsed \in BOOLEAN :
            \E o \in CoordinatorOnMessage(coordinator, m, elapsed) :
                coordinator' = o.state
      BY <1>4 DEF DeliverToCoordinator, CoordinatorTakes
    <3>2. PICK o \in CoordinatorOnMessage(coordinator, m, elapsed) :
            coordinator' = o.state
      BY <3>1
    <3>3. CoordinatorEffect(coordinator, {m}, o)
      BY <1>1, OnMessageEffect
    <3>4. QED
      BY <3>2, <3>3 DEF CoordinatorEffect
  <2>2. QED
    BY <1>4, <2>1 DEF DeliverToCoordinator, Untouched
<1>5. ASSUME NEW m \in Message, DeliverToParticipant(m) PROVE FALSE
  BY <1>5 DEF DeliverToParticipant, ParticipantTakes, Untouched
<1>6. ASSUME NEW m \in Message, Drop(m) PROVE FALSE
  BY <1>6 DEF Drop, Untouched
<1>7. CASE RecoverCoordinator
  BY <1>7 DEF RecoverCoordinator, CoordinatorRecover
<1>8. ASSUME NEW n \in Nodes, RecoverParticipant(n)
      PROVE  UNCHANGED <<coordinator, participants, network>>
  <2>1. ParticipantRecover(participants[n]) = participants[n]
    BY DEF IInv, CrashLosesNoVote
  <2>2. QED
    BY <1>8, <2>1 DEF RecoverParticipant, IInv, TypeOK
<1>9. ASSUME UNCHANGED <<participants, network>>, coordinator.phase = "Waiting"
      PROVE  /\ \A m \in Message : ~InTransit(m)'
             /\ \A n \in Nodes : participants'[n].phase = "Waiting"
  BY <1>9 DEF Untouched, InTransit
<1>10. QED
  BY <1>2, <1>3, <1>4, <1>5, <1>6, <1>7, <1>8, <1>9
     DEF Next, Progress, Deliver, Crash, vars

LEMMA UntouchedHolds == Spec => []Untouched
<1>1. Init => Untouched
  BY DEF Init, Untouched, InTransit, NewParticipant
<1>2. IInv /\ Untouched /\ [Next]_vars => Untouched'
  BY UntouchedPreserved
<1>3. QED
  BY <1>1, <1>2, InvariantHolds, PTL DEF Spec
=============================================================================
