------------------------- MODULE ObservationsProofs -------------------------
(***************************************************************************)
(* Theorems about what the simulator observes, for any number of nodes,    *)
(* any delays, any timeout and any calls of enqueue_external: the          *)
(* observations are the durable state, so no check of them ever fails.     *)
(***************************************************************************)
EXTENDS SimulatorProofs

-----------------------------------------------------------------------------
(* What becomes durable is announced *)

Announces(c, o) ==
    o.state.durable # c.durable =>
        \A n \in Nodes : DecisionMessage(n, o.state.durable) \in o.sent

LEMMA SendAnnounces ==
    ASSUME NEW c \in CoordinatorState, NEW b \in CoordinatorState, b.durable = c.durable
    PROVE  Announces(c, TrySendDecision(b)) /\ TrySendDecision(b).state \in CoordinatorState
<1>1. CASE b.phase = "Decided"
  <2> DEFINE s == [b EXCEPT !.phase = "AwaitingAcks", !.acks = {}, !.durable = b.decision]
             sent == {DecisionMessage(n, b.decision) : n \in Nodes}
  <2>1. s \in CoordinatorState /\ s.durable = b.decision
    BY DEF CoordinatorState, CoordinatorPhase
  <2>2. \A n \in Nodes : DecisionMessage(n, b.decision) \in sent
    OBVIOUS
  <2>3. TrySendDecision(b) = [state |-> s, sent |-> sent]
    BY <1>1 DEF TrySendDecision, Outcome
  <2> HIDE DEF s, sent
  <2>4. QED
    BY <2>1, <2>2, <2>3 DEF Announces
<1>2. CASE b.phase # "Decided"
  BY <1>2 DEF TrySendDecision, Outcome, Announces
<1>3. QED
  BY <1>1, <1>2

LEMMA TickAnnounces ==
    ASSUME NEW c \in CoordinatorState, NEW elapsed, NEW o \in CoordinatorTick(c, elapsed)
    PROVE  Announces(c, o) /\ o.state \in CoordinatorState
<1>1. Decide(c, "Abort") \in CoordinatorState /\ Decide(c, "Abort").durable = c.durable
  BY DEF Decide, CoordinatorState, CoordinatorPhase, NoVotes, Decision
<1>2. \/ o = TrySendDecision(Decide(c, "Abort"))
      \/ o = TrySendDecision(c)
      \/ \E sent : o = Outcome(c, sent)
  <2>1. CASE c.phase = "Voting"
    BY <2>1 DEF CoordinatorTick, TickVoting
  <2>2. CASE c.phase = "Decided"
    BY <2>2 DEF CoordinatorTick
  <2>3. CASE c.phase = "AwaitingAcks"
    BY <2>3 DEF CoordinatorTick, TickAwaitingAcks
  <2>4. CASE c.phase \in {"Waiting", "Done"}
    BY <2>4 DEF CoordinatorTick
  <2>5. QED
    BY <2>1, <2>2, <2>3, <2>4 DEF CoordinatorState, CoordinatorPhase
<1>3. QED
  BY <1>1, <1>2, SendAnnounces DEF Announces, Outcome

LEMMA TryDecideTyped ==
    ASSUME NEW c \in CoordinatorState, NEW d \in TryDecide(c)
    PROVE  d \in CoordinatorState /\ d.durable = c.durable
<1>1. \A x \in Decision : Decide(c, x) \in CoordinatorState /\ Decide(c, x).durable = c.durable
  BY DEF Decide, CoordinatorState, CoordinatorPhase, NoVotes, Decision
<1>2. d = c \/ \E x \in Decision : d = Decide(c, x)
  BY DEF TryDecide, Decision
<1>3. QED
  BY <1>1, <1>2

LEMMA HandleAnnounces ==
    ASSUME NEW c \in CoordinatorState, NEW m \in Message \cup {StartMessage},
           NEW o \in CoordinatorHandle(c, m)
    PROVE  Announces(c, o)
<1>1. CASE IsVote(m) /\ c.phase = "Voting" /\ m.from \in Nodes
  <2> DEFINE b == [c EXCEPT !.votes[m.from] = VoteOf(m)]
  <2>1. b \in CoordinatorState /\ b.durable = c.durable
    BY <1>1 DEF CoordinatorState, VoteOf, Vote
  <2>2. o \in RecordVote(c, m.from, VoteOf(m))
    BY <1>1 DEF CoordinatorHandle, IsVote
  <2> HIDE DEF b
  <2>3. CASE o = Outcome(c, {})
    BY <2>3 DEF Announces, Outcome
  <2>4. ASSUME NEW d \in TryDecide(b), o = TrySendDecision(d)
        PROVE  Announces(c, o)
    <3>1. d \in CoordinatorState /\ d.durable = c.durable
      BY <2>1, TryDecideTyped
    <3>2. QED
      BY <2>4, <3>1, SendAnnounces
  <2>5. QED
    BY <2>2, <2>3, <2>4 DEF RecordVote, b
<1>2. CASE ~(IsVote(m) /\ c.phase = "Voting" /\ m.from \in Nodes)
  <2> DEFINE voting == [c EXCEPT !.phase = "Voting", !.votes = NoVotes]
             done == [c EXCEPT !.phase = "Done", !.acks = {}]
             acked == [c EXCEPT !.acks = @ \cup {m.from}]
  <2>1. /\ voting.durable = c.durable
        /\ done.durable = c.durable
        /\ acked.durable = c.durable
    BY DEF CoordinatorState
  <2>2. CASE m.type = "StartTransaction" /\ c.phase = "Waiting"
    <3>1. o = Outcome(voting, {PrepareMessage(n) : n \in Nodes})
      BY <2>2 DEF CoordinatorHandle, BeginVoting
    <3> HIDE DEF voting
    <3>2. QED
      BY <2>1, <3>1 DEF Outcome, Announces
  <2>3. CASE m.type = "Ack" /\ c.phase = "AwaitingAcks" /\ m.from \in Nodes
    <3>1. o \in RecordAck(c, m.from)
      BY <2>3 DEF CoordinatorHandle, IsVote
    <3>2. o = Outcome(done, {}) \/ o = Outcome(acked, {})
      BY <3>1 DEF RecordAck
    <3> HIDE DEF done, acked
    <3>3. QED
      BY <2>1, <3>2 DEF Outcome, Announces
  <2>4. CASE /\ ~(m.type = "StartTransaction" /\ c.phase = "Waiting")
             /\ ~(m.type = "Ack" /\ c.phase = "AwaitingAcks" /\ m.from \in Nodes)
    BY <1>2, <2>4 DEF CoordinatorHandle, Outcome, Announces
  <2>5. QED
    BY <2>2, <2>3, <2>4
<1>3. QED
  BY <1>1, <1>2

\* A decision already made durable by the tick is not replaced by the match:
\* it would be announced twice, and differently.
LEMMA OnMessageAnnounces ==
    ASSUME NEW c \in CoordinatorState, NEW elapsed, NEW m \in Message \cup {StartMessage},
           NEW o \in CoordinatorOnMessage(c, m, elapsed)
    PROVE  Announces(c, o)
<1>1. PICK ticked \in CoordinatorTick(c, elapsed) :
        \E handled \in CoordinatorHandle(ticked.state, m) :
            o = Outcome(handled.state, ticked.sent \cup handled.sent)
  BY DEF CoordinatorOnMessage
<1>2. PICK handled \in CoordinatorHandle(ticked.state, m) :
        o = Outcome(handled.state, ticked.sent \cup handled.sent)
  BY <1>1
<1>3. o.state = handled.state /\ o.sent = ticked.sent \cup handled.sent
  BY <1>2 DEF Outcome
<1>4. Announces(c, ticked) /\ Announces(ticked.state, handled)
  BY TickAnnounces, HandleAnnounces
<1>5. CASE o.state.durable = ticked.state.durable
  BY <1>3, <1>4, <1>5 DEF Announces
<1>6. CASE o.state.durable # ticked.state.durable
  BY <1>3, <1>4, <1>6 DEF Announces
<1>7. QED
  BY <1>5, <1>6

\* A vote made durable is sent, and a decision delivered is durable.
LEMMA ParticipantAnnounces ==
    ASSUME NEW p \in ParticipantState, ParticipantRecover(p) = p,
           NEW n \in Nodes, NEW m \in Message, m.to = n,
           NEW o \in ParticipantOnMessage(p, n, m)
    PROVE  /\ o.state.durableVote # p.durableVote =>
                 VoteMessage(n, o.state.durableVote) \in o.sent
           /\ IsDecision(m) /\ p.durableDecision = None =>
                 o.state.durableDecision = DecisionOf(m)
<1>1. p.phase = "Decided" => p.durableDecision # None
  BY DEF ParticipantRecover, ParticipantState
<1>2. CASE m.type = "Prepare"
  <2>1. o \in OnPrepare(p, n) /\ ~IsDecision(m)
    BY <1>2 DEF ParticipantOnMessage, IsDecision
  <2>2. (\E sent : o = Outcome(p, sent))
        \/ \E v \in Vote : o = Outcome(CastVote(p, v), {VoteMessage(n, v)})
    <3>1. CASE p.phase = "Waiting"
      BY <2>1, <3>1 DEF OnPrepare, Vote
    <3>2. CASE p.phase # "Waiting"
      BY <2>1, <3>2 DEF OnPrepare, ParticipantState, ParticipantPhase
    <3>3. QED
      BY <3>1, <3>2
  <2>3. \A v : CastVote(p, v).durableVote = v
    BY DEF CastVote, ParticipantState
  <2>4. QED
    BY <2>1, <2>2, <2>3 DEF Outcome
<1>3. CASE IsDecision(m)
  <2>1. o \in OnDecision(p, n, DecisionOf(m))
    BY <1>3 DEF ParticipantOnMessage, IsDecision
  <2>2. o.state = IF p.phase = "Decided" THEN p ELSE Learn(p, DecisionOf(m))
    BY <2>1 DEF OnDecision, Outcome
  <2>3. /\ Learn(p, DecisionOf(m)).durableVote = p.durableVote
        /\ Learn(p, DecisionOf(m)).durableDecision = DecisionOf(m)
    BY DEF Learn, ParticipantState
  <2>4. QED
    BY <1>1, <2>2, <2>3
<1>4. CASE m.type # "Prepare" /\ ~IsDecision(m)
  <2>1. o = Outcome(p, {})
    BY <1>4 DEF ParticipantOnMessage
  <2>2. QED
    BY <1>4, <2>1 DEF Outcome
<1>5. QED
  BY <1>2, <1>3, <1>4

-----------------------------------------------------------------------------
(* One step, observed *)

LEMMA KeepFollows ==
    ASSUME NEW old, NEW new, NEW heard, heard \subseteq {new},
           old # None => new = old, new # old => new \in heard
    PROVE  Keep(old, heard) = new /\ ~Conflicts(old, heard)
<1>1. Keep(old, heard) = new
  <2>1. CASE old # None \/ heard = {}
    BY <2>1 DEF Keep
  <2>2. CASE old = None /\ heard # {}
    <3>1. heard = {new}
      BY <2>2
    <3>2. (CHOOSE x \in heard : TRUE) = new
      BY <3>1
    <3>3. QED
      BY <2>2, <3>2 DEF Keep
  <2>3. QED
    BY <2>1, <2>2
<1>2. QED
  BY <1>1 DEF Conflicts

LEMMA ChecksHold ==
    ASSUME NEW o, NEW d \in Decision \cup {None},
           o.coordinatorDecision \in {None, d},
           \A n \in Nodes : o.participantDecisions[n] \in {None, d},
           d = "Commit" => \A n \in Nodes : o.votes[n] = "Commit"
    PROVE  CheckAllInvariants(o)
BY DEF CheckAllInvariants, CheckAgreement, CheckValidity, Decision, None

\* The observations are the durable state; with no nodes no decision is sent.
ObservationsFollow ==
    /\ observations \in ObservationsState
    /\ ObservationsMatchDurableState
    /\ Nodes = {} => observations.coordinatorDecision = None

\* In the step, `delivered' and `sent' say what became durable and nothing else.
Tells(delivered, sent) ==
    /\ \A n \in Nodes :
        /\ VotesFrom(n, sent) \subseteq {participants'[n].durableVote}
        /\ participants[n].durableVote # None =>
              participants'[n].durableVote = participants[n].durableVote
        /\ participants'[n].durableVote # participants[n].durableVote =>
              participants'[n].durableVote \in VotesFrom(n, sent)
        /\ DecisionsTo(n, delivered) \subseteq {participants'[n].durableDecision}
        /\ participants[n].durableDecision # None =>
              participants'[n].durableDecision = participants[n].durableDecision
        /\ participants'[n].durableDecision # participants[n].durableDecision =>
              participants'[n].durableDecision \in DecisionsTo(n, delivered)
    /\ DecisionsFromCoordinator(sent) \subseteq {coordinator'.durable}
    /\ coordinator.durable # None => coordinator'.durable = coordinator.durable
    /\ coordinator'.durable # coordinator.durable /\ Nodes # {} =>
          coordinator'.durable \in DecisionsFromCoordinator(sent)
    /\ Nodes = {} => DecisionsFromCoordinator(sent) = {}

\* What TwoPhaseCommit's invariant says about the durable state after a step.
LEMMA DurableAfter ==
    ASSUME IInv'
    PROVE  /\ coordinator'.durable \in Decision \cup {None}
           /\ \A n \in Nodes :
                /\ participants'[n].durableVote \in Vote \cup {None}
                /\ participants'[n].durableDecision \in Decision \cup {None}
                /\ participants'[n].durableDecision \in {None, coordinator'.durable}
                /\ coordinator'.durable = "Commit" => participants'[n].durableVote = "Commit"
<1>1. coordinator' \in TPC!CoordinatorState /\ participants' \in [Nodes -> TPC!ParticipantState]
  BY DEF IInv, TPC!IInv, TPC!TypeOK
<1>2. \A n \in Nodes : participants'[n].decision = participants'[n].durableDecision
  <2>1. \A n \in Nodes : TPC!ParticipantRecover(participants'[n]) = participants'[n]
    BY DEF IInv, TPC!IInv, TPC!CrashLosesNoVote
  <2>2. QED
    BY <1>1, <2>1, TPC!RecoverFixpoint, CoordinatorIsNoNode, AbortBiasAssumption,
       VoteAbortBiasAssumption DEF Bias, TPC!Bias
<1>3. coordinator'.durable \in Decision \cup {None}
  BY <1>1 DEF TPC!CoordinatorState, Decision, None, TPC!Decision, TPC!None
<1>4. ASSUME NEW n \in Nodes
      PROVE  /\ participants'[n].durableVote \in Vote \cup {None}
             /\ participants'[n].durableDecision \in Decision \cup {None}
  BY <1>1 DEF TPC!ParticipantState, Decision, Vote, None, TPC!Decision, TPC!Vote, TPC!None
<1>5. ASSUME NEW n \in Nodes
      PROVE  participants'[n].durableDecision \in {None, coordinator'.durable}
  <2>1. \A d \in TPC!Decision : participants'[n].decision = d => coordinator'.durable = d
    BY DEF IInv, TPC!IInv, TPC!DecisionsNeverConflict
  <2>2. QED
    BY <1>2, <1>4, <2>1 DEF Decision, TPC!Decision
<1>6. coordinator'.durable = "Commit" =>
        \A n \in Nodes : participants'[n].durableVote = "Commit"
  BY DEF IInv, TPC!IInv, TPC!DurableCommitUnanimous
<1>7. QED
  BY <1>3, <1>4, <1>5, <1>6

\* The observations follow, and neither an assertion nor a check fails.
LEMMA StepObserved ==
    ASSUME IInv', ObservationsFollow, NEW delivered, NEW sent, Tells(delivered, sent),
           observations' = RecordSent(RecordDelivered(observations, delivered), sent)
    PROVE  ObservationsFollow' /\ ~StepPanics(observations, delivered, sent)
<1> DEFINE o == observations
           learned == [n \in Nodes |-> Keep(o.participantDecisions[n], DecisionsTo(n, delivered))]
           cast == [n \in Nodes |-> Keep(o.votes[n], VotesFrom(n, sent))]
           decided == Keep(o.coordinatorDecision, DecisionsFromCoordinator(sent))
           heard == RecordDelivered(o, delivered)
<1>1. /\ heard.votes = o.votes
      /\ heard.coordinatorDecision = o.coordinatorDecision
      /\ heard.participantDecisions = learned
      /\ heard \in [votes : {o.votes}, coordinatorDecision : {o.coordinatorDecision},
                    participantDecisions : {learned}]
  BY DEF RecordDelivered, ObservationsFollow, ObservationsState
<1>2. observations' = [votes |-> cast, coordinatorDecision |-> decided,
                       participantDecisions |-> learned]
  <2> HIDE DEF heard, learned
  <2>1. observations' = [heard EXCEPT !.votes = cast, !.coordinatorDecision = decided]
    BY <1>1 DEF RecordSent, heard
  <2> HIDE DEF cast, decided
  <2>2. QED
    BY <1>1, <2>1
<1>3. ASSUME NEW n \in Nodes
      PROVE  /\ cast[n] = participants'[n].durableVote
             /\ ~Conflicts(o.votes[n], VotesFrom(n, sent))
             /\ learned[n] = participants'[n].durableDecision
             /\ ~Conflicts(o.participantDecisions[n], DecisionsTo(n, delivered))
  <2>1. /\ o.votes[n] = participants[n].durableVote
        /\ o.participantDecisions[n] = participants[n].durableDecision
    BY DEF ObservationsFollow, ObservationsMatchDurableState
  <2>2. /\ Keep(o.votes[n], VotesFrom(n, sent)) = participants'[n].durableVote
        /\ ~Conflicts(o.votes[n], VotesFrom(n, sent))
    <3> DEFINE new == participants'[n].durableVote
               said == VotesFrom(n, sent)
    <3>1. /\ said \subseteq {new}
          /\ o.votes[n] # None => new = o.votes[n]
          /\ new # o.votes[n] => new \in said
      BY <2>1 DEF Tells
    <3> HIDE DEF new, said, o
    <3>2. Keep(o.votes[n], said) = new /\ ~Conflicts(o.votes[n], said)
      BY <3>1, KeepFollows
    <3>3. QED
      BY <3>2 DEF new, said
  <2>3. /\ Keep(o.participantDecisions[n], DecisionsTo(n, delivered))
              = participants'[n].durableDecision
        /\ ~Conflicts(o.participantDecisions[n], DecisionsTo(n, delivered))
    <3> DEFINE new == participants'[n].durableDecision
               said == DecisionsTo(n, delivered)
    <3>1. /\ said \subseteq {new}
          /\ o.participantDecisions[n] # None => new = o.participantDecisions[n]
          /\ new # o.participantDecisions[n] => new \in said
      BY <2>1 DEF Tells
    <3> HIDE DEF new, said, o
    <3>2. /\ Keep(o.participantDecisions[n], said) = new
          /\ ~Conflicts(o.participantDecisions[n], said)
      BY <3>1, KeepFollows
    <3>3. QED
      BY <3>2 DEF new, said
  <2>4. QED
    BY <2>2, <2>3
<1>4. /\ decided = IF Nodes = {} THEN None ELSE coordinator'.durable
      /\ ~Conflicts(o.coordinatorDecision, DecisionsFromCoordinator(sent))
  <2>1. CASE Nodes = {}
    BY <2>1 DEF Tells, ObservationsFollow, Keep, Conflicts
  <2>2. CASE Nodes # {}
    <3>1. o.coordinatorDecision = coordinator.durable
      BY <2>2 DEF ObservationsFollow, ObservationsMatchDurableState
    <3> DEFINE new == coordinator'.durable
               said == DecisionsFromCoordinator(sent)
    <3>2. /\ said \subseteq {new}
          /\ o.coordinatorDecision # None => new = o.coordinatorDecision
          /\ new # o.coordinatorDecision => new \in said
      BY <2>2, <3>1 DEF Tells
    <3> HIDE DEF new, said, o
    <3>3. Keep(o.coordinatorDecision, said) = new /\ ~Conflicts(o.coordinatorDecision, said)
      BY <3>2, KeepFollows
    <3>4. QED
      BY <2>2, <3>3 DEF new, said
  <2>3. QED
    BY <2>1, <2>2
<1> HIDE DEF cast, learned, decided, heard
<1>5. ObservationsFollow'
  <2>1. observations' \in ObservationsState
    <3>1. cast \in [Nodes -> Vote \cup {None}] /\ learned \in [Nodes -> Decision \cup {None}]
      BY <1>3, DurableAfter DEF cast, learned
    <3>2. decided \in Decision \cup {None}
      BY <1>4, DurableAfter
    <3>3. QED
      BY <1>2, <3>1, <3>2 DEF ObservationsState
  <2>2. QED
    BY <1>2, <1>3, <1>4, <2>1 DEF ObservationsFollow, ObservationsMatchDurableState
<1>6. CheckAllInvariants(observations')
  BY <1>2, <1>3, <1>4, DurableAfter, ChecksHold
<1>7. QED
  BY <1>1, <1>3, <1>4, <1>5, <1>6
     DEF StepPanics, RecordDeliveredPanics, RecordSentPanics, heard

-----------------------------------------------------------------------------
(* Every step tells what it makes durable *)

LEMMA SameConstructors ==
    ASSUME NEW n
    PROVE  /\ \A d : DecisionMessage(n, d) = TPC!DecisionMessage(n, d)
           /\ \A v : VoteMessage(n, v) = TPC!VoteMessage(n, v)
           /\ Decision = TPC!Decision /\ Vote = TPC!Vote /\ None = TPC!None
BY DEF DecisionMessage, VoteMessage, DecisionType, VoteType, Decision, Vote, None,
   TPC!DecisionMessage, TPC!VoteMessage, TPC!DecisionType, TPC!VoteType,
   TPC!Decision, TPC!Vote, TPC!None

\* A message says what it was made from.
LEMMA Constructed ==
    ASSUME NEW n \in Nodes
    PROVE  /\ \A d \in Decision :
                /\ IsDecision(DecisionMessage(n, d)) /\ ~IsVote(DecisionMessage(n, d))
                /\ DecisionOf(DecisionMessage(n, d)) = d
                /\ DecisionMessage(n, d).from = CoordinatorId
                /\ DecisionMessage(n, d).to = n
           /\ \A v \in Vote :
                /\ IsVote(VoteMessage(n, v)) /\ ~IsDecision(VoteMessage(n, v))
                /\ VoteOf(VoteMessage(n, v)) = v
                /\ VoteMessage(n, v).from = n
BY DEF Decision, Vote, IsDecision, IsVote, DecisionOf, VoteOf, DecisionMessage,
   VoteMessage, DecisionType, VoteType

LEMMA Deconstructed ==
    ASSUME NEW m \in Message
    PROVE  /\ IsVote(m) => /\ m.from \in Nodes /\ m.to = CoordinatorId
                           /\ VoteOf(m) \in Vote
                           /\ m = VoteMessage(m.from, VoteOf(m))
           /\ IsDecision(m) => /\ m.to \in Nodes /\ m.from = CoordinatorId
                               /\ DecisionOf(m) \in Decision
                               /\ m = DecisionMessage(m.to, DecisionOf(m))
BY DEF Message, IsVote, VoteOf, Vote, VoteMessage, VoteType, IsDecision, DecisionOf,
   Decision, DecisionMessage, DecisionType

LEMMA CoordinatorTells ==
    ASSUME NEW heard, NEW o, TPC!CoordinatorEffect(coordinator, heard, o),
           Announces(coordinator, o), coordinator' = o.state, participants' = participants,
           NEW delivered, \A m \in delivered : m \in Message /\ m.to = CoordinatorId
    PROVE  Tells(delivered, o.sent)
<1>1. /\ o.sent \in SUBSET Message
      /\ o.state.durable \in Decision \cup {None}
      /\ coordinator.durable # None => o.state.durable = coordinator.durable
      /\ \A n \in Nodes, v \in Vote : VoteMessage(n, v) \notin o.sent
      /\ \A n \in Nodes, d \in Decision :
            DecisionMessage(n, d) \in o.sent => o.state.durable = d
  BY SameMessages, SameConstructors
     DEF TPC!CoordinatorEffect, TPC!CoordinatorState
<1>2. \A n \in Nodes : VotesFrom(n, o.sent) = {}
  BY <1>1, Deconstructed DEF VotesFrom
<1>3. \A n \in Nodes : DecisionsTo(n, delivered) = {}
  BY CoordinatorIsNoNode DEF DecisionsTo
<1>4. \A d \in DecisionsFromCoordinator(o.sent) : d = o.state.durable
  BY <1>1, Deconstructed DEF DecisionsFromCoordinator
<1>5. ASSUME o.state.durable # coordinator.durable, Nodes # {}
      PROVE  o.state.durable \in DecisionsFromCoordinator(o.sent)
  <2>1. PICK n \in Nodes : DecisionMessage(n, o.state.durable) \in o.sent
    BY <1>5 DEF Announces
  <2>2. o.state.durable \in Decision
    BY <1>1, <1>5
  <2>3. QED
    BY <2>1, <2>2, Constructed DEF DecisionsFromCoordinator
<1>6. Nodes = {} => DecisionsFromCoordinator(o.sent) = {}
  BY <1>1, Deconstructed DEF DecisionsFromCoordinator
<1>7. QED
  BY <1>1, <1>2, <1>3, <1>4, <1>5, <1>6 DEF Tells

LEMMA ParticipantTells ==
    ASSUME IInv, NEW n \in Nodes, NEW m \in Message, m.to = n, TPC!InTransit(m),
           NEW o \in ParticipantOnMessage(participants[n], n, m),
           participants' = [participants EXCEPT ![n] = o.state], coordinator' = coordinator
    PROVE  Tells({m}, o.sent)
<1> DEFINE p == participants[n]
<1>1. p \in ParticipantState /\ ParticipantRecover(p) = p
  <2>1. p \in TPC!ParticipantState /\ TPC!ParticipantRecover(p) = p
    BY DEF IInv, TPC!IInv, TPC!TypeOK, TPC!CrashLosesNoVote
  <2>2. TPC!ParticipantState = ParticipantState
    BY SameConstructors DEF ParticipantState, ParticipantPhase,
       TPC!ParticipantState, TPC!ParticipantPhase
  <2>3. QED
    BY <2>1, <2>2, SameParticipant
<1>2. TPC!ParticipantEffect(p, n, m, o)
  <2>1. p \in TPC!ParticipantState /\ TPC!ParticipantRecover(p) = p
    BY DEF IInv, TPC!IInv, TPC!TypeOK, TPC!CrashLosesNoVote
  <2>2. o \in TPC!ParticipantOnMessage(p, n, m) /\ m \in TPC!Message
    BY SameParticipant, SameMessages
  <2> HIDE DEF p
  <2>3. QED
    BY <2>1, <2>2, TPC!ParticipantOnMessageEffect, CoordinatorIsNoNode,
       AbortBiasAssumption, VoteAbortBiasAssumption DEF Bias, TPC!Bias
<1>3. /\ o.state.durableVote # p.durableVote => VoteMessage(n, o.state.durableVote) \in o.sent
      /\ IsDecision(m) /\ p.durableDecision = None =>
            o.state.durableDecision = DecisionOf(m)
  BY <1>1, ParticipantAnnounces
<1> HIDE DEF p
<1>4. /\ o.sent \in SUBSET Message
      /\ o.state.durableVote \in Vote \cup {None}
      /\ o.state.durableDecision \in Decision \cup {None}
      /\ p.durableVote # None => o.state.durableVote = p.durableVote
      /\ p.durableDecision # None => o.state.durableDecision = p.durableDecision
      /\ o.state.durableDecision # p.durableDecision =>
            o.state.durableDecision \in Decision
            /\ m = DecisionMessage(n, o.state.durableDecision)
      /\ \A u \in Nodes, v \in Vote :
            VoteMessage(u, v) \in o.sent => u = n /\ o.state.durableVote = v
      /\ \A u \in Nodes, d \in Decision : DecisionMessage(u, d) \notin o.sent
  BY <1>2, SameMessages, SameConstructors
     DEF TPC!ParticipantEffect, TPC!ParticipantState
<1>5. /\ participants'[n] = o.state
      /\ \A u \in Nodes : u # n => participants'[u] = participants[u]
  BY DEF IInv, TPC!IInv, TPC!TypeOK
<1>6. ASSUME IsDecision(m) PROVE o.state.durableDecision = DecisionOf(m)
  <2>1. m = DecisionMessage(n, DecisionOf(m)) /\ DecisionOf(m) \in Decision
    BY <1>6, Deconstructed
  <2>2. coordinator.durable = DecisionOf(m)
    BY <2>1, SameConstructors DEF IInv, TPC!IInv, TPC!DecisionsNeverConflict
  <2>3. p.decision = p.durableDecision /\ p.decision \in Decision \cup {None}
    BY <1>1 DEF ParticipantRecover, ParticipantState
  <2>4. p.decision \in Decision => coordinator.durable = p.decision
    BY SameConstructors DEF IInv, TPC!IInv, TPC!DecisionsNeverConflict, p
  <2>5. QED
    BY <1>3, <1>4, <1>6, <2>2, <2>3, <2>4
<1>7. \A u \in Nodes : VotesFrom(u, o.sent) \subseteq {participants'[u].durableVote}
  <2>1. ASSUME NEW u \in Nodes, NEW v \in VotesFrom(u, o.sent)
        PROVE  u = n /\ v = o.state.durableVote
    BY <1>4, Deconstructed DEF VotesFrom
  <2>2. QED
    BY <1>5, <2>1
<1>8. o.state.durableVote # p.durableVote => o.state.durableVote \in VotesFrom(n, o.sent)
  <2> SUFFICES ASSUME o.state.durableVote # p.durableVote
               PROVE  o.state.durableVote \in VotesFrom(n, o.sent)
    OBVIOUS
  <2>1. o.state.durableVote \in Vote
    BY <1>4
  <2>2. QED
    BY <1>3, <2>1, Constructed DEF VotesFrom
<1>9. /\ \A u \in Nodes : DecisionsTo(u, {m}) \subseteq {participants'[u].durableDecision}
      /\ o.state.durableDecision # p.durableDecision =>
            o.state.durableDecision \in DecisionsTo(n, {m})
  <2>1. \A u \in Nodes : \A d \in DecisionsTo(u, {m}) :
            u = n /\ IsDecision(m) /\ d = DecisionOf(m)
    BY DEF DecisionsTo
  <2>2. IsDecision(m) => DecisionOf(m) \in DecisionsTo(n, {m})
    BY DEF DecisionsTo
  <2>3. o.state.durableDecision # p.durableDecision => IsDecision(m)
    BY <1>4, Constructed
  <2>4. QED
    BY <1>5, <1>6, <2>1, <2>2, <2>3
<1>10. DecisionsFromCoordinator(o.sent) = {}
  BY <1>4, Deconstructed DEF DecisionsFromCoordinator
<1>11. QED
  BY <1>4, <1>5, <1>7, <1>8, <1>9, <1>10 DEF Tells, p

\* Nothing becomes durable in silence.
LEMMA SilenceTells ==
    ASSUME coordinator'.durable = coordinator.durable, participants' = participants
    PROVE  Tells({}, {})
BY DEF Tells, VotesFrom, DecisionsTo, DecisionsFromCoordinator

-----------------------------------------------------------------------------
(* The invariant *)

ObservedAfter == ObservationsFollow' /\ panicked' = FALSE

LEMMA ConcludedObserved ==
    ASSUME IInv', ObservationsFollow, NEW e, NEW delivered, NEW sent,
           Tells(delivered, sent), Conclude(e, delivered, sent)
    PROVE  ObservedAfter
<1>1. /\ observations' = RecordSent(RecordDelivered(observations, delivered), sent)
      /\ panicked' = StepPanics(observations, delivered, sent)
  BY DEF Conclude
<1>2. ObservationsFollow' /\ ~StepPanics(observations, delivered, sent)
  BY <1>1, StepObserved
<1>3. StepPanics(observations, delivered, sent) \in BOOLEAN
  BY DEF StepPanics
<1>4. QED
  BY <1>1, <1>2, <1>3 DEF ObservedAfter

LEMMA CoordinatorObserved ==
    ASSUME IInv, IInv', ObservationsFollow, NEW e,
           \/ StartTransaction(e)
           \/ Tick(e)
           \/ \E m \in Message : DeliverToCoordinator(e, m)
    PROVE  ObservedAfter
<1>1. coordinator \in CoordinatorState /\ TPC!IInv
  <2>1. TPC!CoordinatorState = CoordinatorState
    BY SameConstructors DEF CoordinatorState, CoordinatorPhase,
       TPC!CoordinatorState, TPC!CoordinatorPhase
  <2>2. QED
    BY <2>1 DEF IInv, TPC!IInv, TPC!TypeOK
<1>2. ASSUME NEW m \in Message \cup {StartMessage}, NEW delivered,
             \A k \in delivered : k \in Message /\ k.to = CoordinatorId,
             CoordinatorReturns(e, delivered,
                CoordinatorOnMessage(coordinator, m, Elapsed(e.timestamp)))
      PROVE  ObservedAfter
  <2>1. PICK o \in CoordinatorOnMessage(coordinator, m, Elapsed(e.timestamp)) :
          coordinator' = o.state /\ Conclude(e, delivered, o.sent)
    BY <1>2 DEF CoordinatorReturns
  <2>2. TPC!CoordinatorEffect(coordinator, {m}, o) /\ Announces(coordinator, o)
    BY <1>1, ElapsedTyped, CoordinatorSends, OnMessageAnnounces
  <2>3. Tells(delivered, o.sent)
    BY <1>2, <2>1, <2>2, CoordinatorTells DEF CoordinatorReturns
  <2>4. QED
    BY <2>1, <2>3, ConcludedObserved
<1>3. CASE Tick(e)
  <2>1. PICK o \in CoordinatorTick(coordinator, Elapsed(e.timestamp)) :
          coordinator' = o.state /\ Conclude(e, {}, o.sent)
    BY <1>3 DEF Tick, CoordinatorReturns
  <2>2. TPC!CoordinatorEffect(coordinator, {}, o) /\ Announces(coordinator, o)
    BY <1>1, ElapsedTyped, CoordinatorSends, TickAnnounces
  <2>3. participants' = participants
    BY <1>3 DEF Tick, CoordinatorReturns
  <2>4. Tells({}, o.sent)
    BY <2>1, <2>2, <2>3, CoordinatorTells
  <2>5. QED
    BY <2>1, <2>4, ConcludedObserved
<1>4. CASE StartTransaction(e)
  BY <1>2, <1>4 DEF StartTransaction
<1>5. ASSUME NEW m \in Message, DeliverToCoordinator(e, m)
      PROVE  ObservedAfter
  BY <1>2, <1>5 DEF DeliverToCoordinator
<1>6. QED
  BY <1>3, <1>4, <1>5

LEMMA ParticipantObserved ==
    ASSUME IInv, IInv', ObservationsFollow, NEW e \in queue.entries, NEW m \in Message,
           DeliverToParticipant(e, m)
    PROVE  ObservedAfter
<1>1. PICK o \in ParticipantOnMessage(participants[m.to], m.to, m) :
        /\ participants' = [participants EXCEPT ![m.to] = o.state]
        /\ Conclude(e, {m}, o.sent)
  BY DEF DeliverToParticipant, ParticipantReturns
<1>2. m.to \in Nodes /\ e.event = DeliverEvent(m) /\ coordinator' = coordinator
      /\ started' = started
  BY DEF DeliverToParticipant, ParticipantReturns
<1>3. o.sent \in SUBSET Message
  BY <1>1, <1>2, ParticipantSends DEF IInv
<1>4. TPC!InTransit(m)
  BY <1>1, <1>2, <1>3, Typed, Concluded DEF NetworkAfter
<1>5. Tells({m}, o.sent)
  BY <1>1, <1>2, <1>4, ParticipantTells
<1>6. QED
  BY <1>1, <1>5, ConcludedObserved

LEMMA SilenceObserved ==
    ASSUME IInv, IInv', ObservationsFollow, NEW e \in queue.entries,
           \/ TickInVain(e)
           \/ \E a \in ActorId : Crash(e, a) \/ RecoverInVain(e, a)
           \/ RecoverCoordinator(e)
           \/ \E n \in Nodes : RecoverParticipant(e, n)
    PROVE  ObservedAfter
<1>1. Conclude(e, {}, {})
  BY DEF TickInVain, Crash, RecoverInVain, RecoverCoordinator, RecoverParticipant
<1>2. coordinator'.durable = coordinator.durable
  BY DEF TickInVain, Crash, RecoverInVain, RecoverCoordinator, RecoverParticipant,
     CoordinatorRecover, actorVars
<1>3. participants' = participants
  <2>1. ASSUME NEW n \in Nodes, RecoverParticipant(e, n) PROVE participants' = participants
    <3>1. TPC!ParticipantRecover(participants[n]) = participants[n]
      BY DEF IInv, TPC!IInv, TPC!CrashLosesNoVote
    <3>2. QED
      BY <2>1, <3>1, SameParticipant
         DEF RecoverParticipant, IInv, TPC!IInv, TPC!TypeOK
  <2>2. QED
    BY <2>1 DEF TickInVain, Crash, RecoverInVain, RecoverCoordinator, actorVars
<1>4. QED
  BY <1>1, <1>2, <1>3, SilenceTells, ConcludedObserved

LEMMA SendTimeTyped ==
    ASSUME lastSend \in Nat, NEW now \in Nat, NEW c
    PROVE  SendTime(now, c) \in Nat /\ RecoverySendTime(now, c) \in Nat
BY RetransmitTimeoutAssumption DEF SendTime, RecoverySendTime, SaturatingSub

\* What is inductive about the observations, next to IInv.
ObservedInv ==
    /\ ObservationsFollow
    /\ panicked = FALSE
    /\ lastSend \in Nat

LEMMA NextObserved ==
    ASSUME IInv, IInv', ObservedInv, [Next]_simulatorVars
    PROVE  ObservedInv'
<1>1. ASSUME Step PROVE ObservedInv'
  <2>1. PICK e \in queue.entries : Process(e)
    BY <1>1 DEF Step
  <2>2. e.timestamp \in Nat
    BY Typed DEF QueueOK, QueueOf
  <2>3. lastSend' \in Nat
    <3>1. \/ lastSend' = lastSend
          \/ \E c : lastSend' = SendTime(e.timestamp, c)
          \/ \E c : lastSend' = RecoverySendTime(e.timestamp, c)
      BY <2>1 DEF Process, StartTransaction, Tick, TickInVain, DeliverToCoordinator,
         DeliverToParticipant, Drop, Crash, RecoverInVain, RecoverCoordinator,
         RecoverParticipant, CoordinatorReturns, ParticipantReturns, actorVars
    <3>2. QED
      BY <2>2, <3>1, SendTimeTyped DEF ObservedInv
  <2>4. CASE \E m \in Message : Drop(e, m)
    BY <2>3, <2>4 DEF Drop, actorVars, ObservedInv, ObservationsFollow,
       ObservationsMatchDurableState
  <2>5. CASE ~ \E m \in Message : Drop(e, m)
    <3>1. ObservedAfter
      BY <2>1, <2>5, CoordinatorObserved, ParticipantObserved, SilenceObserved
         DEF Process, ObservedInv
    <3>2. QED
      BY <2>3, <3>1 DEF ObservedInv, ObservedAfter
  <2>6. QED
    BY <2>4, <2>5
<1>2. ASSUME \/ InjectProbe
             \/ \E event \in ExternalEvent, t \in Nat : EnqueueExternal(event, t)
             \/ UNCHANGED simulatorVars
      PROVE  ObservedInv'
  <2>1. UNCHANGED <<actorVars, observations, panicked>>
    BY <1>2 DEF InjectProbe, EnqueueExternal, simulatorVars
  <2>2. QED
    BY <2>1 DEF actorVars, ObservedInv, ObservationsFollow, ObservationsMatchDurableState
<1>3. QED
  BY <1>1, <1>2 DEF Next

LEMMA InitObserved ==
    ASSUME Init
    PROVE  ObservedInv
<1>1. observations = NewObservations /\ NewObservations \in ObservationsState
  BY DEF Init, NewObservations, ObservationsState
<1>2. QED
  BY <1>1 DEF Init, ObservedInv, ObservationsFollow, ObservationsMatchDurableState,
     NewObservations, NewCoordinator, NewParticipant

-----------------------------------------------------------------------------
(* Theorems *)

LEMMA ObservedInvHolds == Spec => [](IInv /\ ObservedInv)
<1>1. Init => IInv /\ ObservedInv
  BY InitRefines, InitObserved
<1>2. (IInv /\ ObservedInv) /\ [Next]_simulatorVars => (IInv /\ ObservedInv)'
  BY NextRefines, NextObserved
<1>3. QED
  BY <1>1, <1>2, PTL DEF Spec

\* Type correctness of the simulator.
THEOREM TypeCorrect == Spec => []TypeOK
<1>1. IInv /\ ObservedInv => TypeOK
  <2> SUFFICES ASSUME IInv, ObservedInv PROVE TypeOK
    OBVIOUS
  <2>1. coordinator \in CoordinatorState
    BY SameConstructors DEF CoordinatorState, CoordinatorPhase, IInv, TPC!IInv, TPC!TypeOK,
       TPC!CoordinatorState, TPC!CoordinatorPhase
  <2>2. participants \in [Nodes -> ParticipantState]
    BY SameConstructors DEF ParticipantState, ParticipantPhase, IInv, TPC!IInv, TPC!TypeOK,
       TPC!ParticipantState, TPC!ParticipantPhase
  <2>3. panicked \in BOOLEAN
    BY DEF ObservedInv
  <2>4. QED
    BY <2>1, <2>2, <2>3, Typed DEF TypeOK, ObservedInv, ObservationsFollow, IInv, QueueOK
<1>2. QED
  BY <1>1, ObservedInvHolds, PTL

\* The assertions of record_* and check_all_invariants never fail.
THEOREM AssertionsHold == Spec => []NeverPanics
<1>1. ObservedInv => NeverPanics
  BY DEF ObservedInv, NeverPanics
<1>2. QED
  BY <1>1, ObservedInvHolds, PTL

\* What is seen on the wire is, step by step, what is durable.
THEOREM ObservationsAreDurable == Spec => []ObservationsMatchDurableState
<1>1. ObservedInv => ObservationsMatchDurableState
  BY DEF ObservedInv, ObservationsFollow
<1>2. QED
  BY <1>1, ObservedInvHolds, PTL

\* A commit on the wire is preceded by every node's vote for it.
THEOREM CommitIsHeardUnanimous == Spec => []CommitIsObservedUnanimous
<1>1. IInv /\ ObservedInv => CommitIsObservedUnanimous
  BY DEF IInv, TPC!IInv, TPC!DurableCommitUnanimous, ObservedInv, ObservationsFollow,
     ObservationsMatchDurableState, CommitIsObservedUnanimous
<1>2. QED
  BY <1>1, ObservedInvHolds, PTL

-----------------------------------------------------------------------------
(* Retransmissions *)

\* What a coordinator in state c has sent before, in the phase it is in.
Repeats(c, m) ==
    \E n \in Nodes :
        \/ c.phase = "Voting" /\ m = PrepareMessage(n)
        \/ c.phase = "AwaitingAcks" /\ \E d \in {"Commit", "Abort"} : m = DecisionMessage(n, d)

LEMMA KindsDiffer ==
    /\ \A n : PrepareMessage(n).type = "Prepare"
    /\ \A n, d : DecisionMessage(n, d).type # "Prepare"
    /\ \A n, v : VoteMessage(n, v).type \notin {"Prepare", "DecisionCommit", "DecisionAbort"}
    /\ \A n : AckMessage(n).type \notin {"Prepare", "DecisionCommit", "DecisionAbort"}
    /\ \A n : \A d : DecisionMessage(n, d).type \in {"DecisionCommit", "DecisionAbort"}
BY DEF PrepareMessage, DecisionMessage, VoteMessage, AckMessage, VoteType, DecisionType

LEMMA DecisionsPrepareNobody ==
    ASSUME NEW d
    PROVE  \A m \in TrySendDecision(d).sent : m.type # "Prepare"
BY KindsDiffer DEF TrySendDecision, Outcome

\* Before the timeout a tick repeats nothing, and neither does what follows it.
LEMMA TickRepeatsNothing ==
    ASSUME NEW c \in CoordinatorState, c.phase \in {"Voting", "AwaitingAcks"},
           NEW o \in CoordinatorTick(c, FALSE)
    PROVE  /\ o.state.phase \in {"Voting", "AwaitingAcks"}
           /\ \A m \in o.sent : m.type # "Prepare"
           /\ c.phase = "AwaitingAcks" => o.state = c /\ o.sent = {}
<1>1. CASE c.phase = "Voting"
  <2>1. o = TrySendDecision(Decide(c, "Abort")) \/ o = Outcome(c, {})
    BY <1>1 DEF CoordinatorTick, TickVoting, When
  <2>2. TrySendDecision(Decide(c, "Abort")).state.phase = "AwaitingAcks"
    BY DEF TrySendDecision, Outcome, Decide, CoordinatorState
  <2>3. QED
    BY <1>1, <2>1, <2>2, DecisionsPrepareNobody DEF Outcome
<1>2. CASE c.phase = "AwaitingAcks"
  <2>1. o = Outcome(c, {})
    BY <1>2 DEF CoordinatorTick, TickAwaitingAcks, When
  <2>2. QED
    BY <1>2, <2>1 DEF Outcome
<1>3. QED
  BY <1>1, <1>2

LEMMA HandleRepeatsNothing ==
    ASSUME NEW c, c.phase \in {"Voting", "AwaitingAcks"}, NEW m,
           NEW o \in CoordinatorHandle(c, m)
    PROVE  /\ \A k \in o.sent : k.type # "Prepare"
           /\ c.phase = "AwaitingAcks" => o.sent = {}
<1>1. CASE IsVote(m) /\ c.phase = "Voting" /\ m.from \in Nodes
  <2>1. o \in RecordVote(c, m.from, VoteOf(m))
    BY <1>1 DEF CoordinatorHandle, IsVote
  <2>2. (\E d : o = TrySendDecision(d)) \/ o = Outcome(c, {})
    BY <2>1 DEF RecordVote
  <2>3. QED
    BY <1>1, <2>2, DecisionsPrepareNobody DEF Outcome
<1>2. CASE ~(IsVote(m) /\ c.phase = "Voting" /\ m.from \in Nodes)
  <2>1. o.sent = {}
    BY <1>2 DEF CoordinatorHandle, RecordAck, Outcome
  <2>2. QED
    BY <2>1
<1>3. QED
  BY <1>1, <1>2

LEMMA CoordinatorRepeatsNothing ==
    ASSUME NEW c \in CoordinatorState, NEW m, NEW o,
           o \in CoordinatorTick(c, FALSE) \/ o \in CoordinatorOnMessage(c, m, FALSE)
    PROVE  \A k \in o.sent : ~Repeats(c, k)
<1> SUFFICES ASSUME c.phase \in {"Voting", "AwaitingAcks"}
             PROVE  /\ \A k \in o.sent : k.type # "Prepare"
                    /\ c.phase = "AwaitingAcks" => o.sent = {}
  BY KindsDiffer DEF Repeats
<1>1. CASE o \in CoordinatorTick(c, FALSE)
  BY <1>1, TickRepeatsNothing
<1>2. CASE o \in CoordinatorOnMessage(c, m, FALSE)
  <2>1. PICK ticked \in CoordinatorTick(c, FALSE) :
          \E handled \in CoordinatorHandle(ticked.state, m) :
             o = Outcome(handled.state, ticked.sent \cup handled.sent)
    BY <1>2 DEF CoordinatorOnMessage
  <2>2. PICK handled \in CoordinatorHandle(ticked.state, m) :
          o = Outcome(handled.state, ticked.sent \cup handled.sent)
    BY <2>1
  <2>3. o.sent = ticked.sent \cup handled.sent
    BY <2>2 DEF Outcome
  <2>4. /\ ticked.state.phase \in {"Voting", "AwaitingAcks"}
        /\ \A k \in ticked.sent : k.type # "Prepare"
        /\ c.phase = "AwaitingAcks" => ticked.state = c /\ ticked.sent = {}
    BY TickRepeatsNothing
  <2>5. /\ \A k \in handled.sent : k.type # "Prepare"
        /\ ticked.state.phase = "AwaitingAcks" => handled.sent = {}
    BY <2>4, HandleRepeatsNothing
  <2>6. QED
    BY <2>3, <2>4, <2>5
<1>3. QED
  BY <1>1, <1>2

LEMMA ParticipantRepeatsNothing ==
    ASSUME NEW p \in ParticipantState, NEW n, NEW m,
           NEW o \in ParticipantOnMessage(p, n, m), NEW c
    PROVE  \A k \in o.sent : ~Repeats(c, k)
<1>1. \A k \in o.sent : (\E v : k = VoteMessage(n, v)) \/ k = AckMessage(n)
  <2>1. CASE m.type = "Prepare"
    <3>1. o \in OnPrepare(p, n)
      BY <2>1 DEF ParticipantOnMessage, IsDecision
    <3>2. p.phase \in {"Waiting", "Voted", "Decided"}
      BY DEF ParticipantState, ParticipantPhase
    <3>3. CASE p.phase = "Waiting"
      BY <3>1, <3>3 DEF OnPrepare, Outcome
    <3>4. CASE p.phase = "Voted"
      BY <3>1, <3>4 DEF OnPrepare, Outcome
    <3>5. CASE p.phase = "Decided"
      BY <3>1, <3>5 DEF OnPrepare, Outcome
    <3>6. QED
      BY <3>2, <3>3, <3>4, <3>5
  <2>2. CASE m.type # "Prepare"
    BY <2>2 DEF ParticipantOnMessage, OnDecision, Outcome
  <2>3. QED
    BY <2>1, <2>2
<1>2. QED
  BY <1>1, KindsDiffer DEF Repeats

\* All that a step adds to the queue is what its handler returned.
LEMMA SentIsAdded ==
    ASSUME IInv, NEW e \in queue.entries, NEW delivered, NEW sent \in SUBSET Message,
           Conclude(e, delivered, sent), NEW x \in queue'.entries \ queue.entries
    PROVE  \E k \in sent : x.event = DeliverEvent(k)
<1>1. e.timestamp \in Nat /\ queue.next \in Nat
  BY Typed DEF QueueOK, QueueOf
<1> DEFINE r == Remove(queue, e)
<1>2. r.entries \subseteq queue.entries /\ r.next \in Nat
  BY <1>1, Typed DEF Remove, QueueOK, QueueOf
<1> HIDE DEF r
<1>3. PICK delay \in [sent -> Delays] : queue' = EnqueueOutgoing(r, sent, e.timestamp, delay)
  BY DEF Conclude, r
<1>4. PICK k \in sent : x = Departure(r, k, sent, e.timestamp, delay)
  BY <1>2, <1>3 DEF EnqueueOutgoing
<1>5. x.event = DeliverEvent(k)
  BY <1>4 DEF Departure, Entry
<1>6. QED
  BY <1>5

LEMMA DeliveriesDiffer ==
    /\ \A k, m : DeliverEvent(k) = DeliverEvent(m) => k = m
    /\ \A k : DeliverEvent(k).kind = "Deliver"
BY DEF DeliverEvent

LEMMA StepRepeatsWhenDue ==
    ASSUME IInv, TypeOK, NEW e \in queue.entries, Process(e), ~Elapsed(e.timestamp),
           NEW x \in queue'.entries \ queue.entries, NEW m, x.event = DeliverEvent(m)
    PROVE  ~Repeats(coordinator, m)
<1>1. TPC!IInv /\ coordinator \in CoordinatorState /\ Elapsed(e.timestamp) = FALSE
  BY DEF IInv, TypeOK, Elapsed
<1>2. ASSUME NEW delivered, NEW sent \in SUBSET Message, Conclude(e, delivered, sent),
             \A k \in sent : ~Repeats(coordinator, k)
      PROVE  ~Repeats(coordinator, m)
  BY <1>2, SentIsAdded, DeliveriesDiffer
<1>3. ASSUME NEW k \in Message \cup {StartMessage}, NEW delivered,
             \/ CoordinatorReturns(e, delivered, CoordinatorTick(coordinator, FALSE))
             \/ CoordinatorReturns(e, delivered, CoordinatorOnMessage(coordinator, k, FALSE))
      PROVE  ~Repeats(coordinator, m)
  <2>1. PICK o : /\ \/ o \in CoordinatorTick(coordinator, FALSE)
                    \/ o \in CoordinatorOnMessage(coordinator, k, FALSE)
                 /\ Conclude(e, delivered, o.sent)
    BY <1>3 DEF CoordinatorReturns
  <2>2. o.sent \in SUBSET Message
    BY <1>1, <2>1, CoordinatorSends
  <2>3. \A j \in o.sent : ~Repeats(coordinator, j)
    BY <1>1, <2>1, CoordinatorRepeatsNothing
  <2>4. QED
    BY <1>2, <2>1, <2>2, <2>3
<1>4. CASE StartTransaction(e) \/ Tick(e) \/ \E k \in Message : DeliverToCoordinator(e, k)
  BY <1>1, <1>3, <1>4 DEF StartTransaction, Tick, DeliverToCoordinator
<1>5. ASSUME NEW k \in Message, DeliverToParticipant(e, k)
      PROVE  ~Repeats(coordinator, m)
  <2>1. PICK o \in ParticipantOnMessage(participants[k.to], k.to, k) : Conclude(e, {k}, o.sent)
    BY <1>5 DEF DeliverToParticipant, ParticipantReturns
  <2>2. o.sent \in SUBSET Message
    BY <1>1, <1>5, ParticipantSends DEF DeliverToParticipant
  <2>3. participants[k.to] \in ParticipantState
    BY <1>5 DEF TypeOK, DeliverToParticipant
  <2>4. QED
    BY <1>2, <2>1, <2>2, <2>3, ParticipantRepeatsNothing
<1>6. CASE \/ TickInVain(e)
           \/ \E a \in ActorId : Crash(e, a) \/ RecoverInVain(e, a)
           \/ RecoverCoordinator(e)
           \/ \E n \in Nodes : RecoverParticipant(e, n)
  <2> DEFINE none == {}
  <2>1. Conclude(e, {}, none) /\ none \in SUBSET Message
    BY <1>6 DEF TickInVain, Crash, RecoverInVain, RecoverCoordinator, RecoverParticipant
  <2> HIDE DEF none
  <2>2. QED
    BY <1>2, <2>1 DEF none
<1>7. CASE \E k \in Message : Drop(e, k)
  BY <1>7, Typed DEF Drop, Remove, QueueOK, QueueOf
<1>8. QED
  BY <1>4, <1>5, <1>6, <1>7 DEF Process

\* Nothing is repeated to a node earlier than a timeout after the last send,
\* wherever late events have set the clock.
THEOREM RetransmissionsAreDue ==
    ASSUME RetransmitTimeout > 0
    PROVE  Spec => RetransmitsOnlyWhenDue
<1> DEFINE Due ==
      \A e \in queue'.entries \ queue.entries, n \in Nodes :
         \/ coordinator.phase = "Voting" /\ e.event = DeliverEvent(PrepareMessage(n))
         \/ /\ coordinator.phase = "AwaitingAcks"
            /\ \E d \in {"Commit", "Abort"} : e.event = DeliverEvent(DecisionMessage(n, d))
         => lastSend + RetransmitTimeout <= clock'
<1>1. ASSUME IInv, TypeOK, [Next]_simulatorVars,
             NEW x \in queue'.entries \ queue.entries,
             NEW m, x.event = DeliverEvent(m), Repeats(coordinator, m)
      PROVE  lastSend + RetransmitTimeout <= clock'
  <2>1. CASE Step
    <3>1. PICK e \in queue.entries : clock' = e.timestamp /\ Process(e)
      BY <2>1 DEF Step
    <3>2. Elapsed(e.timestamp)
      BY <1>1, <3>1, StepRepeatsWhenDue
    <3>3. e.timestamp \in Nat /\ lastSend \in Nat
      BY <1>1 DEF TypeOK, QueueOf
    <3>4. QED
      BY <3>1, <3>2, <3>3, RetransmitTimeoutAssumption DEF Elapsed, SaturatingSub
  <2>2. CASE ~Step
    <3>1. \E event \in ExternalEvent : x.event = event
      BY <1>1, <2>2 DEF Next, InjectProbe, EnqueueExternal, Insert, Entry, simulatorVars,
         ExternalEvent
    <3>2. x.event.kind # "Deliver"
      BY <3>1 DEF ExternalEvent, StartEvent, TickAllEvent
    <3>3. QED
      BY <1>1, <3>2, DeliveriesDiffer
  <2>3. QED
    BY <2>1, <2>2
<1>2. (IInv /\ TypeOK) /\ [Next]_simulatorVars => [Due]_simulatorVars
  BY <1>1 DEF Repeats
<1>3. QED
  BY <1>2, InvariantHolds, TypeCorrect, PTL DEF Spec, RetransmitsOnlyWhenDue
=============================================================================
