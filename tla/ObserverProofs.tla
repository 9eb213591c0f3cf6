--------------------------- MODULE ObserverProofs ---------------------------
(***************************************************************************)
(* Theorems about Observer for any set of nodes: the checks the simulator  *)
(* makes are exact, whatever the actors do.                                *)
(***************************************************************************)
EXTENDS Observer, TLAPS

-----------------------------------------------------------------------------
(* One message *)

LEMMA MessageKinds ==
    ASSUME NEW m \in Message
    PROVE  /\ IsVote(m) => /\ ~IsDecision(m) /\ m.from \in Nodes
                           /\ VoteOf(m) \in Vote /\ m = VoteMessage(m.from, VoteOf(m))
           /\ IsDecision(m) => /\ m.from = CoordinatorId /\ m.to \in Nodes
                               /\ DecisionOf(m) \in Decision
                               /\ m = DecisionMessage(m.to, DecisionOf(m))
BY DEF Message, IsVote, IsDecision, VoteOf, DecisionOf, Vote, Decision, VoteMessage,
   VoteType, DecisionMessage, DecisionType

LEMMA MessagesDiffer ==
    ASSUME NEW n \in Nodes, NEW u \in Nodes
    PROVE  /\ \A v, w \in Vote : VoteMessage(n, v) = VoteMessage(u, w) <=> n = u /\ v = w
           /\ \A d, e \in Decision :
                DecisionMessage(n, d) = DecisionMessage(u, e) <=> n = u /\ d = e
           /\ \A v \in Vote, d \in Decision : VoteMessage(n, v) # DecisionMessage(u, d)
BY DEF VoteMessage, VoteType, DecisionMessage, DecisionType, Vote, Decision

LEMMA MessagesTyped ==
    ASSUME NEW n \in Nodes
    PROVE  /\ \A v \in Vote : VoteMessage(n, v) \in Message /\ IsVote(VoteMessage(n, v))
           /\ \A d \in Decision : /\ DecisionMessage(n, d) \in Message
                                  /\ IsDecision(DecisionMessage(n, d))
BY DEF VoteMessage, VoteType, DecisionMessage, DecisionType, Vote, Decision, Message,
   IsVote, IsDecision

LEMMA KeepOne ==
    ASSUME NEW old, NEW new
    PROVE  /\ Keep(old, {new}) = IF old = None THEN new ELSE old
           /\ Conflicts(old, {new}) <=> old # None /\ old # new
<1>1. (CHOOSE x \in {new} : TRUE) = new
  OBVIOUS
<1>2. Keep(old, {new}) = IF old = None THEN new ELSE old
  BY <1>1 DEF Keep
<1>3. QED
  BY <1>2 DEF Conflicts

LEMMA KeepNone ==
    ASSUME NEW old
    PROVE  Keep(old, {}) = old /\ ~Conflicts(old, {})
BY DEF Keep, Conflicts

\* What is kept of node n's vote when m is sent.
LEMMA VoteKept ==
    ASSUME NEW m \in Message, NEW n \in Nodes, NEW old
    PROVE  /\ Keep(old, VotesFrom(n, {m})) =
                IF IsVote(m) /\ m.from = n /\ old = None THEN VoteOf(m) ELSE old
           /\ Conflicts(old, VotesFrom(n, {m})) <=>
                IsVote(m) /\ m.from = n /\ old \notin {None, VoteOf(m)}
<1>1. CASE IsVote(m) /\ m.from = n
  <2>1. VotesFrom(n, {m}) = {VoteOf(m)}
    BY <1>1 DEF VotesFrom
  <2>2. /\ Keep(old, {VoteOf(m)}) = IF old = None THEN VoteOf(m) ELSE old
        /\ Conflicts(old, {VoteOf(m)}) <=> old # None /\ old # VoteOf(m)
    BY KeepOne
  <2>3. QED
    BY <1>1, <2>1, <2>2
<1>2. CASE ~(IsVote(m) /\ m.from = n)
  <2>1. VotesFrom(n, {m}) = {}
    BY <1>2 DEF VotesFrom
  <2>2. QED
    BY <1>2, <2>1, KeepNone
<1>3. QED
  BY <1>1, <1>2

LEMMA OtherKept ==
    ASSUME NEW m \in Message, ~IsVote(m), NEW n \in Nodes, NEW old
    PROVE  Keep(old, VotesFrom(n, {m})) = old /\ ~Conflicts(old, VotesFrom(n, {m}))
<1>1. VotesFrom(n, {m}) = {}
  BY DEF VotesFrom
<1>2. QED
  BY <1>1, KeepNone

\* Of the coordinator's decision when m is sent.
LEMMA DecisionKept ==
    ASSUME NEW m \in Message, NEW old
    PROVE  /\ Keep(old, DecisionsFromCoordinator({m})) =
                IF IsDecision(m) /\ old = None THEN DecisionOf(m) ELSE old
           /\ Conflicts(old, DecisionsFromCoordinator({m})) <=>
                IsDecision(m) /\ old \notin {None, DecisionOf(m)}
<1>1. CASE IsDecision(m)
  <2>1. DecisionsFromCoordinator({m}) = {DecisionOf(m)}
    BY <1>1, MessageKinds DEF DecisionsFromCoordinator
  <2>2. QED
    BY <1>1, <2>1, KeepOne
<1>2. CASE ~IsDecision(m)
  <2>1. DecisionsFromCoordinator({m}) = {}
    BY <1>2 DEF DecisionsFromCoordinator
  <2>2. QED
    BY <1>2, <2>1, KeepNone
<1>3. QED
  BY <1>1, <1>2

\* Of node n's decision when m arrives.
LEMMA ArrivalKept ==
    ASSUME NEW m \in Message, NEW n \in Nodes, NEW old
    PROVE  /\ Keep(old, DecisionsTo(n, {m})) =
                IF IsDecision(m) /\ m.to = n /\ old = None THEN DecisionOf(m) ELSE old
           /\ Conflicts(old, DecisionsTo(n, {m})) <=>
                IsDecision(m) /\ m.to = n /\ old \notin {None, DecisionOf(m)}
<1>1. CASE IsDecision(m) /\ m.to = n
  <2>1. DecisionsTo(n, {m}) = {DecisionOf(m)}
    BY <1>1 DEF DecisionsTo
  <2>2. /\ Keep(old, {DecisionOf(m)}) = IF old = None THEN DecisionOf(m) ELSE old
        /\ Conflicts(old, {DecisionOf(m)}) <=> old # None /\ old # DecisionOf(m)
    BY KeepOne
  <2>3. QED
    BY <1>1, <2>1, <2>2
<1>2. CASE ~(IsDecision(m) /\ m.to = n)
  <2>1. DecisionsTo(n, {m}) = {}
    BY <1>2 DEF DecisionsTo
  <2>2. QED
    BY <1>2, <2>1, KeepNone
<1>3. QED
  BY <1>1, <1>2

LEMMA NothingKept ==
    ASSUME NEW n, NEW old
    PROVE  /\ Keep(old, VotesFrom(n, {})) = old /\ ~Conflicts(old, VotesFrom(n, {}))
           /\ Keep(old, DecisionsTo(n, {})) = old /\ ~Conflicts(old, DecisionsTo(n, {}))
           /\ Keep(old, DecisionsFromCoordinator({})) = old
           /\ ~Conflicts(old, DecisionsFromCoordinator({}))
<1>1. VotesFrom(n, {}) = {} /\ DecisionsTo(n, {}) = {} /\ DecisionsFromCoordinator({}) = {}
  BY DEF VotesFrom, DecisionsTo, DecisionsFromCoordinator
<1>2. QED
  BY <1>1, KeepNone

-----------------------------------------------------------------------------
(* What a step records *)

\* The step leaves these observations, and panics if an observation was
\* contradicted or a check of the new ones fails.
Records(votes, decision, learned, contradicted) ==
    /\ observations' = [votes |-> votes, coordinatorDecision |-> decision,
                        participantDecisions |-> learned]
    /\ panicked' \in BOOLEAN
    /\ panicked' <=> contradicted \/ ~CheckAllInvariants(observations')

LEMMA SendRecords ==
    ASSUME observations \in ObservationsState, NEW m \in Message, Send(m)
    PROVE  LET o == observations
           IN  Records([n \in Nodes |-> Keep(o.votes[n], VotesFrom(n, {m}))],
                       Keep(o.coordinatorDecision, DecisionsFromCoordinator({m})),
                       o.participantDecisions,
                       RecordSentPanics(o, {m}))
<1>1. RecordDelivered(observations, {}) = observations
  <2>1. [n \in Nodes |-> Keep(observations.participantDecisions[n], DecisionsTo(n, {}))]
          = observations.participantDecisions
    BY NothingKept DEF ObservationsState
  <2>2. QED
    BY <2>1 DEF RecordDelivered, ObservationsState
<1>2. ~RecordDeliveredPanics(observations, {})
  BY NothingKept DEF RecordDeliveredPanics
<1>3. panicked' <=> RecordSentPanics(observations, {m}) \/ ~CheckAllInvariants(observations')
  BY <1>1, <1>2 DEF Send, StepPanics
<1>4. panicked' \in BOOLEAN
  BY DEF Send, StepPanics
<1>5. observations' = RecordSent(observations, {m})
  BY DEF Send
<1>6. QED
  BY <1>3, <1>4, <1>5 DEF RecordSent, ObservationsState, Records

LEMMA ArriveRecords ==
    ASSUME observations \in ObservationsState, NEW m \in Message, Arrive(m)
    PROVE  LET o == observations
           IN  Records(o.votes, o.coordinatorDecision,
                       [n \in Nodes |-> Keep(o.participantDecisions[n], DecisionsTo(n, {m}))],
                       RecordDeliveredPanics(o, {m}))
<1> DEFINE heard == RecordDelivered(observations, {m})
<1>1. /\ heard.votes = observations.votes
      /\ heard.coordinatorDecision = observations.coordinatorDecision
      /\ heard.participantDecisions =
           [n \in Nodes |-> Keep(observations.participantDecisions[n], DecisionsTo(n, {m}))]
  BY DEF RecordDelivered, ObservationsState
<1>2. RecordSent(heard, {}) = heard
  <2>1. /\ [n \in Nodes |-> Keep(heard.votes[n], VotesFrom(n, {}))] = heard.votes
        /\ Keep(heard.coordinatorDecision, DecisionsFromCoordinator({})) =
             heard.coordinatorDecision
    <3>1. \A n \in Nodes : Keep(heard.votes[n], VotesFrom(n, {})) = heard.votes[n]
      BY NothingKept
    <3>2. heard.votes = [n \in Nodes |-> heard.votes[n]]
      BY <1>1 DEF ObservationsState
    <3> HIDE DEF heard
    <3>3. [n \in Nodes |-> Keep(heard.votes[n], VotesFrom(n, {}))] = heard.votes
      BY <3>1, <3>2
    <3>4. QED
      BY <3>3, NothingKept
  <2>2. heard = [observations EXCEPT !.participantDecisions = heard.participantDecisions]
    BY <1>1 DEF RecordDelivered
  <2> HIDE DEF heard
  <2>3. QED
    BY <2>1, <2>2 DEF RecordSent, ObservationsState
<1>3. ~RecordSentPanics(heard, {})
  BY NothingKept DEF RecordSentPanics
<1> HIDE DEF heard
<1>4. observations' = heard
  BY DEF Arrive, heard
<1>5. panicked' <=> RecordDeliveredPanics(observations, {m}) \/ ~CheckAllInvariants(heard)
  BY <1>2, <1>3 DEF Arrive, StepPanics, heard
<1>6. panicked' \in BOOLEAN
  BY DEF Arrive, StepPanics
<1>7. heard = [votes |-> heard.votes, coordinatorDecision |-> heard.coordinatorDecision,
               participantDecisions |-> heard.participantDecisions]
  BY DEF RecordDelivered, ObservationsState, heard
<1>8. QED
  BY <1>1, <1>4, <1>5, <1>6, <1>7 DEF Records

-----------------------------------------------------------------------------
(* The inductive invariant *)

\* Before a panic the observations are the history, nothing less.
Faithful ==
    /\ \A n \in Nodes, v \in Vote : VoteMessage(n, v) \in wire <=> observations.votes[n] = v
    /\ \A n \in Nodes, d \in Decision :
          DecisionMessage(n, d) \in wire => observations.coordinatorDecision = d
    /\ \A d \in Decision : observations.coordinatorDecision = d
          => \E n \in Nodes : DecisionMessage(n, d) \in wire
    /\ \A n \in Nodes, d \in Decision :
          DecisionMessage(n, d) \in arrived <=> observations.participantDecisions[n] = d
    /\ CheckAllInvariants(observations)

IInv ==
    /\ TypeOK
    /\ ~panicked => Faithful
    /\ NoFalseAlarm

LEMMA FaithfulPasses ==
    ASSUME TypeOK, Faithful
    PROVE  OneVoteEach /\ OneDecision /\ ArrivalsAgree /\ NoCommitAgainstAbort
BY DEF TypeOK, Faithful, OneVoteEach, OneDecision, ArrivalsAgree, NoCommitAgainstAbort,
   CheckAllInvariants, CheckAgreement, CheckValidity, Vote, Decision

LEMMA InitHolds == Init => IInv
<1> SUFFICES ASSUME Init PROVE IInv
  OBVIOUS
<1>1. observations = NewObservations /\ NewObservations \in ObservationsState
  BY DEF Init, NewObservations, ObservationsState
<1>2. CheckAllInvariants(observations)
  BY <1>1 DEF NewObservations, CheckAllInvariants, CheckAgreement, CheckValidity, None
<1>3. TypeOK
  BY <1>1 DEF Init, TypeOK
<1>4. Faithful
  BY <1>1, <1>2 DEF Init, Faithful, NewObservations, None, Vote, Decision
<1>5. QED
  BY <1>3, <1>4 DEF Init, IInv, NoFalseAlarm

LEMMA SendVote ==
    ASSUME IInv, ~panicked, NEW m \in Message, Send(m), IsVote(m)
    PROVE  IInv'
<1> DEFINE n == m.from
           v == VoteOf(m)
           o == observations
<1>1. n \in Nodes /\ v \in Vote /\ m = VoteMessage(n, v) /\ ~IsDecision(m)
  BY MessageKinds
<1>2. Faithful /\ TypeOK /\ o \in ObservationsState
  BY DEF IInv, TypeOK
<1>3. /\ wire' = wire \cup {VoteMessage(n, v)} /\ arrived' = arrived
  BY <1>1 DEF Send
<1>4. Records([u \in Nodes |-> IF u = n /\ o.votes[n] = None THEN v ELSE o.votes[u]],
              o.coordinatorDecision, o.participantDecisions, o.votes[n] \notin {None, v})
  <2>1. \A u \in Nodes :
          /\ Keep(o.votes[u], VotesFrom(u, {m})) =
               IF u = n /\ o.votes[n] = None THEN v ELSE o.votes[u]
          /\ Conflicts(o.votes[u], VotesFrom(u, {m})) <=> u = n /\ o.votes[n] \notin {None, v}
    <3> SUFFICES ASSUME NEW u \in Nodes
                 PROVE  /\ Keep(o.votes[u], VotesFrom(u, {m})) =
                             IF u = n /\ o.votes[n] = None THEN v ELSE o.votes[u]
                        /\ Conflicts(o.votes[u], VotesFrom(u, {m}))
                             <=> u = n /\ o.votes[n] \notin {None, v}
      OBVIOUS
    <3> DEFINE old == o.votes[u]
    <3> HIDE DEF old
    <3>1. /\ Keep(old, VotesFrom(u, {m})) = IF m.from = u /\ old = None THEN VoteOf(m) ELSE old
          /\ Conflicts(old, VotesFrom(u, {m})) <=> m.from = u /\ old \notin {None, VoteOf(m)}
      BY VoteKept
    <3>2. QED
      BY <3>1 DEF old
  <2>2. /\ Keep(o.coordinatorDecision, DecisionsFromCoordinator({m})) = o.coordinatorDecision
        /\ ~Conflicts(o.coordinatorDecision, DecisionsFromCoordinator({m}))
    BY <1>1, DecisionKept
  <2>3. RecordSentPanics(o, {m}) <=> o.votes[n] \notin {None, v}
    BY <1>1, <2>1, <2>2 DEF RecordSentPanics
  <2>4. [u \in Nodes |-> Keep(o.votes[u], VotesFrom(u, {m}))] =
          [u \in Nodes |-> IF u = n /\ o.votes[n] = None THEN v ELSE o.votes[u]]
    BY <2>1
  <2> HIDE DEF n, v
  <2>5. QED
    BY <1>2, <2>2, <2>3, <2>4, SendRecords DEF Records
<1>5. TypeOK'
  <2>1. [u \in Nodes |-> IF u = n /\ o.votes[n] = None THEN v ELSE o.votes[u]]
          \in [Nodes -> Vote \cup {None}]
    BY <1>1, <1>2 DEF ObservationsState
  <2>2. observations' \in ObservationsState
    BY <1>2, <1>4, <2>1 DEF Records, ObservationsState
  <2>3. QED
    BY <1>2, <1>4, <2>2 DEF Send, TypeOK, Records
<1> HIDE DEF n, v
<1>6. CASE o.votes[n] \notin {None, v}
  <2>1. VoteMessage(n, o.votes[n]) \in wire /\ o.votes[n] \in Vote
    BY <1>1, <1>2, <1>6 DEF Faithful, ObservationsState
  <2>2. ~OneVoteEach'
    BY <1>1, <1>3, <1>6, <2>1 DEF OneVoteEach, Vote
  <2>3. panicked'
    BY <1>4, <1>6 DEF Records
  <2>4. QED
    BY <1>5, <2>2, <2>3 DEF IInv, NoFalseAlarm
<1>7. CASE o.votes[n] \in {None, v}
  <2>1. /\ \A u \in Nodes : observations'.votes[u] = IF u = n THEN v ELSE o.votes[u]
        /\ observations'.coordinatorDecision = o.coordinatorDecision
        /\ observations'.participantDecisions = o.participantDecisions
        /\ panicked' <=> ~CheckAllInvariants(observations')
    BY <1>4, <1>7 DEF Records
  <2>2. CASE CheckAllInvariants(observations')
    <3>1. \A u \in Nodes, w \in Vote :
            VoteMessage(u, w) \in wire' <=> observations'.votes[u] = w
      BY <1>1, <1>2, <1>3, <1>7, <2>1, MessagesDiffer DEF Faithful, Vote, None
    <3>2. \A u \in Nodes, d \in Decision :
            DecisionMessage(u, d) \in wire' <=> DecisionMessage(u, d) \in wire
      BY <1>1, <1>3, MessagesDiffer
    <3>3. Faithful'
      BY <1>2, <1>3, <2>1, <2>2, <3>1, <3>2 DEF Faithful
    <3>4. QED
      BY <1>5, <2>1, <2>2, <3>3 DEF IInv, NoFalseAlarm
  <2>3. CASE ~CheckAllInvariants(observations')
    <3>1. o.coordinatorDecision = "Commit" /\ v = "Abort"
      BY <1>1, <1>2, <2>1, <2>3
         DEF Faithful, CheckAllInvariants, CheckAgreement, CheckValidity, Vote
    <3>2. PICK u \in Nodes : DecisionMessage(u, "Commit") \in wire
      BY <1>2, <3>1 DEF Faithful, Decision
    <3>3. ~NoCommitAgainstAbort'
      BY <1>1, <1>3, <3>1, <3>2 DEF NoCommitAgainstAbort
    <3>4. QED
      BY <1>5, <2>1, <2>3, <3>3 DEF IInv, NoFalseAlarm
  <2>4. QED
    BY <2>2, <2>3
<1>8. QED
  BY <1>6, <1>7

LEMMA SendDecision ==
    ASSUME IInv, ~panicked, NEW m \in Message, Send(m), IsDecision(m)
    PROVE  IInv'
<1> DEFINE n == m.to
           d == DecisionOf(m)
           o == observations
<1>1. n \in Nodes /\ d \in Decision /\ m = DecisionMessage(n, d) /\ ~IsVote(m)
  BY MessageKinds
<1>2. Faithful /\ TypeOK /\ o \in ObservationsState
  BY DEF IInv, TypeOK
<1>3. /\ wire' = wire \cup {DecisionMessage(n, d)} /\ arrived' = arrived
  BY <1>1 DEF Send
<1>4. Records(o.votes, IF o.coordinatorDecision = None THEN d ELSE o.coordinatorDecision,
              o.participantDecisions, o.coordinatorDecision \notin {None, d})
  <2>1. \A u \in Nodes : /\ Keep(o.votes[u], VotesFrom(u, {m})) = o.votes[u]
                         /\ ~Conflicts(o.votes[u], VotesFrom(u, {m}))
    BY <1>1, OtherKept
  <2>2. /\ Keep(o.coordinatorDecision, DecisionsFromCoordinator({m})) =
             IF o.coordinatorDecision = None THEN d ELSE o.coordinatorDecision
        /\ Conflicts(o.coordinatorDecision, DecisionsFromCoordinator({m}))
             <=> o.coordinatorDecision \notin {None, d}
    BY <1>1, DecisionKept
  <2>3. RecordSentPanics(o, {m}) <=> o.coordinatorDecision \notin {None, d}
    BY <2>1, <2>2 DEF RecordSentPanics
  <2>4. [u \in Nodes |-> Keep(o.votes[u], VotesFrom(u, {m}))] = o.votes
    BY <1>2, <2>1 DEF ObservationsState
  <2> HIDE DEF n, d
  <2>5. QED
    BY <1>2, <2>2, <2>3, <2>4, SendRecords DEF Records
<1>5. TypeOK'
  <2>1. observations' \in ObservationsState
    BY <1>1, <1>2, <1>4 DEF Records, ObservationsState
  <2>2. QED
    BY <1>2, <1>4, <2>1 DEF Send, TypeOK, Records
<1> HIDE DEF n, d
<1>6. CASE o.coordinatorDecision \notin {None, d}
  <2>1. o.coordinatorDecision \in Decision
    BY <1>2, <1>6 DEF ObservationsState
  <2>2. PICK u \in Nodes : DecisionMessage(u, o.coordinatorDecision) \in wire
    BY <1>2, <2>1 DEF Faithful
  <2>3. ~OneDecision'
    BY <1>1, <1>3, <1>6, <2>1, <2>2 DEF OneDecision, Decision
  <2>4. panicked'
    BY <1>4, <1>6 DEF Records
  <2>5. QED
    BY <1>5, <2>3, <2>4 DEF IInv, NoFalseAlarm
<1>7. CASE o.coordinatorDecision \in {None, d}
  <2>1. /\ observations'.votes = o.votes
        /\ observations'.coordinatorDecision = d
        /\ observations'.participantDecisions = o.participantDecisions
        /\ panicked' <=> ~CheckAllInvariants(observations')
    BY <1>4, <1>7 DEF Records
  <2>2. \A u \in Nodes, e \in Decision : DecisionMessage(u, e) \in wire => e = d
    BY <1>2, <1>7 DEF Faithful, None, Decision
  <2>3. \A u \in Nodes : o.participantDecisions[u] \in {None, d}
    <3>1. \A u \in Nodes, e \in Decision : o.participantDecisions[u] = e => e = d
      BY <1>2, <2>2 DEF Faithful, TypeOK
    <3>2. QED
      BY <1>2, <3>1 DEF ObservationsState
  <2>4. CASE CheckAllInvariants(observations')
    <3>1. \A u \in Nodes, w \in Vote : VoteMessage(u, w) \in wire' <=> VoteMessage(u, w) \in wire
      BY <1>1, <1>3, MessagesDiffer
    <3>2. \A u \in Nodes, e \in Decision : DecisionMessage(u, e) \in wire' => e = d
      BY <1>1, <1>3, <2>2, MessagesDiffer
    <3>3. Faithful'
      BY <1>1, <1>2, <1>3, <2>1, <2>4, <3>1, <3>2 DEF Faithful
    <3>4. QED
      BY <1>5, <2>1, <2>4, <3>3 DEF IInv, NoFalseAlarm
  <2>5. CASE ~CheckAllInvariants(observations')
    <3>1. PICK u \in Nodes : d = "Commit" /\ o.votes[u] = "Abort"
      BY <1>1, <1>2, <2>1, <2>3, <2>5
         DEF CheckAllInvariants, CheckAgreement, CheckValidity, Decision, None,
             ObservationsState
    <3>2. VoteMessage(u, "Abort") \in wire
      BY <1>2, <3>1 DEF Faithful, Vote
    <3>3. ~NoCommitAgainstAbort'
      BY <1>1, <1>3, <3>1, <3>2 DEF NoCommitAgainstAbort
    <3>4. QED
      BY <1>5, <2>1, <2>5, <3>3 DEF IInv, NoFalseAlarm
  <2>6. QED
    BY <2>4, <2>5
<1>8. QED
  BY <1>6, <1>7

\* Prepares and Acks are not observed.
LEMMA SendOther ==
    ASSUME IInv, ~panicked, NEW m \in Message, Send(m), ~IsVote(m), ~IsDecision(m)
    PROVE  IInv'
<1> DEFINE o == observations
<1>1. Faithful /\ TypeOK /\ o \in ObservationsState
  BY DEF IInv, TypeOK
<1>2. Records(o.votes, o.coordinatorDecision, o.participantDecisions, FALSE)
  <2>1. \A u \in Nodes : /\ Keep(o.votes[u], VotesFrom(u, {m})) = o.votes[u]
                         /\ ~Conflicts(o.votes[u], VotesFrom(u, {m}))
    BY OtherKept
  <2>2. /\ Keep(o.coordinatorDecision, DecisionsFromCoordinator({m})) = o.coordinatorDecision
        /\ ~Conflicts(o.coordinatorDecision, DecisionsFromCoordinator({m}))
    BY DecisionKept
  <2>3. ~RecordSentPanics(o, {m})
    BY <2>1, <2>2 DEF RecordSentPanics
  <2>4. [u \in Nodes |-> Keep(o.votes[u], VotesFrom(u, {m}))] = o.votes
    BY <1>1, <2>1 DEF ObservationsState
  <2>5. QED
    BY <1>1, <2>2, <2>3, <2>4, SendRecords DEF Records
<1>3. observations' = o
  BY <1>1, <1>2 DEF Records, ObservationsState
<1>4. wire' = wire \cup {m} /\ arrived' = arrived
  BY DEF Send
<1>5. ~panicked' /\ TypeOK'
  BY <1>1, <1>2, <1>3, <1>4 DEF Records, Faithful, TypeOK
<1>6. Faithful'
  <2>1. \A u \in Nodes : /\ \A w \in Vote : m # VoteMessage(u, w)
                         /\ \A e \in Decision : m # DecisionMessage(u, e)
    BY MessagesTyped
  <2>2. QED
    BY <1>1, <1>3, <1>4, <2>1 DEF Faithful
<1>7. QED
  BY <1>5, <1>6 DEF IInv, NoFalseAlarm

\* What arrives has been sent, and was compared then: this never fails.
LEMMA ArriveHolds ==
    ASSUME IInv, ~panicked, NEW m \in Message, Arrive(m)
    PROVE  IInv'
<1> DEFINE o == observations
           learned == [n \in Nodes |-> Keep(o.participantDecisions[n], DecisionsTo(n, {m}))]
<1>1. Faithful /\ TypeOK /\ o \in ObservationsState
  BY DEF IInv, TypeOK
<1>2. m \in wire /\ wire' = wire /\ arrived' = arrived \cup {m}
  BY DEF Arrive
<1>3. Records(o.votes, o.coordinatorDecision, learned, RecordDeliveredPanics(o, {m}))
  BY <1>1, ArriveRecords
<1>4. ASSUME NEW n \in Nodes
      PROVE  /\ \A d \in Decision : o.participantDecisions[n] = d => o.coordinatorDecision = d
             /\ IsDecision(m) => o.coordinatorDecision = DecisionOf(m)
  BY <1>1, <1>2, MessageKinds DEF Faithful, TypeOK
<1>5. ASSUME NEW n \in Nodes
      PROVE  /\ learned[n] = IF IsDecision(m) /\ m.to = n THEN DecisionOf(m)
                                                          ELSE o.participantDecisions[n]
             /\ ~Conflicts(o.participantDecisions[n], DecisionsTo(n, {m}))
  <2>1. o.participantDecisions[n] \in Decision \cup {None}
    BY <1>1 DEF ObservationsState
  <2> DEFINE old == o.participantDecisions[n]
  <2> HIDE DEF old
  <2>2. /\ Keep(old, DecisionsTo(n, {m})) =
             IF IsDecision(m) /\ m.to = n /\ old = None THEN DecisionOf(m) ELSE old
        /\ Conflicts(old, DecisionsTo(n, {m})) <=>
             IsDecision(m) /\ m.to = n /\ old \notin {None, DecisionOf(m)}
    BY ArrivalKept
  <2>3. IsDecision(m) /\ old # None => old = DecisionOf(m)
    BY <1>4, <2>1 DEF old
  <2>4. learned[n] = Keep(old, DecisionsTo(n, {m}))
    BY DEF old
  <2>5. QED
    BY <2>2, <2>3, <2>4 DEF old
<1>6. ~RecordDeliveredPanics(o, {m})
  BY <1>5 DEF RecordDeliveredPanics
<1>7. learned \in [Nodes -> Decision \cup {None}]
  BY <1>1, <1>5, MessageKinds DEF ObservationsState
<1> HIDE DEF learned
<1>8. /\ observations'.votes = o.votes
      /\ observations'.coordinatorDecision = o.coordinatorDecision
      /\ observations'.participantDecisions = learned
      /\ panicked' <=> ~CheckAllInvariants(observations')
  BY <1>3, <1>6 DEF Records
<1>9. TypeOK'
  <2>1. observations' \in ObservationsState
    BY <1>1, <1>3, <1>7 DEF Records, ObservationsState
  <2>2. QED
    BY <1>1, <1>2, <1>3, <2>1 DEF TypeOK, Records
<1>10. CheckAllInvariants(observations')
  <2>1. \A n \in Nodes, d \in Decision : learned[n] = d => o.coordinatorDecision = d
    BY <1>4, <1>5
  <2>2. CheckValidity(o)
    BY <1>1 DEF Faithful, CheckAllInvariants
  <2>3. QED
    BY <1>8, <2>1, <2>2 DEF CheckAllInvariants, CheckAgreement, CheckValidity, Decision
<1>11. Faithful'
  <2>1. \A n \in Nodes, d \in Decision :
          DecisionMessage(n, d) \in arrived' <=> observations'.participantDecisions[n] = d
    <3>1. ASSUME NEW n \in Nodes, NEW d \in Decision
          PROVE  DecisionMessage(n, d) = m <=> IsDecision(m) /\ m.to = n /\ DecisionOf(m) = d
      BY MessageKinds, MessagesDiffer, MessagesTyped
    <3>2. ASSUME NEW n \in Nodes, NEW d \in Decision, DecisionMessage(n, d) \in arrived,
                 IsDecision(m), m.to = n
          PROVE  DecisionOf(m) = d
      BY <1>1, <1>4, <3>2 DEF Faithful
    <3>3. QED
      BY <1>1, <1>2, <1>5, <1>8, <3>1, <3>2 DEF Faithful
  <2>2. QED
    BY <1>1, <1>2, <1>8, <1>10, <2>1 DEF Faithful
<1>12. QED
  BY <1>8, <1>9, <1>10, <1>11 DEF IInv, NoFalseAlarm

LEMMA NextHolds == IInv /\ [Next]_observerVars => IInv'
<1>1. ASSUME IInv, NEW m \in Message, Send(m) PROVE IInv'
  BY <1>1, SendVote, SendDecision, SendOther DEF Send
<1>2. ASSUME IInv, NEW m \in Message, Arrive(m) PROVE IInv'
  BY <1>2, ArriveHolds DEF Arrive
<1>3. ASSUME IInv, UNCHANGED observerVars PROVE IInv'
  BY <1>3 DEF observerVars, IInv, TypeOK, Faithful, NoFalseAlarm, OneVoteEach, OneDecision,
     NoCommitAgainstAbort
<1>4. QED
  BY <1>1, <1>2, <1>3 DEF Next, Panic

-----------------------------------------------------------------------------
(* Theorems *)

LEMMA InvariantHolds == Spec => []IInv
BY InitHolds, NextHolds, PTL DEF Spec

\* Type correctness of the observer.
THEOREM TypeCorrect == Spec => []TypeOK
<1>1. IInv => TypeOK
  BY DEF IInv
<1>2. QED
  BY <1>1, InvariantHolds, PTL

\* The checks are complete: no inconsistent history passes.
THEOREM ChecksAreComplete == Spec => []NoFalsePass
<1>1. IInv => NoFalsePass
  BY FaithfulPasses DEF IInv, NoFalsePass
<1>2. QED
  BY <1>1, InvariantHolds, PTL

\* The checks are sound: no consistent history fails.
THEOREM ChecksAreSound == Spec => []NoFalseAlarm
<1>1. IInv => NoFalseAlarm
  BY DEF IInv
<1>2. QED
  BY <1>1, InvariantHolds, PTL
=============================================================================
