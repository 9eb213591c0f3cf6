---------------------------- MODULE Observations ----------------------------
(***************************************************************************)
(* The record of what was seen on the wire, and the checks made on it      *)
(* after every step (src/simulator/properties.rs).  A failed assertion and *)
(* a failed check both panic, so each is a predicate here.                 *)
(*                                                                         *)
(* Variants are marked as in Coordinator.tla.                              *)
(***************************************************************************)
EXTENDS Types

ObservationsState ==
    [votes                : [Nodes -> Vote \cup {None}],
     coordinatorDecision  : Decision \cup {None},
     participantDecisions : [Nodes -> Decision \cup {None}]]

NewObservations ==
    [votes                |-> [n \in Nodes |-> None],
     coordinatorDecision  |-> None,
     participantDecisions |-> [n \in Nodes |-> None]]

-----------------------------------------------------------------------------
(* Recording *)

\* Variant: the last observation replaces the first, and is not compared.
KeepLast(existing, heard) ==
    IF heard = {} THEN existing ELSE CHOOSE x \in heard : TRUE

\* The first observation of a vote or decision is kept.
Keep(existing, heard) ==
    IF existing # None \/ heard = {} THEN existing ELSE CHOOSE x \in heard : TRUE

\* The assertion of the record_* functions: a later observation is the same.
Conflicts(existing, heard) == \E x \in heard : x # Keep(existing, heard)

VotesFrom(n, messages) ==
    {VoteOf(m) : m \in {k \in messages : IsVote(k) /\ k.from = n}}

DecisionsFromCoordinator(messages) ==
    {DecisionOf(m) : m \in {k \in messages : IsDecision(k) /\ k.from = CoordinatorId}}

DecisionsTo(n, messages) ==
    {DecisionOf(m) : m \in {k \in messages : IsDecision(k) /\ k.to = n}}

\* record_sent, for all the messages that one handler returns.
RecordSent(o, sent) ==
    [o EXCEPT
        !.votes = [n \in Nodes |-> Keep(o.votes[n], VotesFrom(n, sent))],
        !.coordinatorDecision = Keep(@, DecisionsFromCoordinator(sent))]

RecordSentPanics(o, sent) ==
    \/ \E n \in Nodes : Conflicts(o.votes[n], VotesFrom(n, sent))
    \/ Conflicts(o.coordinatorDecision, DecisionsFromCoordinator(sent))

\* record_delivered, for the message of a step (or none).
RecordDelivered(o, delivered) ==
    [o EXCEPT !.participantDecisions =
        [n \in Nodes |-> Keep(o.participantDecisions[n], DecisionsTo(n, delivered))]]

RecordDeliveredPanics(o, delivered) ==
    \E n \in Nodes : Conflicts(o.participantDecisions[n], DecisionsTo(n, delivered))

-----------------------------------------------------------------------------
(* Checking *)

CheckAgreement(o) ==
    \/ \A n \in Nodes : o.participantDecisions[n] # "Commit"
    \/ \A n \in Nodes : o.participantDecisions[n] # "Abort"

\* Variant: a vote not seen yet counts against a commit.
CheckValidityStrictly(o) ==
    CASE o.coordinatorDecision = "Commit" -> \A n \in Nodes : o.votes[n] = "Commit"
      [] o.coordinatorDecision = "Abort"  ->
            \A n \in Nodes : o.participantDecisions[n] # "Commit"
      [] OTHER                            -> TRUE

\* Only the votes seen so far are held against a commit.
CheckValidity(o) ==
    CASE o.coordinatorDecision = "Commit" -> \A n \in Nodes : o.votes[n] # "Abort"
      [] o.coordinatorDecision = "Abort"  ->
            \A n \in Nodes : o.participantDecisions[n] # "Commit"
      [] OTHER                            -> TRUE

CheckAllInvariants(o) == CheckAgreement(o) /\ CheckValidity(o)

AllDecided(o) == \A n \in Nodes : o.participantDecisions[n] # None

\* A step that delivers and sends these messages panics.
StepPanics(o, delivered, sent) ==
    LET heard == RecordDelivered(o, delivered)
    IN  \/ RecordDeliveredPanics(o, delivered)
        \/ RecordSentPanics(heard, sent)
        \/ ~CheckAllInvariants(RecordSent(heard, sent))
=============================================================================
