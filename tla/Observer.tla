------------------------------ MODULE Observer ------------------------------
(***************************************************************************)
(* The checks of src/simulator/properties.rs against executions that may   *)
(* be wrong: they exist to find mistakes in the actors, so here any actor  *)
(* may send anything at any time, and `wire' and `arrived' remember what   *)
(* really happened.                                                        *)
(***************************************************************************)
EXTENDS Observations

VARIABLES
    observations,   \* Simulator.observations
    panicked,       \* an assertion or check has failed
    wire,           \* every message ever sent
    arrived         \* every message ever delivered

observerVars == <<observations, panicked, wire, arrived>>

Init ==
    /\ observations = NewObservations
    /\ panicked = FALSE
    /\ wire = {}
    /\ arrived = {}

Send(m) ==
    /\ ~panicked
    /\ observations' = RecordSent(observations, {m})
    /\ panicked' = StepPanics(observations, {}, {m})
    /\ wire' = wire \cup {m}
    /\ UNCHANGED arrived

\* Variant (see Coordinator): delivers a message nobody sent.
ArriveUnsent(m) ==
    /\ ~panicked
    /\ observations' = RecordDelivered(observations, {m})
    /\ panicked' = StepPanics(observations, {m}, {})
    /\ arrived' = arrived \cup {m}
    /\ UNCHANGED wire

\* Only what was sent arrives, any number of times.
Arrive(m) ==
    /\ ~panicked
    /\ m \in wire
    /\ observations' = RecordDelivered(observations, {m})
    /\ panicked' = StepPanics(observations, {m}, {})
    /\ arrived' = arrived \cup {m}
    /\ UNCHANGED wire

\* The test ends here.
Panic == panicked /\ UNCHANGED observerVars

Next == (\E m \in Message : Send(m) \/ Arrive(m)) \/ Panic

Spec == Init /\ [][Next]_observerVars

-----------------------------------------------------------------------------
(* The reference: consistency of the whole history, with no regard to the  *)
(* order in which it was seen                                              *)

OneVoteEach ==
    \A n \in Nodes : ~({VoteMessage(n, "Commit"), VoteMessage(n, "Abort")} \subseteq wire)

OneDecision ==
    \A m, n \in Nodes : ~({DecisionMessage(m, "Commit"), DecisionMessage(n, "Abort")} \subseteq wire)

\* AC1 on the wire.
ArrivalsAgree ==
    \A m, n \in Nodes : ~({DecisionMessage(m, "Commit"), DecisionMessage(n, "Abort")} \subseteq arrived)

\* AC2 on the wire, as far as votes were sent at all.
NoCommitAgainstAbort ==
    \A m, n \in Nodes : ~({DecisionMessage(m, "Commit"), VoteMessage(n, "Abort")} \subseteq wire)

\* Nothing slips through: an execution that has not panicked is consistent,
\* whichever of the two contradicting messages came first and however often
\* the others were repeated in between.
NoFalsePass ==
    ~panicked => OneVoteEach /\ OneDecision /\ ArrivalsAgree /\ NoCommitAgainstAbort

\* No false alarm: a panic means that a participant changed its vote, the
\* coordinator its decision, or that an Abort vote was ignored.  In particular
\* check_agreement and the abort arm of check_validity never fail on their own:
\* the assertion on what the coordinator sends has failed before.
NoFalseAlarm ==
    panicked => ~(OneVoteEach /\ OneDecision /\ NoCommitAgainstAbort)

TypeOK ==
    /\ observations \in ObservationsState
    /\ panicked \in BOOLEAN
    /\ wire \subseteq Message
    /\ arrived \subseteq wire
=============================================================================
