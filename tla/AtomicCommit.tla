---------------------------- MODULE AtomicCommit ----------------------------
(***************************************************************************)
(* What the protocol promises, with no messages, timers or crashes: every  *)
(* node votes at most once, one outcome is chosen for the transaction, and *)
(* every node learns that outcome and no other.  TwoPhaseCommit implements *)
(* it through what its actors have made durable.                           *)
(***************************************************************************)
EXTENDS Types

CONSTANT AbortBias   \* whether an abort needs the excuse of an Abort vote

VARIABLES
    votes,      \* votes[n]: the vote node n is bound to
    outcome,    \* the decision about the transaction
    decisions   \* decisions[n]: the outcome as node n has learned it

abstractVars == <<votes, outcome, decisions>>

Undecided == [n \in Nodes |-> None]

Init ==
    /\ votes = Undecided
    /\ outcome = None
    /\ decisions = Undecided

\* A node votes once, and no longer once it knows the outcome.
CastVote(n, v) ==
    /\ votes[n] = None
    /\ decisions[n] = None
    /\ votes' = [votes EXCEPT ![n] = v]
    /\ UNCHANGED <<outcome, decisions>>

\* Commit takes every vote; a coordinator that always aborts never commits.
DecideCommit ==
    /\ outcome = None
    /\ AbortBias # "always"
    /\ \A n \in Nodes : votes[n] = "Commit"
    /\ outcome' = "Commit"
    /\ UNCHANGED <<votes, decisions>>

\* Abort takes one Abort vote, or a coordinator that is free to abort.
DecideAbort ==
    /\ outcome = None
    /\ AbortBias # "never" \/ \E n \in Nodes : votes[n] = "Abort"
    /\ outcome' = "Abort"
    /\ UNCHANGED <<votes, decisions>>

Learn(n) ==
    /\ outcome # None
    /\ decisions[n] = None
    /\ decisions' = [decisions EXCEPT ![n] = outcome]
    /\ UNCHANGED <<votes, outcome>>

Next ==
    \/ \E n \in Nodes, v \in Vote : CastVote(n, v)
    \/ DecideCommit
    \/ DecideAbort
    \/ \E n \in Nodes : Learn(n)

Spec == Init /\ [][Next]_abstractVars
=============================================================================
