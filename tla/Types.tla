------------------------------- MODULE Types -------------------------------
(***************************************************************************)
(* The types shared by every actor (src/types.rs) and the trait's result   *)
(* shape (src/state_machine.rs).  Identifiers and message kinds carry no   *)
(* data beyond what the protocol compares, so nodes are model values and   *)
(* everything else is a string naming the Rust variant.                    *)
(***************************************************************************)

CONSTANTS
    Nodes,          \* the participants' NodeIds
    CoordinatorId   \* ActorId::Coordinator, which is not a NodeId

ASSUME CoordinatorIsNoNode == CoordinatorId \notin Nodes

None == "None"                       \* Option::None
Vote == {"Commit", "Abort"}
Decision == {"Commit", "Abort"}
ActorId == Nodes \cup {CoordinatorId}

-----------------------------------------------------------------------------
(* Messages *)

VoteType(v) == IF v = "Commit" THEN "VoteCommit" ELSE "VoteAbort"
DecisionType(d) == IF d = "Commit" THEN "DecisionCommit" ELSE "DecisionAbort"

StartMessage ==
    [type |-> "StartTransaction", from |-> CoordinatorId, to |-> CoordinatorId]
PrepareMessage(n) ==
    [type |-> "Prepare", from |-> CoordinatorId, to |-> n]
VoteMessage(n, v) ==
    [type |-> VoteType(v), from |-> n, to |-> CoordinatorId]
DecisionMessage(n, d) ==
    [type |-> DecisionType(d), from |-> CoordinatorId, to |-> n]
AckMessage(n) ==
    [type |-> "Ack", from |-> n, to |-> CoordinatorId]

\* Everything that is ever in transit.  StartTransaction is not: the simulator
\* hands it to the coordinator directly.
Message ==
    [type : {"Prepare", "DecisionCommit", "DecisionAbort"},
     from : {CoordinatorId}, to : Nodes]
    \cup
    [type : {"VoteCommit", "VoteAbort", "Ack"},
     from : Nodes, to : {CoordinatorId}]

IsVote(m) == m.type \in {"VoteCommit", "VoteAbort"}
IsDecision(m) == m.type \in {"DecisionCommit", "DecisionAbort"}
VoteOf(m) == IF m.type = "VoteCommit" THEN "Commit" ELSE "Abort"
DecisionOf(m) == IF m.type = "DecisionCommit" THEN "Commit" ELSE "Abort"

-----------------------------------------------------------------------------
(* Handlers *)

\* What a StateMachine handler leaves behind: the actor's new state and the
\* messages it returned.  No handler returns the same message twice in one
\* call, so the returned vector is a set.
Outcome(state, sent) == [state |-> state, sent |-> sent]

\* Messages returned only under a condition.
When(condition, messages) == IF condition THEN messages ELSE {}

\* rng.random_bool(p): a bias is known only as p = 0, 0 < p < 1 or p = 1.
Bias == {"never", "sometimes", "always"}
RandomBool(bias) ==
    CASE bias = "never"     -> {FALSE}
      [] bias = "sometimes" -> {FALSE, TRUE}
      [] bias = "always"    -> {TRUE}
=============================================================================
