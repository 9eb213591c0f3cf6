---------------------------- MODULE Coordinator ----------------------------
(***************************************************************************)
(* The coordinator state machine (src/coordinator/mod.rs).  A handler is   *)
(* an operator from the coordinator's state to the set of its possible     *)
(* outcomes: the coin flips of abort_bias are the only choices it makes.   *)
(*                                                                         *)
(* Time enters as `elapsed', the value of the test                         *)
(*     at_time.saturating_sub(last) >= retransmit_timeout                  *)
(* at the call; who owns a clock supplies it.                              *)
(*                                                                         *)
(* A definition marked `Variant' is not the code: it is what the one after *)
(* it would be with a plausible mistake, and the project's mutants check   *)
(* that the mistake breaks a property.                                     *)
(***************************************************************************)
EXTENDS Types

CONSTANT AbortBias   \* config.abort_bias

ASSUME AbortBiasAssumption == AbortBias \in Bias

CoordinatorPhase == {"Waiting", "Voting", "Decided", "AwaitingAcks", "Done"}

\* The payload of the phase (votes, decision, acks) next to the phase itself;
\* a field no variant carries in the current phase has its empty value.
\* `durable' is DurableState.decision, the only thing a crash spares.
CoordinatorState ==
    [phase    : CoordinatorPhase,
     votes    : [Nodes -> Vote \cup {None}],
     decision : Decision \cup {None},
     acks     : SUBSET Nodes,
     durable  : Decision \cup {None}]

NoVotes == [n \in Nodes |-> None]

NewCoordinator ==
    [phase |-> "Waiting", votes |-> NoVotes, decision |-> None,
     acks |-> {}, durable |-> None]

-----------------------------------------------------------------------------
(* Deciding *)

Decide(c, d) ==
    [c EXCEPT !.phase = "Decided", !.votes = NoVotes, !.decision = d]

\* Variant: decides without waiting for all votes.
TryDecideEager(c) ==
    IF \E n \in Nodes : c.votes[n] = "Abort"
    THEN {Decide(c, "Abort")}
    ELSE {Decide(c, "Commit")}

\* One Abort vote decides; otherwise all votes must be in, and the coin may
\* still turn a unanimous Commit into an Abort.
TryDecide(c) ==
    IF \E n \in Nodes : c.votes[n] = "Abort"
    THEN {Decide(c, "Abort")}
    ELSE IF \A n \in Nodes : c.votes[n] # None
    THEN {Decide(c, IF abort THEN "Abort" ELSE "Commit") :
             abort \in RandomBool(AbortBias)}
    ELSE {c}

\* Variant: broadcasts without persisting.
SendDecisionUnpersisted(c) ==
    IF c.phase = "Decided"
    THEN Outcome([c EXCEPT !.phase = "AwaitingAcks", !.acks = {}],
                 {DecisionMessage(n, c.decision) : n \in Nodes})
    ELSE Outcome(c, {})

\* Persist, then broadcast to every node.
TrySendDecision(c) ==
    IF c.phase = "Decided"
    THEN Outcome([c EXCEPT !.phase = "AwaitingAcks", !.acks = {},
                           !.durable = c.decision],
                 {DecisionMessage(n, c.decision) : n \in Nodes})
    ELSE Outcome(c, {})

-----------------------------------------------------------------------------
(* tick *)

\* random_bool(abort_bias / 10): never certain, impossible only at bias 0.
SpontaneousAbort == IF AbortBias = "never" THEN {FALSE} ELSE {FALSE, TRUE}

\* Variant: never repeats a Prepare.
TickVotingOnce(c, elapsed) ==
    {IF abort THEN TrySendDecision(Decide(c, "Abort")) ELSE Outcome(c, {}) :
        abort \in SpontaneousAbort}

\* Variant: asks the nodes that have voted as well.
TickVotingAll(c, elapsed) ==
    {IF abort THEN TrySendDecision(Decide(c, "Abort"))
              ELSE Outcome(c, When(elapsed, {PrepareMessage(n) : n \in Nodes})) :
        abort \in SpontaneousAbort}

TickVoting(c, elapsed) ==
    {IF abort
     THEN TrySendDecision(Decide(c, "Abort"))
     ELSE Outcome(c, When(elapsed, {PrepareMessage(n) :
                          n \in {u \in Nodes : c.votes[u] = None}})) :
        abort \in SpontaneousAbort}

TickAwaitingAcks(c, elapsed) ==
    {Outcome(c, When(elapsed, {DecisionMessage(n, c.decision) :
                                  n \in Nodes \ c.acks}))}

CoordinatorTick(c, elapsed) ==
    CASE c.phase = "Voting"       -> TickVoting(c, elapsed)
      [] c.phase = "Decided"      -> {TrySendDecision(c)}
      [] c.phase = "AwaitingAcks" -> TickAwaitingAcks(c, elapsed)
      [] OTHER                    -> {Outcome(c, {})}

-----------------------------------------------------------------------------
(* on_message *)

BeginVoting(c) ==
    {Outcome([c EXCEPT !.phase = "Voting", !.votes = NoVotes],
             {PrepareMessage(n) : n \in Nodes})}

\* The first vote of a node counts; a later one is ignored.
RecordVote(c, n, v) ==
    IF c.votes[n] = None
    THEN {TrySendDecision(d) : d \in TryDecide([c EXCEPT !.votes[n] = v])}
    ELSE {Outcome(c, {})}

\* Variant: done at the first Ack.
RecordAckEarly(c, n) ==
    {Outcome([c EXCEPT !.phase = "Done", !.acks = {}], {})}

\* Variant: looks at the acks before it adds one.
RecordAckLate(c, n) ==
    IF c.acks = Nodes
    THEN {Outcome([c EXCEPT !.phase = "Done", !.acks = {}], {})}
    ELSE {Outcome([c EXCEPT !.acks = @ \cup {n}], {})}

RecordAck(c, n) ==
    IF c.acks \cup {n} = Nodes
    THEN {Outcome([c EXCEPT !.phase = "Done", !.acks = {}], {})}
    ELSE {Outcome([c EXCEPT !.acks = @ \cup {n}], {})}

\* The match of on_message, in the phase its tick has left.
CoordinatorHandle(c, m) ==
    CASE m.type = "StartTransaction" /\ c.phase = "Waiting" ->
            BeginVoting(c)
      [] IsVote(m) /\ c.phase = "Voting" /\ m.from \in Nodes ->
            RecordVote(c, m.from, VoteOf(m))
      [] m.type = "Ack" /\ c.phase = "AwaitingAcks" /\ m.from \in Nodes ->
            RecordAck(c, m.from)
      [] OTHER ->
            {Outcome(c, {})}

\* Every message first drives a tick, which may retransmit or decide, and is
\* then matched against the phase that tick left behind.
CoordinatorOnMessage(c, m, elapsed) ==
    UNION {{Outcome(handled.state, ticked.sent \cup handled.sent) :
              handled \in CoordinatorHandle(ticked.state, m)} :
                 ticked \in CoordinatorTick(c, elapsed)}

-----------------------------------------------------------------------------
(* recover, is_quiescent *)

\* Variant: forgets that it decided.
RecoverToVoting(c) ==
    [c EXCEPT !.phase = "Voting", !.votes = NoVotes, !.decision = None, !.acks = {}]

\* Variant: presumes an abort when no decision is durable.
RecoverPresumingAbort(c) ==
    LET d == IF c.durable = None THEN "Abort" ELSE c.durable
    IN  [c EXCEPT !.phase = "Decided", !.votes = NoVotes, !.decision = d,
                  !.acks = {}, !.durable = d]

CoordinatorRecover(c) ==
    [phase    |-> IF c.durable = None THEN "Voting" ELSE "Decided",
     votes    |-> NoVotes,
     decision |-> c.durable,
     acks     |-> {},
     durable  |-> c.durable]

CoordinatorIsQuiescent(c) == c.phase \in {"Waiting", "Done"}
=============================================================================
