---------------------------- MODULE Participant ----------------------------
(***************************************************************************)
(* The participant state machine (src/participant/mod.rs), in the form of  *)
(* Coordinator.tla.  Its tick is a no-op, so on_message is its match alone *)
(* and time does not appear.                                               *)
(***************************************************************************)
EXTENDS Types

CONSTANT VoteAbortBias   \* Participant's config.abort_bias

ASSUME VoteAbortBiasAssumption == VoteAbortBias \in Bias

ParticipantPhase == {"Waiting", "Voted", "Decided"}

\* vote and decision are the payload of the phase; durableVote and
\* durableDecision are the two fields of DurableState.
ParticipantState ==
    [phase           : ParticipantPhase,
     vote            : Vote \cup {None},
     decision        : Decision \cup {None},
     durableVote     : Vote \cup {None},
     durableDecision : Decision \cup {None}]

NewParticipant ==
    [phase |-> "Waiting", vote |-> None, decision |-> None,
     durableVote |-> None, durableDecision |-> None]

-----------------------------------------------------------------------------
(* on_message *)

\* Variant (see Coordinator): votes without persisting.
CastVoteVolatile(p, v) == [p EXCEPT !.phase = "Voted", !.vote = v]

CastVote(p, v) == [p EXCEPT !.phase = "Voted", !.vote = v, !.durableVote = v]

Learn(p, d) ==
    [p EXCEPT !.phase = "Decided", !.decision = d, !.durableDecision = d]

\* Variant: does not answer a repeated Prepare.
OnPrepareOnce(p, n) ==
    IF p.phase = "Waiting"
    THEN {Outcome(CastVote(p, v), {VoteMessage(n, v)}) : v \in Vote}
    ELSE {Outcome(p, {})}

\* Variant: votes on a first Prepare although the decision came before it.
OnPrepareLate(p, n) ==
    IF p.vote = None
    THEN {Outcome([CastVote(p, v) EXCEPT !.phase =
                      IF p.phase = "Decided" THEN "Decided" ELSE "Voted"],
                  {VoteMessage(n, v)}) : v \in Vote}
    ELSE {Outcome(p, {VoteMessage(n, p.vote)})}

\* First Prepare: flip the coin, persist, vote.  A repeated one repeats the
\* vote; one that arrives after the decision is ignored.
OnPrepare(p, n) ==
    CASE p.phase = "Waiting" ->
            {Outcome(CastVote(p, v), {VoteMessage(n, v)}) :
                v \in {IF abort THEN "Abort" ELSE "Commit" :
                          abort \in RandomBool(VoteAbortBias)}}
      [] p.phase = "Voted"   -> {Outcome(p, {VoteMessage(n, p.vote)})}
      [] p.phase = "Decided" -> {Outcome(p, {})}

\* Variant: does not acknowledge a repeated decision.
OnDecisionOnce(p, n, d) ==
    {IF p.phase = "Decided" THEN Outcome(p, {})
                            ELSE Outcome(Learn(p, d), {AckMessage(n)})}

\* First decision: persist and acknowledge, having voted or not.  A repeated
\* one is acknowledged again and otherwise not looked at.
OnDecision(p, n, d) ==
    {Outcome(IF p.phase = "Decided" THEN p ELSE Learn(p, d), {AckMessage(n)})}

ParticipantOnMessage(p, n, m) ==
    CASE m.type = "Prepare" -> OnPrepare(p, n)
      [] IsDecision(m)      -> OnDecision(p, n, DecisionOf(m))
      [] OTHER              -> {Outcome(p, {})}

-----------------------------------------------------------------------------
(* recover, is_quiescent *)

\* Variant: forgets a vote that has not been decided on.
ParticipantRecoverAmnesia(p) ==
    IF p.durableDecision # None THEN [p EXCEPT !.phase = "Decided"]
                                ELSE [p EXCEPT !.phase = "Waiting", !.vote = None]

ParticipantRecover(p) ==
    [p EXCEPT !.phase = CASE p.durableDecision # None -> "Decided"
                          [] p.durableDecision = None /\ p.durableVote # None -> "Voted"
                          [] OTHER -> "Waiting",
              !.vote = p.durableVote,
              !.decision = p.durableDecision]

ParticipantIsQuiescent(p) == p.phase \in {"Waiting", "Decided"}
=============================================================================
