----------------------------- MODULE Scenarios -----------------------------
(***************************************************************************)
(* The scenarios of examples/scenarios/mod.rs, for every vote their seeds  *)
(* could have produced.                                                    *)
(***************************************************************************)
EXTENDS Harness

Start == EnqueueCall(StartEvent, 0)

Outage(a, from, to) ==
    <<EnqueueCall(CrashEvent(a), from), EnqueueCall(RecoverEvent(a), to)>>

\* happy_path, three_participants_with_delay and participant_votes_abort make the
\* same calls.  They differ in the number of participants and in what the seed
\* makes of the votes, and three_participants_with_delay also has delays out of
\* 0..5 where all other scenarios have none.
WithoutFaults == ThenRunAndDrain(<<Start>>)
CoordinatorCrashBeforeDecision ==
    ThenRunAndDrain(<<Start>> \o Outage(CoordinatorId, 2, 8))
CoordinatorCrashAfterDecision ==
    ThenRunAndDrain(<<Start>> \o Outage(CoordinatorId, 4, 10))
ParticipantCrashAfterVoting ==
    ThenRunAndDrain(<<Start>> \o Outage(0, 3, 10))

All == {WithoutFaults, CoordinatorCrashBeforeDecision,
        CoordinatorCrashAfterDecision, ParticipantCrashAfterVoting}

-----------------------------------------------------------------------------
(* Properties *)

\* "runs the protocol to quiescence": drain(50) is enough for every scenario,
\* and leaves the coordinator done and everyone with the same decision, Commit
\* exactly if all voted for it (abort_bias is 0).
ScenarioCompletes ==
    ProgramEnded =>
        /\ drained = "true"
        /\ coordinator.phase = "Done"
        /\ \A n \in Nodes : participants[n].decision = coordinator.durable
        /\ coordinator.durable = "Commit" <=>
              \A n \in Nodes : participants[n].durableVote = "Commit"

\* Every crash falls into the window its scenario is about: at t=2 "before any
\* votes arrive" but with all cast, at t=4 when all have decided "but before
\* receiving Acks", and at t=3 the participant "after voting but before
\* receiving the Decision", which is under way.
CrashesHitTheirWindow ==
    [][\A a \in ActorId :
          status[a] = "Operating" /\ status'[a] = "Crashed" =>
            CASE a = CoordinatorId /\ clock' = 2 ->
                    /\ coordinator.phase = "Voting"
                    /\ \A n \in Nodes :
                          coordinator.votes[n] = None /\ participants[n].durableVote # None
              [] a = CoordinatorId /\ clock' = 4 ->
                    /\ coordinator.phase = "AwaitingAcks"
                    /\ coordinator.acks = {}
                    /\ \A n \in Nodes : participants[n].phase = "Decided"
              [] a = 0 /\ clock' = 3 ->
                    /\ participants[0].phase = "Voted"
                    /\ coordinator.durable # None
      ]_harnessVars
=============================================================================
