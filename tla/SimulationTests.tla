-------------------------- MODULE SimulationTests --------------------------
(***************************************************************************)
(* The programs that the properties of tests/simulation.rs generate, on    *)
(* small instances: one external event at each of the times 1, 2, .. after *)
(* StartTransaction, then possibly a recovery of every actor.              *)
(***************************************************************************)
EXTENDS Harness, FiniteSetsExt

CONSTANTS
    Length,      \* number of actions
    MaxFaults,   \* how many of them are not ticks
    Sweep,       \* whether all actors are recovered at the end
    Deltas       \* the range of tick_actions_strategy

ASSUME TestAssumption == Length \in Nat /\ MaxFaults \in Nat /\ Sweep \in BOOLEAN
ASSUME DeltasAssumption == Deltas \subseteq Nat

\* crash_actions_strategy: TickAll two times out of three.
Actions ==
    {TickAllEvent} \cup {CrashEvent(a) : a \in ActorId}
                   \cup {RecoverEvent(a) : a \in ActorId}

FaultyActions ==
    {actions \in [1..Length -> Actions] :
        Cardinality({i \in 1..Length : actions[i] # TickAllEvent}) <= MaxFaults}

\* materialize_crash_events
Materialized(actions) ==
    <<EnqueueCall(StartEvent, 0)>>
        \o [i \in DOMAIN actions |-> EnqueueCall(actions[i], i)]

\* The recovery sweep of test_termination_with_crashes.
RecoverySweep ==
    [i \in 1..(Cardinality(Nodes) + 1) |->
        EnqueueCall(RecoverEvent(IF i = 1 THEN CoordinatorId ELSE i - 2), Length + i)]

LastTime == Length + IF Sweep THEN Cardinality(Nodes) + 1 ELSE 0

TestPrograms ==
    {ThenRunAndDrain(Materialized(actions) \o IF Sweep THEN RecoverySweep ELSE <<>>) :
        actions \in FaultyActions}

\* A caller that goes on after run, with an event put at a time already past.
LateProgram(action, event) ==
    Materialized(<<action>>)
        \o <<RunCall, EnqueueCall(event, 0)>> \o ThenRunAndDrain(<<>>)

LatePrograms ==
    {LateProgram(action, event) : action \in Actions, event \in ExternalEvent \ {StartEvent}}

\* test_safety_with_crashes, and such a caller.
SafetyPrograms == TestPrograms \cup LatePrograms

\* tick_actions_strategy and materialize_tick_events: ticks alone, each a delta
\* after the one before.
TickPrograms ==
    {ThenRunAndDrain(<<EnqueueCall(StartEvent, 0)>>
        \o [i \in 1..Length |->
              EnqueueCall(TickAllEvent, MapThenSumSet(LAMBDA j : deltas[j], 1..i))]) :
            deltas \in [1..Length -> Deltas]}

\* test_termination_with_crashes and test_termination.
TerminationPrograms == TestPrograms \cup TickPrograms

\* One participant is down for one unit of time, as short as an outage can be
\* that still loses a message.
OutagePrograms ==
    {ThenRunAndDrain(<<EnqueueCall(StartEvent, 0),
                       EnqueueCall(CrashEvent(n), t), EnqueueCall(RecoverEvent(n), t + 1)>>) :
        n \in Nodes, t \in 1..Length}

-----------------------------------------------------------------------------
(* Properties *)

\* test_termination and test_termination_with_crashes: with all actors up in
\* the end, drain has rounds enough to return "true", which means what
\* DrainedMeansDecided says.
TestTerminates == ProgramEnded => started /\ drained = "true"

\* run returns soon after the last external event: retransmissions and answers
\* do not keep each other going, not even around an actor that stays crashed. Of
\* the eleven trips, two are for an answer to what was sent before, four for the
\* votes (the answers to a Prepare are in after two trips; the last of them sets
\* off another Prepare, since a vote is recorded after the tick that asks for
\* it), four for the Acks of a decision made then, and one for a decision
\* repeated to an actor that is down.
RunEndsSoon == at = "run" => clock <= LastTime + 11 * (1 + Max(Delays))
=============================================================================
