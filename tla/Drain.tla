------------------------------- MODULE Drain -------------------------------
(***************************************************************************)
(* Simulator::run and Simulator::drain (src/simulator/mod.rs), which drive *)
(* Simulator from the outside, and a caller that uses them between calls   *)
(* of enqueue_external.  One action is one pass through a loop, or the     *)
(* part of a pass up to or after one call of step.                         *)
(***************************************************************************)
EXTENDS Simulator

CONSTANT MaxRounds   \* drain's argument

ASSUME MaxRoundsAssumption == MaxRounds \in Nat

QuiescenceThreshold == 12

VARIABLES
    at,            \* where control is: in the caller, in run, or in drain at the
                   \* loop head, before the probe is processed or after it
    rounds,        \* passes left of drain's loop
    emptyProbes,   \* consecutive_empty
    drained        \* drain's result, None before it returns

controlVars == <<at, rounds, emptyProbes, drained>>
drainVars == <<simulatorVars, controlVars>>

ControlTypeOK ==
    /\ at \in {"caller", "run", "drain", "probe", "probed"}
    /\ rounds \in 0..MaxRounds
    /\ emptyProbes \in 0..(QuiescenceThreshold - 1)
    /\ drained \in {None, "true", "false"}

DrainInit ==
    /\ Init
    /\ at = "caller"
    /\ rounds = 0
    /\ emptyProbes = 0
    /\ drained = None

-----------------------------------------------------------------------------
(* run *)

CallRun ==
    /\ at = "caller"
    /\ ~panicked
    /\ at' = "run"
    /\ UNCHANGED <<simulatorVars, rounds, emptyProbes, drained>>

RunStep ==
    /\ at = "run"
    /\ Step
    /\ UNCHANGED controlVars

RunReturns ==
    /\ at = "run"
    /\ ~panicked
    /\ IsEmpty(queue)
    /\ at' = "caller"
    /\ UNCHANGED <<simulatorVars, rounds, emptyProbes, drained>>

-----------------------------------------------------------------------------
(* drain *)

Return(result) ==
    /\ at' = "caller"
    /\ drained' = result
    /\ UNCHANGED <<rounds, emptyProbes>>

\* The next pass of the loop, after `empty' probes in a row without an answer.
Continue(empty) ==
    /\ at' = "drain"
    /\ rounds' = rounds - 1
    /\ emptyProbes' = empty
    /\ UNCHANGED drained

CallDrain ==
    /\ at = "caller"
    /\ ~panicked
    /\ at' = "drain"
    /\ rounds' = MaxRounds
    /\ emptyProbes' = 0
    /\ drained' = None
    /\ UNCHANGED simulatorVars

OutOfRounds ==
    /\ at = "drain"
    /\ rounds = 0
    /\ Return("false")
    /\ UNCHANGED simulatorVars

\* Events left over or just sent: one of them per pass.
DrainStep ==
    /\ at = "drain"
    /\ rounds > 0
    /\ Step
    /\ IF IsQuiescent' THEN Return("true") ELSE Continue(0)

FoundQuiescent ==
    /\ at = "drain"
    /\ rounds > 0
    /\ IsQuiescent
    /\ Return("true")
    /\ UNCHANGED simulatorVars

\* Variant: does not wait for a timeout in the actors.
BeginProbeStill ==
    /\ at = "drain"
    /\ rounds > 0
    /\ ~IsQuiescent
    /\ IsEmpty(queue)
    /\ queue' = Insert(queue, clock, TickAllEvent)
    /\ at' = "probe"
    /\ UNCHANGED <<actorVars, clock, observations, panicked, rounds, emptyProbes, drained>>

BeginProbe ==
    /\ at = "drain"
    /\ rounds > 0
    /\ ~IsQuiescent
    /\ InjectProbe
    /\ at' = "probe"
    /\ UNCHANGED <<rounds, emptyProbes, drained>>

ProcessProbe ==
    /\ at = "probe"
    /\ Step
    /\ at' = "probed"
    /\ UNCHANGED <<rounds, emptyProbes, drained>>

\* Variant: an answer does not start the count again.
ProbeAnsweredUncounted ==
    /\ at = "probed"
    /\ Step
    /\ Continue(emptyProbes)

ProbeAnswered ==
    /\ at = "probed"
    /\ Step
    /\ Continue(0)

\* Variant: gives up at the first probe that nothing answers.
ProbeUnansweredOnce ==
    /\ at = "probed"
    /\ ~panicked
    /\ IsEmpty(queue)
    /\ Return("true")
    /\ UNCHANGED simulatorVars

\* Variant: compares before it counts.
ProbeUnansweredLate ==
    /\ at = "probed"
    /\ ~panicked
    /\ IsEmpty(queue)
    /\ IF emptyProbes >= QuiescenceThreshold
       THEN Return("true")
       ELSE Continue(emptyProbes + 1)
    /\ UNCHANGED simulatorVars

ProbeUnanswered ==
    /\ at = "probed"
    /\ ~panicked
    /\ IsEmpty(queue)
    /\ IF emptyProbes + 1 >= QuiescenceThreshold
       THEN Return("true")
       ELSE Continue(emptyProbes + 1)
    /\ UNCHANGED simulatorVars

\* What follows a call until it returns.
InCall ==
    \/ RunStep
    \/ RunReturns
    \/ OutOfRounds
    \/ DrainStep
    \/ FoundQuiescent
    \/ BeginProbe
    \/ ProcessProbe
    \/ ProbeAnswered
    \/ ProbeUnanswered

Enqueue(event, at_time) ==
    /\ at = "caller"
    /\ EnqueueExternal(event, at_time)
    /\ UNCHANGED controlVars
=============================================================================
