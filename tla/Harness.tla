------------------------------ MODULE Harness ------------------------------
(***************************************************************************)
(* A sequential program that owns a Simulator and makes a fixed list of    *)
(* calls on it: the form of every test of tests/simulation.rs that uses    *)
(* the simulator and of every scenario of examples/scenarios/mod.rs.       *)
(***************************************************************************)
EXTENDS Drain, Sequences

CONSTANT Programs   \* lists of calls, one of which is made

EnqueueCall(event, at_time) ==
    [call |-> "enqueue_external", event |-> event, at_time |-> at_time]
RunCall == [call |-> "run"]
DrainCall == [call |-> "drain"]

Call ==
    [call : {"enqueue_external"}, event : ExternalEvent, at_time : Nat]
    \cup {RunCall, DrainCall}

ASSUME ProgramsAssumption == \A p \in Programs : p \in Seq(Call)

VARIABLES
    program,    \* the calls not made yet
    late        \* history: an event was enqueued for a time already past

harnessVars == <<drainVars, program, late>>

HarnessInit ==
    /\ DrainInit
    /\ program \in Programs
    /\ late = FALSE

MakeCall ==
    /\ program # <<>>
    /\ program' = Tail(program)
    /\ LET c == Head(program)
       IN  \/ /\ c.call = "enqueue_external"
              /\ Enqueue(c.event, c.at_time)
              /\ late' = (late \/ c.at_time < clock)
           \/ c.call = "run" /\ CallRun /\ UNCHANGED late
           \/ c.call = "drain" /\ CallDrain /\ UNCHANGED late

ProgramEnded == program = <<>> /\ at = "caller"

Exited == ProgramEnded /\ UNCHANGED harnessVars

HarnessNext ==
    \/ MakeCall
    \/ InCall /\ UNCHANGED <<program, late>>
    \/ Exited

HarnessSpec == HarnessInit /\ [][HarnessNext]_harnessVars

-----------------------------------------------------------------------------
(* Programs *)

\* Every program of the repository is of this form, with calls of
\* enqueue_external alone.
ThenRunAndDrain(calls) == calls \o <<RunCall, DrainCall>>

Enqueues(c) == c.call = "enqueue_external"

\* All external events are in the queue before the simulator runs.
Scripted(p) ==
    \A i, j \in DOMAIN p : i < j /\ Enqueues(p[j]) => Enqueues(p[i])

\* Every crash of an actor is followed by a recovery of it.
RecoversAll(p) ==
    \A i \in DOMAIN p, a \in ActorId :
        Enqueues(p[i]) /\ p[i].event = CrashEvent(a) =>
            \E j \in DOMAIN p :
                Enqueues(p[j]) /\ p[j].event = RecoverEvent(a) /\ p[j].at_time > p[i].at_time

IsExternal(e) == e.event.kind # "Deliver"

\* The step that takes e out of the queue.
Takes(e) == e \in queue.entries /\ e \notin queue'.entries

\* The step in which drain returns.
Returns(result) == at \in {"drain", "probed"} /\ at' = "caller" /\ drained' = result

\* The nodes the coordinator still wants an answer from.
Awaited ==
    {n \in Nodes : \/ coordinator.phase = "Voting" /\ coordinator.votes[n] = None
                   \/ coordinator.phase = "AwaitingAcks" /\ n \notin coordinator.acks}

-----------------------------------------------------------------------------
(* Properties *)

\* "External events get lower sequence numbers than internal events at the same
\* timestamp, so the Crash fires before the vote deliveries" (scenarios): no
\* message is delivered while an external event of its time or earlier waits.
ScriptComesFirst ==
    [][\A e \in queue.entries :
          Takes(e) /\ ~IsExternal(e) =>
              \A f \in queue.entries : IsExternal(f) => e.timestamp < f.timestamp
      ]_harnessVars

\* The clock, which step sets to the time of the event processed, goes back
\* only for an event that a caller put into the past: no delivery does it.
OnlyCallersTurnBackTime ==
    [][clock' < clock => \E e \in queue.entries : Takes(e) /\ IsExternal(e)]_harnessVars

\* "Returns whether the system is quiescent": drain says so only when it is.
DrainReportsQuiescence == [][Returns("true") => IsQuiescent']_harnessVars

\* What drain's "true" means for a program that may leave actors crashed and
\* enqueue events late: quiescence, a crashed coordinator, which answers no
\* probe, or an answer still awaited with the timeout not reached.  The last
\* happens only if a late event has set the clock back, or if the timeout is
\* longer than the twelve probes last.
DrainTrueExplained ==
    [][Returns("true") =>
          (\/ IsQuiescent
           \/ ~IsOperating(CoordinatorId)
           \/ /\ Awaited # {} /\ ~Elapsed(clock)
              /\ late \/ RetransmitTimeout > QuiescenceThreshold)']_harnessVars

\* How much of its patience drain needs: while a coordinator that is up waits
\* for someone, be that someone up or down, fewer probes in a row go unanswered
\* than the timeout has units, and what is answered starts the count again.
ProbesAreAnswered ==
    at = "drain" /\ emptyProbes > 0 /\ IsOperating(CoordinatorId) /\ Awaited # {} =>
        late \/ emptyProbes < RetransmitTimeout

\* And its "false": a coordinator that keeps retransmitting to a crashed
\* participant, nothing else.
DrainFalseExplained ==
    [][Returns("false") =>
          (/\ IsOperating(CoordinatorId)
           /\ \E n \in Awaited : ~IsOperating(n))']_harnessVars

\* What the termination tests take drain's "true" for: everyone has decided, was
\* seen to do so and holds the coordinator's decision, and the coordinator
\* knows it.
DrainedMeansDecided ==
    [][Returns("true") /\ started =>
          (/\ coordinator.phase = "Done"
           /\ AllDecided(observations)
           /\ \A n \in Nodes : participants[n].decision = coordinator.durable)']_harnessVars
=============================================================================
