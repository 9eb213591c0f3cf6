---------------------------- MODULE MCEventQueue ----------------------------
(***************************************************************************)
(* The event queue on its own: any sequence of inserts and nexts, against  *)
(* the lanes of StableQueue.                                               *)
(***************************************************************************)
EXTENDS EventQueue

CONSTANTS Times, Events, MaxInserts

ASSUME QueueBounds == Times \subseteq Nat /\ MaxInserts \in Nat

VARIABLES
    queue,   \* EventQueue
    taken    \* what the last `next' returned, <<>> for Option::None

queueVars == <<queue, taken>>

Init == queue = NewQueue /\ taken = <<>>

InsertEvent ==
    /\ queue.next < MaxInserts
    /\ \E t \in Times, event \in Events : queue' = Insert(queue, t, event)
    /\ UNCHANGED taken

PopEvent ==
    \E e \in queue.entries :
        /\ IsEarliest(queue, e)
        /\ queue' = Remove(queue, e)
        /\ taken' = <<e.timestamp, e.event>>

PopNone ==
    /\ IsEmpty(queue)
    /\ taken' = <<>>
    /\ UNCHANGED queue

Next == InsertEvent \/ PopEvent \/ PopNone

Spec == Init /\ [][Next]_queueVars

\* "Fully deterministic" (EventQueue): whatever was inserted, exactly one entry
\* of a queue that is not empty can come next, also when the same event is in
\* it several times.
NextIsDetermined ==
    ~IsEmpty(queue) => \E e \in queue.entries :
        /\ IsEarliest(queue, e)
        /\ \A f \in queue.entries : IsEarliest(queue, f) => f = e

Due(entries, t) == {e \in entries : e.timestamp = t}

\* The entries of S that came before e.
Before(S, e) == {f \in S : f.sequence < e.sequence}

\* The entry that came i-th among those of S.
Nth(S, i) == CHOOSE e \in S : Cardinality(Before(S, e)) = i - 1

\* The events of S, in the order in which they came.
EventsOf(S) == [i \in 1..Cardinality(S) |-> Nth(S, i).event]

Lanes ==
    INSTANCE StableQueue WITH lanes <- [t \in Times |-> EventsOf(Due(queue.entries, t))]

\* "FIFO order among same-time insertions" (event.rs): a heap of numbered
\* entries behaves as one first-come lane per time.
ImplementsStableQueue == Lanes!Spec
=============================================================================
