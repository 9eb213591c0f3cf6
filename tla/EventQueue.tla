----------------------------- MODULE EventQueue -----------------------------
(***************************************************************************)
(* The simulator's event queue (src/simulator/event.rs).  The binary heap  *)
(* is the set of its entries: only the order in which entries leave it can *)
(* be observed.                                                            *)
(*                                                                         *)
(* Variants are marked as in Coordinator.tla.                              *)
(***************************************************************************)
EXTENDS Naturals, FiniteSets

\* TimestampedEvent
Entry(timestamp, sequence, event) ==
    [timestamp |-> timestamp, sequence |-> sequence, event |-> event]

QueueOf(Event) ==
    [entries : SUBSET [timestamp : Nat, sequence : Nat, event : Event],
     next    : Nat]

NewQueue == [entries |-> {}, next |-> 0]

IsEmpty(q) == q.entries = {}

\* Variant: the latest insertion of a time goes first.
PrecedesLifo(e, f) ==
    \/ e.timestamp < f.timestamp
    \/ e.timestamp = f.timestamp /\ e.sequence > f.sequence

\* Variant: by time alone.
PrecedesTimed(e, f) == e.timestamp < f.timestamp

\* Variant: insertion order alone.
PrecedesUntimed(e, f) == e.sequence < f.sequence

\* By time, then by insertion.  The code's third key, the event itself, is
\* left out: it is never reached, because no two entries share a sequence
\* number (QueueInv in EventQueueProofs.tla).
Precedes(e, f) ==
    \/ e.timestamp < f.timestamp
    \/ e.timestamp = f.timestamp /\ e.sequence < f.sequence

\* The entry that `next' pops.
IsEarliest(q, e) ==
    /\ e \in q.entries
    /\ \A f \in q.entries \ {e} : Precedes(e, f)

Remove(q, e) == [q EXCEPT !.entries = @ \ {e}]

Insert(q, timestamp, event) ==
    [entries |-> q.entries \cup {Entry(timestamp, q.next, event)},
     next    |-> q.next + 1]
=============================================================================
