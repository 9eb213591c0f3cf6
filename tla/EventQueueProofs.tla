-------------------------- MODULE EventQueueProofs --------------------------
(***************************************************************************)
(* Theorems about the event queue: every queue that inserts and nexts can  *)
(* lead to has one entry to come next, and it behaves as the lanes of      *)
(* StableQueue do.                                                         *)
(***************************************************************************)
EXTENDS MCEventQueue, FiniteSetTheorems, SequenceTheorems, WellFoundedInduction, TLAPS

-----------------------------------------------------------------------------
(* Numbered entries *)

\* A finite set of entries with sequence numbers of their own.
Numbered(S) ==
    /\ IsFiniteSet(S)
    /\ \A e \in S : e.sequence \in Nat
    /\ \A e, f \in S : e.sequence = f.sequence => e = f

LEMMA LeastNat ==
    ASSUME NEW T, T \subseteq Nat, T # {}
    PROVE  \E x \in T : \A y \in T : x <= y
<1>1. PICK x \in T : \A y \in T : <<y, x>> \notin OpToRel(<, Nat)
  BY WFMin, NatLessThanWellFounded, Zenon
<1>2. \A y \in T : ~(y < x)
  BY <1>1, Zenon DEF OpToRel
<1>3. QED
  BY <1>2

\* What came before an entry came before every later one.
LEMMA RanksDiffer ==
    ASSUME NEW S, Numbered(S), NEW e \in S, NEW f \in S, e # f
    PROVE  Cardinality(Before(S, e)) # Cardinality(Before(S, f))
<1>1. ASSUME NEW g \in S, NEW h \in S, g.sequence < h.sequence
      PROVE  Cardinality(Before(S, g)) # Cardinality(Before(S, h))
  <2>1. Before(S, g) \subseteq Before(S, h) /\ g \in Before(S, h) /\ g \notin Before(S, g)
    BY <1>1 DEF Numbered, Before
  <2>2. IsFiniteSet(Before(S, h))
    <3>1. Before(S, h) \in SUBSET S
      BY DEF Before
    <3>2. QED
      BY <3>1, FS_Subset DEF Numbered
  <2>3. QED
    BY <2>1, <2>2, FS_Subset
<1>2. e.sequence < f.sequence \/ f.sequence < e.sequence
  BY DEF Numbered
<1>3. QED
  BY <1>1, <1>2

LEMMA RankBounds ==
    ASSUME NEW S, Numbered(S), NEW e \in S
    PROVE  /\ Cardinality(S) \in Nat
           /\ Cardinality(Before(S, e)) \in 0..(Cardinality(S) - 1)
<1>1. /\ Before(S, e) \in SUBSET (S \ {e}) /\ IsFiniteSet(S \ {e}) /\ IsFiniteSet(S)
      /\ Cardinality(S \ {e}) = Cardinality(S) - 1
  <2>1. Before(S, e) \in SUBSET (S \ {e}) /\ IsFiniteSet(S)
    BY DEF Before, Numbered
  <2>2. QED
    BY <2>1, FS_RemoveElement
<1>2. IsFiniteSet(Before(S, e)) /\ Cardinality(Before(S, e)) <= Cardinality(S \ {e})
  BY <1>1, FS_Subset
<1>3. Cardinality(Before(S, e)) \in Nat /\ Cardinality(S) \in Nat
  BY <1>1, <1>2, FS_CardinalityType
<1>4. QED
  BY <1>1, <1>2, <1>3

\* The ranks of n entries are 0 to n - 1: they differ, and there are n of them.
LEMMA RanksAreOnto ==
    ASSUME NEW S, Numbered(S), NEW k \in 0..(Cardinality(S) - 1)
    PROVE  \E e \in S : Cardinality(Before(S, e)) = k
<1> DEFINE n == Cardinality(S)
           Rank == [e \in S |-> Cardinality(Before(S, e))]
           Ranks == {Rank[e] : e \in S}
<1>1. IsFiniteSet(S) /\ n \in Nat
  BY FS_CardinalityType DEF Numbered
<1>2. Ranks \in SUBSET (0..(n - 1))
  BY RankBounds
<1>3. Rank \in Bijection(S, Ranks)
  <2>1. Rank \in [S -> Ranks]
    OBVIOUS
  <2>2. \A e, f \in S : Rank[e] = Rank[f] => e = f
    BY RanksDiffer
  <2> HIDE DEF Rank
  <2>3. \A r \in Ranks : \E e \in S : Rank[e] = r
    OBVIOUS
  <2>4. QED
    BY <2>1, <2>2, <2>3 DEF Bijection, Injection, Surjection, IsInjective
<1>4. Cardinality(Ranks) = n
  <2>1. ExistsBijection(S, Ranks)
    BY <1>3 DEF ExistsBijection
  <2> HIDE DEF Ranks
  <2>2. QED
    BY <1>1, <2>1, FS_Bijection
<1>5. IsFiniteSet(0..(n - 1)) /\ Cardinality(0..(n - 1)) = n
  BY <1>1, FS_Interval
<1>6. Ranks = 0..(n - 1)
  <2> HIDE DEF Ranks, n
  <2>1. QED
    BY <1>2, <1>4, <1>5, FS_Subset
<1>7. QED
  BY <1>6

-----------------------------------------------------------------------------
(* Their order *)

\* The entry of a rank is the one that Nth finds.
LEMMA NthIs ==
    ASSUME NEW S, Numbered(S), NEW e \in S, NEW i \in Nat,
           Cardinality(Before(S, e)) = i - 1
    PROVE  Nth(S, i) = e
<1>1. Nth(S, i) \in S /\ Cardinality(Before(S, Nth(S, i))) = i - 1
  BY DEF Nth
<1>2. QED
  BY <1>1, RanksDiffer

LEMMA NthExists ==
    ASSUME NEW S, Numbered(S), NEW i \in 1..Cardinality(S)
    PROVE  Nth(S, i) \in S /\ Cardinality(Before(S, Nth(S, i))) = i - 1
<1>1. Cardinality(S) \in Nat
  BY FS_CardinalityType DEF Numbered
<1>2. i - 1 \in 0..(Cardinality(S) - 1)
  BY <1>1
<1>3. QED
  BY <1>2, RanksAreOnto DEF Nth

\* A late entry is the last and changes nothing before it.
LEMMA LastAdded ==
    ASSUME NEW S, Numbered(S), NEW x, x.sequence \in Nat,
           \A e \in S : e.sequence < x.sequence
    PROVE  /\ Numbered(S \cup {x})
           /\ Cardinality(S) \in Nat
           /\ Cardinality(S \cup {x}) = Cardinality(S) + 1
           /\ \A i \in 1..Cardinality(S) : Nth(S \cup {x}, i) = Nth(S, i)
           /\ Nth(S \cup {x}, Cardinality(S) + 1) = x
<1> DEFINE U == S \cup {x}
<1>1. x \notin S /\ IsFiniteSet(S)
  BY DEF Numbered
<1>2. IsFiniteSet(U) /\ Cardinality(U) = Cardinality(S) + 1 /\ Cardinality(S) \in Nat
  BY <1>1, FS_AddElement, FS_CardinalityType
<1>3. Numbered(U)
  BY <1>2 DEF Numbered
<1>4. \A e \in S : Before(U, e) = Before(S, e)
  BY DEF Before, Numbered
<1>5. Before(U, x) = S
  BY DEF Before
<1> HIDE DEF U
<1>6. ASSUME NEW i \in 1..Cardinality(S) PROVE Nth(U, i) = Nth(S, i)
  <2>1. Nth(S, i) \in U /\ Cardinality(Before(U, Nth(S, i))) = i - 1
    BY <1>4, NthExists DEF U
  <2>2. QED
    BY <1>2, <1>3, <2>1, NthIs
<1>7. Nth(U, Cardinality(S) + 1) = x
  <2>1. x \in U /\ Cardinality(Before(U, x)) = (Cardinality(S) + 1) - 1
    BY <1>2, <1>5 DEF U
  <2>2. QED
    BY <1>2, <1>3, <2>1, NthIs
<1>8. QED
  BY <1>2, <1>3, <1>6, <1>7 DEF U

\* Without the first entry the others move up by one.
LEMMA FirstRemoved ==
    ASSUME NEW S, Numbered(S), NEW x \in S,
           \A e \in S \ {x} : x.sequence < e.sequence
    PROVE  /\ Numbered(S \ {x})
           /\ Cardinality(S) \in Nat \ {0}
           /\ Cardinality(S \ {x}) = Cardinality(S) - 1
           /\ Nth(S, 1) = x
           /\ \A i \in 1..(Cardinality(S) - 1) : Nth(S \ {x}, i) = Nth(S, i + 1)
<1> DEFINE U == S \ {x}
<1>1. IsFiniteSet(S)
  BY DEF Numbered
<1>2. IsFiniteSet(U) /\ Cardinality(U) = Cardinality(S) - 1 /\ Cardinality(S) \in Nat
  BY <1>1, FS_RemoveElement, FS_CardinalityType
<1>3. Numbered(U)
  BY <1>2 DEF Numbered
<1>4. Cardinality(S) # 0
  BY <1>1, FS_EmptySet
<1>5. Nth(S, 1) = x
  <2>1. Before(S, x) = {}
    BY DEF Before, Numbered
  <2>2. Cardinality(Before(S, x)) = 1 - 1
    BY <2>1, FS_EmptySet
  <2>3. QED
    BY <2>2, NthIs
<1>6. ASSUME NEW e \in U
      PROVE  Cardinality(Before(S, e)) = Cardinality(Before(U, e)) + 1
  <2>1. Before(S, e) = Before(U, e) \cup {x} /\ x \notin Before(U, e)
    BY <1>6 DEF Before
  <2>2. IsFiniteSet(Before(U, e))
    <3>1. Before(U, e) \in SUBSET S
      BY DEF Before
    <3>2. QED
      BY <1>1, <3>1, FS_Subset
  <2>3. QED
    BY <2>1, <2>2, FS_AddElement
<1> HIDE DEF U
<1>7. ASSUME NEW i \in 1..(Cardinality(S) - 1) PROVE Nth(U, i) = Nth(S, i + 1)
  <2>1. Nth(U, i) \in U /\ Cardinality(Before(U, Nth(U, i))) = i - 1
    BY <1>2, <1>3, NthExists
  <2>2. Cardinality(Before(S, Nth(U, i))) = (i + 1) - 1
    BY <1>2, <1>6, <2>1
  <2>3. QED
    BY <1>2, <2>1, <2>2, NthIs DEF U
<1>8. QED
  BY <1>2, <1>3, <1>4, <1>5, <1>7 DEF U

-----------------------------------------------------------------------------
(* Lanes *)

LEMMA EventsTyped ==
    ASSUME NEW S, Numbered(S), \A e \in S : e.event \in Events
    PROVE  /\ EventsOf(S) \in Seq(Events)
           /\ Len(EventsOf(S)) = Cardinality(S)
           /\ EventsOf(S) = <<>> <=> S = {}
<1>1. IsFiniteSet(S) /\ Cardinality(S) \in Nat /\ (Cardinality(S) = 0 <=> S = {})
  BY FS_CardinalityType, FS_EmptySet DEF Numbered
<1>2. \A i \in 1..Cardinality(S) : Nth(S, i).event \in Events
  BY NthExists
<1>3. EventsOf(S) \in Seq(Events) /\ Len(EventsOf(S)) = Cardinality(S)
  BY <1>1, <1>2 DEF EventsOf
<1>4. QED
  BY <1>1, <1>3, EmptySeq

LEMMA EventsAppended ==
    ASSUME NEW S, Numbered(S), \A e \in S : e.event \in Events,
           NEW x, x.event \in Events, x.sequence \in Nat,
           \A e \in S : e.sequence < x.sequence
    PROVE  EventsOf(S \cup {x}) = Append(EventsOf(S), x.event)
<1> DEFINE U == S \cup {x}
           n == Cardinality(S)
<1>1. /\ Numbered(U)
      /\ n \in Nat
      /\ Cardinality(U) = n + 1
      /\ \A i \in 1..n : Nth(U, i) = Nth(S, i)
      /\ Nth(U, n + 1) = x
  BY LastAdded
<1>2. \A e \in U : e.event \in Events
  OBVIOUS
<1> HIDE DEF U
<1>3. /\ EventsOf(U) \in Seq(Events) /\ Len(EventsOf(U)) = n + 1
      /\ EventsOf(S) \in Seq(Events) /\ Len(EventsOf(S)) = n
  BY <1>1, <1>2, EventsTyped
<1>4. /\ \A i \in 1..n : EventsOf(U)[i] = EventsOf(S)[i]
      /\ EventsOf(U)[n + 1] = x.event
  BY <1>1 DEF EventsOf
<1>5. /\ Append(EventsOf(S), x.event) \in Seq(Events)
      /\ Len(Append(EventsOf(S), x.event)) = n + 1
      /\ \A i \in 1..n : Append(EventsOf(S), x.event)[i] = EventsOf(S)[i]
      /\ Append(EventsOf(S), x.event)[n + 1] = x.event
  BY <1>3, AppendProperties
<1>6. \A i \in 1..(n + 1) : EventsOf(U)[i] = Append(EventsOf(S), x.event)[i]
  BY <1>1, <1>4, <1>5
<1> HIDE DEF n
<1>7. EventsOf(U) = Append(EventsOf(S), x.event)
  BY <1>3, <1>5, <1>6, SeqEqual
<1>8. QED
  BY <1>7 DEF U

LEMMA EventsShifted ==
    ASSUME NEW S, Numbered(S), \A e \in S : e.event \in Events,
           NEW x \in S, \A e \in S \ {x} : x.sequence < e.sequence
    PROVE  /\ EventsOf(S) # <<>>
           /\ Head(EventsOf(S)) = x.event
           /\ Tail(EventsOf(S)) = EventsOf(S \ {x})
<1> DEFINE U == S \ {x}
           n == Cardinality(S)
<1>1. /\ Numbered(U)
      /\ n \in Nat \ {0}
      /\ Cardinality(U) = n - 1
      /\ Nth(S, 1) = x
      /\ \A i \in 1..(n - 1) : Nth(U, i) = Nth(S, i + 1)
  BY FirstRemoved
<1>2. \A e \in U : e.event \in Events
  OBVIOUS
<1> HIDE DEF U
<1>3. /\ EventsOf(U) \in Seq(Events) /\ Len(EventsOf(U)) = n - 1
      /\ EventsOf(S) \in Seq(Events) /\ Len(EventsOf(S)) = n
      /\ EventsOf(S) # <<>>
  BY <1>1, <1>2, EventsTyped
<1>4. /\ \A i \in 1..(n - 1) : EventsOf(U)[i] = EventsOf(S)[i + 1]
      /\ EventsOf(S)[1] = x.event
  BY <1>1 DEF EventsOf
<1>5. /\ Head(EventsOf(S)) = EventsOf(S)[1]
      /\ Tail(EventsOf(S)) \in Seq(Events)
      /\ Len(Tail(EventsOf(S))) = n - 1
      /\ \A i \in 1..(n - 1) : Tail(EventsOf(S))[i] = EventsOf(S)[i + 1]
  BY <1>1, <1>3, HeadTailProperties
<1>6. QED
  BY <1>1, <1>3, <1>4, <1>5, SeqEqual DEF U

-----------------------------------------------------------------------------
(* The inductive invariant *)

\* No two entries share a sequence number, since the next one is larger than
\* all of them, also than those that have left.
QueueInv ==
    /\ queue \in [entries : SUBSET [timestamp : Times, sequence : Nat, event : Events],
                  next    : Nat]
    /\ Numbered(queue.entries)
    /\ \A e \in queue.entries : e.sequence < queue.next

LEMMA EntriesStayNumbered ==
    ASSUME QueueInv, [Next]_queueVars
    PROVE  QueueInv'
<1>1. /\ queue.next \in Nat /\ queue = [entries |-> queue.entries, next |-> queue.next]
      /\ IsFiniteSet(queue.entries)
      /\ \A e, f \in queue.entries : e.sequence = f.sequence => e = f
      /\ \A e \in queue.entries :
            /\ e \in [timestamp : Times, sequence : Nat, event : Events]
            /\ e.sequence < queue.next
  BY DEF QueueInv, Numbered
<1>2. ASSUME NEW t \in Times, NEW event \in Events, queue' = Insert(queue, t, event)
      PROVE  QueueInv'
  <2> DEFINE x == Entry(t, queue.next, event)
  <2>1. queue'.entries = queue.entries \cup {x} /\ queue'.next = queue.next + 1
    BY <1>2 DEF Insert
  <2>2. /\ x \in [timestamp : Times, sequence : Nat, event : Events]
        /\ x.sequence = queue.next
    BY <1>1 DEF Entry
  <2>3. Numbered(queue.entries \cup {x})
    <3> HIDE DEF x
    <3>1. x.sequence \in Nat /\ \A e \in queue.entries : e.sequence < x.sequence
      BY <1>1, <2>2
    <3>2. QED
      BY <3>1, LastAdded DEF QueueInv
  <2>4. /\ queue' = [entries |-> queue'.entries, next |-> queue'.next]
    BY <1>2 DEF Insert
  <2> HIDE DEF x
  <2>5. QED
    BY <1>1, <2>1, <2>2, <2>3, <2>4 DEF QueueInv
<1>3. ASSUME NEW e \in queue.entries, queue' = Remove(queue, e)
      PROVE  QueueInv'
  <2>1. /\ queue' = [entries |-> queue.entries \ {e}, next |-> queue.next]
    BY <1>1, <1>3 DEF Remove
  <2>2. IsFiniteSet(queue.entries \ {e})
    BY <1>1, FS_RemoveElement
  <2>3. QED
    BY <1>1, <2>1, <2>2 DEF QueueInv, Numbered
<1>4. CASE UNCHANGED queue
  BY <1>4 DEF QueueInv
<1>5. QED
  BY <1>2, <1>3, <1>4 DEF Next, InsertEvent, PopEvent, PopNone, queueVars

LEMMA QueueInvHolds == Spec => []QueueInv
<1>1. Init => QueueInv
  BY FS_EmptySet DEF Init, NewQueue, QueueInv, Numbered
<1>2. QueueInv /\ [Next]_queueVars => QueueInv'
  BY EntriesStayNumbered
<1>3. QED
  BY <1>1, <1>2, PTL DEF Spec

-----------------------------------------------------------------------------
(* Theorems *)

\* Among the entries of the least time, the one of the least number is next.
LEMMA OneIsEarliest ==
    ASSUME QueueInv
    PROVE  NextIsDetermined
<1> SUFFICES ASSUME queue.entries # {}
             PROVE  \E e \in queue.entries :
                        /\ IsEarliest(queue, e)
                        /\ \A f \in queue.entries : IsEarliest(queue, f) => f = e
  BY DEF NextIsDetermined, IsEmpty
<1>1. /\ \A e \in queue.entries : e.timestamp \in Nat /\ e.sequence \in Nat
      /\ \A e, f \in queue.entries : e.sequence = f.sequence => e = f
  BY QueueBounds DEF QueueInv, Numbered
<1>2. PICK d \in queue.entries : \A f \in queue.entries : d.timestamp <= f.timestamp
  <2> DEFINE T == {e.timestamp : e \in queue.entries}
  <2>1. T \subseteq Nat /\ T # {}
    BY <1>1
  <2>2. \E x \in T : \A y \in T : x <= y
    <3> HIDE DEF T
    <3>1. QED
      BY <2>1, LeastNat
  <2>3. QED
    BY <2>2
<1>3. PICK e \in Due(queue.entries, d.timestamp) :
        \A f \in Due(queue.entries, d.timestamp) : e.sequence <= f.sequence
  <2> DEFINE T == {f.sequence : f \in Due(queue.entries, d.timestamp)}
  <2>1. T \subseteq Nat /\ T # {}
    BY <1>1 DEF Due
  <2>2. \E x \in T : \A y \in T : x <= y
    <3> HIDE DEF T
    <3>1. QED
      BY <2>1, LeastNat
  <2>3. QED
    BY <2>2
<1>4. \A f \in queue.entries \ {e} : Precedes(e, f) /\ ~Precedes(f, e)
  <2> TAKE f \in queue.entries \ {e}
  <2>1. /\ e \in queue.entries /\ e.timestamp = d.timestamp
        /\ f.sequence # e.sequence /\ d.timestamp <= f.timestamp
        /\ f.timestamp = d.timestamp => e.sequence <= f.sequence
    BY <1>1, <1>2, <1>3 DEF Due
  <2>2. QED
    BY <1>1, <2>1 DEF Precedes
<1>5. e \in queue.entries
  BY <1>3 DEF Due
<1>6. QED
  BY <1>4, <1>5 DEF IsEarliest

\* "Fully deterministic", for any number of inserts at any times: a queue that
\* is not empty has one entry to come next.
THEOREM QueueIsDeterministic == Spec => []NextIsDetermined
BY QueueInvHolds, OneIsEarliest, PTL

\* What a time's lane holds.
LEMMA LanesTyped ==
    ASSUME QueueInv, NEW t \in Times
    PROVE  /\ Numbered(Due(queue.entries, t))
           /\ \A e \in Due(queue.entries, t) : e.event \in Events
           /\ EventsOf(Due(queue.entries, t)) = <<>> <=> Due(queue.entries, t) = {}
<1>1. Due(queue.entries, t) \in SUBSET queue.entries
  BY DEF Due
<1>2. Numbered(Due(queue.entries, t))
  BY <1>1, FS_Subset DEF QueueInv, Numbered
<1>3. \A e \in Due(queue.entries, t) : e.event \in Events
  BY <1>1 DEF QueueInv
<1>4. QED
  BY <1>2, <1>3, EventsTyped

\* The heap of numbered entries implements a first-come lane per time.
THEOREM QueueIsStable == Spec => ImplementsStableQueue
<1> DEFINE lane(t) == EventsOf(Due(queue.entries, t))
           lanes == [t \in Times |-> lane(t)]
<1>1. Init => Lanes!Init
  <2> SUFFICES ASSUME Init PROVE Lanes!Init
    OBVIOUS
  <2>1. QueueInv /\ queue.entries = {} /\ taken = <<>>
    BY FS_EmptySet DEF Init, NewQueue, QueueInv, Numbered
  <2>2. \A t \in Times : lane(t) = <<>>
    BY <2>1, LanesTyped DEF Due
  <2>3. QED
    BY <2>1, <2>2 DEF Lanes!Init, Lanes!Nothing
<1>2. QueueInv /\ QueueInv' /\ [Next]_queueVars => [Lanes!Next]_Lanes!laneVars
  <2> SUFFICES ASSUME QueueInv, QueueInv', [Next]_queueVars
               PROVE  [Lanes!Next]_Lanes!laneVars
    OBVIOUS
  <2>1. ASSUME NEW t \in Times, NEW event \in Events,
               queue' = Insert(queue, t, event), UNCHANGED taken
        PROVE  Lanes!Put(t, event)
    <3> DEFINE x == Entry(t, queue.next, event)
    <3>1. queue'.entries = queue.entries \cup {x}
      BY <2>1 DEF Insert
    <3>2. x.timestamp = t /\ x.event = event /\ x.sequence = queue.next
      BY DEF Entry
    <3> HIDE DEF x
    <3>3. /\ x.sequence \in Nat
          /\ \A e \in Due(queue.entries, t) : e.sequence < x.sequence
      BY <3>2 DEF QueueInv, Due
    <3>4. Due(queue'.entries, t) = Due(queue.entries, t) \cup {x}
      BY <3>1, <3>2 DEF Due
    <3>5. lane(t)' = Append(lane(t), event)
      BY <3>2, <3>3, <3>4, LanesTyped, EventsAppended
    <3>6. ASSUME NEW u \in Times, u # t PROVE lane(u)' = lane(u)
      BY <3>1, <3>2, <3>6 DEF Due
    <3> HIDE DEF lane
    <3>7. lanes' = [lanes EXCEPT ![t] = Append(@, event)]
      BY <3>5, <3>6
    <3>8. QED
      BY <2>1, <3>7 DEF Lanes!Put, lane
  <2>2. ASSUME NEW e \in queue.entries, IsEarliest(queue, e),
               queue' = Remove(queue, e), taken' = <<e.timestamp, e.event>>
        PROVE  e.timestamp \in Times /\ Lanes!Take(e.timestamp)
    <3> DEFINE t == e.timestamp
    <3>1. t \in Times /\ e \in Due(queue.entries, t)
      BY DEF QueueInv, Due
    <3>2. queue'.entries = queue.entries \ {e}
      BY <2>2 DEF Remove, QueueInv
    <3>3. /\ t \in Nat
          /\ \A f \in queue.entries \ {e} :
                /\ f.timestamp \in Nat
                /\ t < f.timestamp \/ (t = f.timestamp /\ e.sequence < f.sequence)
      <4>1. \A f \in queue.entries : f.timestamp \in Nat
        BY QueueBounds DEF QueueInv
      <4>2. QED
        BY <2>2, <4>1 DEF IsEarliest, Precedes
    <3>4. Due(queue'.entries, t) = Due(queue.entries, t) \ {e}
      BY <3>2 DEF Due
    <3>5. lane(t) # <<>> /\ Head(lane(t)) = e.event /\ lane(t)' = Tail(lane(t))
      <4>1. ASSUME NEW f \in Due(queue.entries, t) \ {e} PROVE e.sequence < f.sequence
        <5>1. f \in queue.entries \ {e} /\ f.timestamp = t
          BY DEF Due
        <5> HIDE DEF t
        <5>2. QED
          BY <3>3, <5>1
      <4> DEFINE S == Due(queue.entries, t)
      <4>2. Numbered(S) /\ e \in S /\ \A f \in S : f.event \in Events
        BY <3>1, LanesTyped
      <4>3. \A f \in S \ {e} : e.sequence < f.sequence
        BY <4>1
      <4> HIDE DEF S
      <4>4. /\ EventsOf(S) # <<>>
            /\ Head(EventsOf(S)) = e.event
            /\ Tail(EventsOf(S)) = EventsOf(S \ {e})
        BY <4>2, <4>3, EventsShifted
      <4>5. QED
        BY <3>4, <4>4 DEF S
    <3>6. ASSUME NEW u \in Times, u # t PROVE lane(u)' = lane(u)
      BY <3>2, <3>6 DEF Due
    <3>7. ASSUME NEW u \in Times, u < t PROVE lane(u) = <<>>
      <4>1. Due(queue.entries, u) = {}
        BY <3>3, <3>7, QueueBounds DEF Due
      <4>2. QED
        BY <4>1, LanesTyped
    <3> HIDE DEF lane
    <3>8. lanes' = [lanes EXCEPT ![t] = Tail(@)]
      BY <3>1, <3>5, <3>6
    <3>9. QED
      BY <2>2, <3>1, <3>5, <3>7, <3>8 DEF Lanes!Take, lane
  <2>3. ASSUME queue.entries = {}, taken' = <<>>, UNCHANGED queue
        PROVE  Lanes!TakeNothing
    <3>1. \A t \in Times : lane(t) = <<>>
      BY <2>3, LanesTyped DEF Due
    <3>2. QED
      BY <2>3, <3>1 DEF Lanes!TakeNothing, Lanes!Nothing
  <2>4. CASE UNCHANGED queueVars
    BY <2>4 DEF queueVars, Lanes!laneVars
  <2>5. QED
    BY <2>1, <2>2, <2>3, <2>4
       DEF Next, InsertEvent, PopEvent, PopNone, IsEmpty, Lanes!Next
<1>3. QED
  BY <1>1, <1>2, QueueInvHolds, PTL DEF Spec, ImplementsStableQueue, Lanes!Spec
=============================================================================
