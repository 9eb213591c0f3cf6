--------------------------- MODULE ProgramsProofs ---------------------------
(***************************************************************************)
(* The programs of the repository satisfy what HarnessProofs and           *)
(* RoundsProofs ask for, so that their theorems are about them: those that *)
(* tests/simulation.rs generates, of any length and with any number of     *)
(* faults, and the scenarios of examples/scenarios/mod.rs.                 *)
(***************************************************************************)
EXTENDS SimulationTests, Scenarios, RoundsProofs

-----------------------------------------------------------------------------
(* Lists of events *)

\* Calls of enqueue_external with whole times.
Events == [call : {"enqueue_external"}, event : ExternalEvent, at_time : Nat]

LEMMA EventsEnqueue ==
    ASSUME NEW event \in ExternalEvent, NEW t \in Nat
    PROVE  EnqueueCall(event, t) \in Events
BY DEF EnqueueCall, Events

LEMMA Enqueued ==
    \A event, t : EnqueueCall(event, t).event = event /\ EnqueueCall(event, t).at_time = t
BY DEF EnqueueCall

LEMMA EventsOnly == \A c \in Events : Enqueues(c)
BY DEF Events, Enqueues

LEMMA Joined ==
    ASSUME NEW S, NEW s \in Seq(S), NEW r \in Seq(S)
    PROVE  /\ s \o r \in Seq(S)
           /\ DOMAIN (s \o r) = 1..(Len(s) + Len(r))
           /\ \A i \in 1..Len(s) : (s \o r)[i] = s[i]
           /\ \A i \in 1..Len(r) : (s \o r)[Len(s) + i] = r[i]
           /\ Len(s) \in Nat /\ Len(r) \in Nat /\ Len(s \o r) = Len(s) + Len(r)
           /\ DOMAIN s = 1..Len(s) /\ DOMAIN r = 1..Len(r)
OBVIOUS

\* A list of events that recovers whom it crashes.
Recovers(s) ==
    \A i \in DOMAIN s, a \in ActorId :
        s[i].event = CrashEvent(a) =>
            \E j \in DOMAIN s : s[j].event = RecoverEvent(a) /\ s[j].at_time > s[i].at_time

\* What the theorems ask of a program.
Orderly(p) ==
    /\ Scripted(p)
    /\ RecoversAll(p)
    /\ Starts(p)
    /\ DrainsAfterRun(p)
    /\ Drains(p)

LEMMA ProgramShape ==
    ASSUME NEW S, NEW s \in Seq(S), NEW p, p = ThenRunAndDrain(s)
    PROVE  /\ Len(s) \in Nat /\ DOMAIN s = 1..Len(s)
           /\ DOMAIN p = 1..(Len(s) + 2) /\ Len(p) = Len(s) + 2
           /\ \A i \in 1..Len(s) : p[i] = s[i]
           /\ p[Len(s) + 1] = RunCall /\ p[Len(s) + 2] = DrainCall
           /\ \A i \in DOMAIN p : i \in 1..Len(s) \/ i = Len(s) + 1 \/ i = Len(s) + 2
<1> DEFINE tail == <<RunCall, DrainCall>>
           T == S \cup {RunCall, DrainCall}
<1>1. s \in Seq(T) /\ tail \in Seq(T) /\ Len(tail) = 2 /\ tail[1] = RunCall /\ tail[2] = DrainCall
  <2>1. RunCall \in T /\ DrainCall \in T /\ S \subseteq T
    OBVIOUS
  <2> HIDE DEF T
  <2>2. QED
    BY <2>1
<1>2. p = s \o tail
  BY DEF ThenRunAndDrain
<1> HIDE DEF tail, T
<1>3. /\ DOMAIN p = 1..(Len(s) + 2) /\ Len(s) \in Nat /\ Len(p) = Len(s) + 2
      /\ DOMAIN s = 1..Len(s)
      /\ \A i \in 1..Len(s) : p[i] = s[i]
      /\ \A i \in 1..2 : p[Len(s) + i] = tail[i]
  <2>1. s \in Seq(T) /\ tail \in Seq(T)
    BY <1>1
  <2>2. /\ DOMAIN (s \o tail) = 1..(Len(s) + Len(tail)) /\ Len(s) \in Nat
        /\ Len(s \o tail) = Len(s) + Len(tail) /\ DOMAIN s = 1..Len(s)
        /\ \A i \in 1..Len(s) : (s \o tail)[i] = s[i]
        /\ \A i \in 1..Len(tail) : (s \o tail)[Len(s) + i] = tail[i]
    BY <2>1, Joined
  <2>3. QED
    BY <1>1, <1>2, <2>2
<1>4. \A i \in DOMAIN p : i \in 1..Len(s) \/ i = Len(s) + 1 \/ i = Len(s) + 2
  BY <1>3
<1>5. QED
  BY <1>1, <1>3, <1>4

LEMMA DrainsLast ==
    ASSUME NEW S, DrainCall \notin S, NEW s \in Seq(S)
    PROVE  DrainsAfterRun(ThenRunAndDrain(s)) /\ Drains(ThenRunAndDrain(s))
<1>1. PICK p : p = ThenRunAndDrain(s)
  OBVIOUS
<1>2. /\ Len(s) \in Nat /\ DOMAIN p = 1..(Len(s) + 2)
      /\ \A i \in 1..Len(s) : p[i] = s[i]
      /\ p[Len(s) + 1] = RunCall /\ p[Len(s) + 2] = DrainCall
      /\ \A i \in DOMAIN p : i \in 1..Len(s) \/ i = Len(s) + 1 \/ i = Len(s) + 2
  BY <1>1, ProgramShape
<1>3. \A i \in 1..Len(s) : p[i] # DrainCall
  <2>1. \A i \in 1..Len(s) : s[i] \in S
    OBVIOUS
  <2>2. QED
    BY <1>2, <2>1
<1>4. \A i \in DOMAIN p : p[i] = DrainCall => i = Len(s) + 2
  BY <1>2, <1>3, CallsDiffer
<1>5. (Len(s) + 2) - 1 = Len(s) + 1 /\ Len(s) + 2 > 1 /\ Len(s) + 2 \in DOMAIN p
  BY <1>2
<1>6. QED
  BY <1>1, <1>2, <1>4, <1>5 DEF DrainsAfterRun, Drains

\* What a program does with a list of events is all that matters of it.
LEMMA RunAndDrainPatiently ==
    ASSUME NEW S, \A c \in S : Enqueues(c), NEW s \in Seq(S),
           Recovers(s), \E i \in DOMAIN s : s[i].event = StartEvent
    PROVE  Orderly(ThenRunAndDrain(s))
<1>1. PICK p : p = ThenRunAndDrain(s)
  OBVIOUS
<1>2. /\ Len(s) \in Nat /\ DOMAIN s = 1..Len(s)
      /\ DOMAIN p = 1..(Len(s) + 2)
      /\ \A i \in 1..Len(s) : p[i] = s[i]
      /\ p[Len(s) + 1] = RunCall /\ p[Len(s) + 2] = DrainCall
      /\ \A i \in DOMAIN p : i \in 1..Len(s) \/ i = Len(s) + 1 \/ i = Len(s) + 2
  BY <1>1, ProgramShape
<1>3. \A i \in DOMAIN p : Enqueues(p[i]) <=> i \in 1..Len(s)
  <2>1. \A i \in 1..Len(s) : s[i] \in S
    OBVIOUS
  <2>2. ~Enqueues(RunCall) /\ ~Enqueues(DrainCall)
    BY DEF Enqueues, RunCall, DrainCall
  <2>3. \A i \in 1..Len(s) : Enqueues(p[i])
    BY <1>2, <2>1
  <2>4. QED
    BY <1>2, <2>2, <2>3
<1>4. Scripted(p)
  BY <1>2, <1>3 DEF Scripted
<1>5. RecoversAll(p)
  BY <1>2, <1>3 DEF Recovers, RecoversAll
<1>6. Starts(p)
  BY <1>2, <1>3 DEF Starts
<1>7. DrainsAfterRun(p) /\ Drains(p)
  <2>1. DrainCall \notin S
    BY DEF Enqueues, DrainCall
  <2>2. QED
    BY <1>1, <2>1, DrainsLast
<1>8. QED
  BY <1>1, <1>4, <1>5, <1>6, <1>7 DEF Orderly

-----------------------------------------------------------------------------
(* Rounds in numbers *)

LEMMA TripOfDelays ==
    ASSUME NEW longest \in Nat, Delays \subseteq 0..longest
    PROVE  Trip \in Nat /\ Trip <= longest + 1
<1> DEFINE d == CHOOSE d \in Delays : \A other \in Delays : other <= d
<1>1. d \in Delays
  BY DelaysAssumption
<1> HIDE DEF d
<1>2. Trip = 1 + d
  BY DEF Trip, d
<1>3. QED
  BY <1>1, <1>2

LEMMA RoundsOfRetries ==
    ASSUME NEW n \in Nat, NEW r \in Nat,
           Cardinality(Nodes) \in 0..n, Retries \in 0..r
    PROVE  RoundsNeeded \in Nat /\ RoundsNeeded <= 12 + 4 * (n * (r + 1))
<1>1. PICK c \in 0..n : c = Cardinality(Nodes)
  OBVIOUS
<1>2. PICK s \in 0..r : s = Retries
  OBVIOUS
<1>3. RoundsNeeded = 12 + 2 * (2 * c * (s + 1))
  BY <1>1, <1>2 DEF RoundsNeeded, Budget, Cost, QuiescenceThreshold
<1>4. c * (s + 1) \in Nat /\ c * (s + 1) <= n * (r + 1)
  <2>1. \A i, j, k \in Nat : i <= j => i * k \in Nat /\ j * k \in Nat /\ i * k <= j * k
    OBVIOUS
  <2>2. \A i, j, k \in Nat : i <= j => k * i \in Nat /\ k * j \in Nat /\ k * i <= k * j
    OBVIOUS
  <2>3. c * (s + 1) \in Nat /\ n * (s + 1) \in Nat /\ c * (s + 1) <= n * (s + 1)
    BY <2>1
  <2>4. n * (r + 1) \in Nat /\ n * (s + 1) <= n * (r + 1)
    BY <2>2
  <2>5. QED
    BY <2>3, <2>4
<1>5. 2 * (2 * c * (s + 1)) = 4 * (c * (s + 1))
  OBVIOUS
<1>6. n * (r + 1) \in Nat
  OBVIOUS
<1>7. QED
  BY <1>3, <1>4, <1>5, <1>6

\* The numbers of tests/simulation.rs.
LEMMA TestNumbers ==
    ASSUME Cardinality(Nodes) \in 1..4, Delays \subseteq 0..9, RetransmitTimeout = 5
    PROVE  RoundsNeeded \in Nat /\ RoundsNeeded <= 92
<1>1. Retries \in 0..4
  <2>1. PICK t \in Nat : t = Trip /\ t <= 10
    BY TripOfDelays
  <2>2. (2 * t) \div 5 \in 0..4
    BY <2>1
  <2>3. QED
    BY <2>1, <2>2 DEF Retries
<1>2. 4 \in Nat /\ Cardinality(Nodes) \in 0..4
  OBVIOUS
<1>3. RoundsNeeded \in Nat /\ RoundsNeeded <= 12 + 4 * (4 * (4 + 1))
  BY <1>1, <1>2, RoundsOfRetries
<1>4. QED
  BY <1>3

-----------------------------------------------------------------------------
(* tests/simulation.rs *)

LEMMA ActionsAreExternal == Actions \subseteq ExternalEvent
BY DEF Actions, ExternalEvent, CrashEvent, RecoverEvent

LEMMA MaterializedEvents ==
    ASSUME NEW actions \in [1..Length -> Actions]
    PROVE  /\ Materialized(actions) \in Seq(Events)
           /\ Len(Materialized(actions)) = Length + 1
           /\ Materialized(actions)[1] = EnqueueCall(StartEvent, 0)
           /\ \A i \in 1..Length :
                 Materialized(actions)[i + 1] = EnqueueCall(actions[i], i)
<1> DEFINE first == <<EnqueueCall(StartEvent, 0)>>
           rest == [i \in DOMAIN actions |-> EnqueueCall(actions[i], i)]
<1>1. Length \in Nat
  BY TestAssumption
<1>2. first \in Seq(Events) /\ Len(first) = 1 /\ first[1] = EnqueueCall(StartEvent, 0)
  <2>1. EnqueueCall(StartEvent, 0) \in Events
    BY EventsEnqueue DEF ExternalEvent
  <2>2. QED
    BY <2>1
<1>3. rest \in Seq(Events) /\ Len(rest) = Length
      /\ \A i \in 1..Length : rest[i] = EnqueueCall(actions[i], i)
  <2>1. \A i \in 1..Length : EnqueueCall(actions[i], i) \in Events
    BY <1>1, ActionsAreExternal, EventsEnqueue
  <2>2. DOMAIN actions = 1..Length
    OBVIOUS
  <2>3. QED
    BY <1>1, <2>1, <2>2
<1> HIDE DEF first, rest
<1>4. /\ first \o rest \in Seq(Events) /\ Len(first \o rest) = 1 + Length
      /\ (first \o rest)[1] = EnqueueCall(StartEvent, 0)
      /\ \A i \in 1..Length : (first \o rest)[1 + i] = EnqueueCall(actions[i], i)
  <2>1. first \in Seq(Events) /\ rest \in Seq(Events)
    BY <1>2, <1>3
  <2>2. /\ first \o rest \in Seq(Events) /\ Len(first \o rest) = Len(first) + Len(rest)
        /\ \A i \in 1..Len(first) : (first \o rest)[i] = first[i]
        /\ \A i \in 1..Len(rest) : (first \o rest)[Len(first) + i] = rest[i]
    BY <2>1, Joined
  <2>3. (first \o rest)[1] = first[1]
    BY <1>2, <2>2
  <2>4. QED
    BY <1>2, <1>3, <2>2, <2>3
<1>5. Materialized(actions) = first \o rest
  BY DEF Materialized, first, rest
<1>6. \A i \in 1..Length : i + 1 = 1 + i
  BY <1>1
<1>7. Length + 1 = 1 + Length
  BY <1>1
<1> DEFINE whole == first \o rest
<1>8. /\ whole \in Seq(Events) /\ Len(whole) = 1 + Length
      /\ whole[1] = EnqueueCall(StartEvent, 0)
      /\ \A i \in 1..Length : whole[1 + i] = EnqueueCall(actions[i], i)
      /\ Materialized(actions) = whole
  BY <1>4, <1>5
<1> HIDE DEF whole
<1>9. \A i \in 1..Length : whole[i + 1] = EnqueueCall(actions[i], i)
  BY <1>6, <1>8
<1>10. QED
  BY <1>7, <1>8, <1>9

\* The nodes are numbered from 0: NodeId(0), NodeId(1), ..
NodesFromZero == Nodes = 0..(Cardinality(Nodes) - 1)

LEMMA SweepEvents ==
    ASSUME NodesFromZero
    PROVE  /\ RecoverySweep \in Seq(Events)
           /\ Len(RecoverySweep) = Cardinality(Nodes) + 1
           /\ \A i \in 1..Len(RecoverySweep) :
                 /\ RecoverySweep[i].at_time = Length + i
                 /\ RecoverySweep[i].at_time > Length
                 /\ \E a : RecoverySweep[i].event = RecoverEvent(a)
           /\ \A a \in ActorId : \E i \in 1..Len(RecoverySweep) :
                 RecoverySweep[i].event = RecoverEvent(a)
<1> DEFINE k == Cardinality(Nodes)
           actor(i) == IF i = 1 THEN CoordinatorId ELSE i - 2
<1>1. k \in Nat /\ Length \in Nat
  BY NodesAreNumbered, FS_CardinalityType, TestAssumption
<1>2. Nodes = 0..(k - 1)
  BY DEF NodesFromZero
<1>3. RecoverySweep = [i \in 1..(k + 1) |-> EnqueueCall(RecoverEvent(actor(i)), Length + i)]
  BY DEF RecoverySweep
<1> HIDE DEF k
<1>4. \A i \in 1..(k + 1) : actor(i) \in ActorId
  BY <1>1, <1>2 DEF ActorId
<1>5. \A a \in ActorId : \E i \in 1..(k + 1) : actor(i) = a
  <2>1. actor(1) = CoordinatorId /\ 1 \in 1..(k + 1)
    BY <1>1
  <2>2. \A n \in Nodes : n + 2 \in 1..(k + 1) /\ actor(n + 2) = n
    BY <1>1, <1>2
  <2> HIDE DEF actor
  <2>3. QED
    BY <2>1, <2>2 DEF ActorId
<1> HIDE DEF actor
<1>6. \A i \in 1..(k + 1) : EnqueueCall(RecoverEvent(actor(i)), Length + i) \in Events
  <2>1. \A i \in 1..(k + 1) : RecoverEvent(actor(i)) \in ExternalEvent /\ Length + i \in Nat
    BY <1>1, <1>4 DEF RecoverEvent, ExternalEvent
  <2>2. QED
    BY <2>1, EventsEnqueue
<1>7. RecoverySweep \in Seq(Events) /\ Len(RecoverySweep) = k + 1
      /\ \A i \in 1..(k + 1) :
            RecoverySweep[i] = EnqueueCall(RecoverEvent(actor(i)), Length + i)
  BY <1>1, <1>3, <1>6
<1>8. \A i \in 1..(k + 1) : /\ RecoverySweep[i].event = RecoverEvent(actor(i))
                            /\ RecoverySweep[i].at_time = Length + i
  BY <1>7 DEF EnqueueCall
<1>9. \A i \in 1..(k + 1) : RecoverySweep[i].at_time > Length
  BY <1>1, <1>8
<1>10. QED
  BY <1>5, <1>7, <1>8, <1>9 DEF k

\* test_termination_with_crashes: the sweep comes after every crash.
LEMMA SweptProgramsArePatient ==
    ASSUME NodesFromZero, Sweep, NEW p \in TestPrograms
    PROVE  Orderly(p)
<1>1. PICK actions \in [1..Length -> Actions] :
        p = ThenRunAndDrain(Materialized(actions) \o RecoverySweep)
  BY DEF TestPrograms, FaultyActions
<1> DEFINE m == Materialized(actions)
           s == m \o RecoverySweep
<1>2. /\ m \in Seq(Events) /\ Len(m) = Length + 1
      /\ m[1] = EnqueueCall(StartEvent, 0)
      /\ \A i \in 1..Length : m[i + 1] = EnqueueCall(actions[i], i)
  BY MaterializedEvents
<1> HIDE DEF m
<1>3. /\ s \in Seq(Events)
      /\ DOMAIN s = 1..(Len(m) + Len(RecoverySweep))
      /\ \A i \in 1..Len(m) : s[i] = m[i]
      /\ \A i \in 1..Len(RecoverySweep) : s[Len(m) + i] = RecoverySweep[i]
      /\ Len(RecoverySweep) \in Nat
  <2>1. m \in Seq(Events) /\ RecoverySweep \in Seq(Events)
    BY <1>2, SweepEvents
  <2>2. QED
    BY <2>1, Joined
<1> HIDE DEF s
<1>4. Length \in Nat
  BY TestAssumption
<1>5. \A i \in 1..Len(m) : m[i].at_time \in Nat /\ m[i].at_time <= Length
  <2>1. m[1].at_time = 0 /\ \A i \in 1..Length : m[i + 1].at_time = i
    BY <1>2, Enqueued
  <2>2. ASSUME NEW i \in 1..Len(m), i # 1 PROVE m[i].at_time = i - 1 /\ i - 1 \in 1..Length
    <3>1. i - 1 \in 1..Length /\ (i - 1) + 1 = i
      BY <1>2, <1>4, <2>2
    <3>2. m[(i - 1) + 1].at_time = i - 1
      BY <2>1, <3>1
    <3>3. QED
      BY <3>1, <3>2
  <2>3. \A i \in 1..Len(m) : m[i].at_time \in 0..Length
    <3>1. 0 \in 0..Length /\ 1..Length \subseteq 0..Length
      BY <1>4
    <3>2. QED
      BY <2>1, <2>2, <3>1
  <2>4. QED
    BY <1>4, <2>3
<1>6. ASSUME NEW i \in DOMAIN s, NEW a \in ActorId, s[i].event = CrashEvent(a)
      PROVE  \E j \in DOMAIN s : s[j].event = RecoverEvent(a) /\ s[j].at_time > s[i].at_time
  <2>1. i \in 1..Len(m)
    <3>1. ASSUME i \notin 1..Len(m) PROVE FALSE
      <4>1. i - Len(m) \in 1..Len(RecoverySweep) /\ Len(m) + (i - Len(m)) = i
        BY <1>2, <1>3, <1>4, <3>1
      <4>2. s[i] = RecoverySweep[i - Len(m)]
        BY <1>3, <4>1
      <4>3. \E b : RecoverySweep[i - Len(m)].event = RecoverEvent(b)
        BY <4>1, SweepEvents
      <4>4. QED
        BY <1>6, <4>2, <4>3, FaultsDiffer
    <3>2. QED
      BY <3>1
  <2>2. PICK j \in 1..Len(RecoverySweep) : RecoverySweep[j].event = RecoverEvent(a)
    BY SweepEvents
  <2>3. /\ Len(m) + j \in DOMAIN s /\ s[Len(m) + j] = RecoverySweep[j]
        /\ RecoverySweep[j].at_time > Length
    <3>1. /\ Len(m) \in Nat /\ Len(RecoverySweep) \in Nat
          /\ RecoverySweep[j].at_time > Length
      BY <1>2, <1>3, <1>4, SweepEvents
    <3>2. Len(m) + j \in 1..(Len(m) + Len(RecoverySweep))
      BY <3>1
    <3>3. QED
      BY <1>3, <3>1, <3>2
  <2>4. RecoverySweep[j].at_time \in Nat /\ s[i].at_time \in Nat /\ s[i].at_time <= Length
    <3>1. RecoverySweep[j] \in Events
      BY SweepEvents
    <3>2. QED
      BY <1>3, <1>5, <2>1, <3>1 DEF Events
  <2>5. s[Len(m) + j].at_time > s[i].at_time
    BY <1>4, <2>3, <2>4
  <2>6. QED
    BY <2>2, <2>3, <2>5
<1>7. 1 \in DOMAIN s /\ s[1].event = StartEvent
  <2>1. 1 \in 1..Len(m) /\ m[1].event = StartEvent
    BY <1>2, <1>4, Enqueued
  <2>2. Len(m) \in Nat
    BY <1>2, <1>4
  <2>3. QED
    BY <1>3, <2>1, <2>2
<1>8. Recovers(s)
  BY <1>6 DEF Recovers
<1>9. QED
  BY <1>1, <1>3, <1>7, <1>8, EventsOnly, RunAndDrainPatiently DEF s, m

\* test_termination: no event of it is a crash.
LEMMA TickProgramsArePatient ==
    ASSUME NEW p \in TickPrograms
    PROVE  Orderly(p)
<1>1. PICK time : p = ThenRunAndDrain(<<EnqueueCall(StartEvent, 0)>> \o
                          [i \in 1..Length |-> EnqueueCall(TickAllEvent, time[i])])
  <2>1. PICK deltas \in [1..Length -> Deltas] :
          p = ThenRunAndDrain(<<EnqueueCall(StartEvent, 0)>> \o
                [i \in 1..Length |->
                    EnqueueCall(TickAllEvent, MapThenSumSet(LAMBDA j : deltas[j], 1..i))])
    BY DEF TickPrograms
  <2> DEFINE time == [i \in 1..Length |-> MapThenSumSet(LAMBDA j : deltas[j], 1..i)]
  <2>2. [i \in 1..Length |->
            EnqueueCall(TickAllEvent, MapThenSumSet(LAMBDA j : deltas[j], 1..i))]
        = [i \in 1..Length |-> EnqueueCall(TickAllEvent, time[i])]
    OBVIOUS
  <2> HIDE DEF time
  <2>3. QED
    BY <2>1, <2>2
<1> DEFINE first == <<EnqueueCall(StartEvent, 0)>>
           rest == [i \in 1..Length |-> EnqueueCall(TickAllEvent, time[i])]
           S == {EnqueueCall(StartEvent, 0)}
                \cup {EnqueueCall(TickAllEvent, time[i]) : i \in 1..Length}
<1>2. \A c \in S : Enqueues(c) /\ c.event \in {StartEvent, TickAllEvent}
  BY DEF EnqueueCall, Enqueues
<1>3. first \in Seq(S) /\ rest \in Seq(S) /\ Len(first) = 1 /\ first[1].event = StartEvent
  <2>1. EnqueueCall(StartEvent, 0) \in S /\ \A i \in 1..Length : rest[i] \in S
    OBVIOUS
  <2>2. Length \in Nat
    BY TestAssumption
  <2>3. Len(first) = 1 /\ first[1].event = StartEvent
    BY Enqueued
  <2> HIDE DEF S
  <2>4. first \in Seq(S) /\ rest \in Seq(S)
    BY <2>1, <2>2
  <2>5. QED
    BY <2>3, <2>4
<1> HIDE DEF first, rest, S
<1>4. /\ first \o rest \in Seq(S)
      /\ 1 \in DOMAIN (first \o rest) /\ (first \o rest)[1].event = StartEvent
  <2>1. /\ first \o rest \in Seq(S) /\ Len(rest) \in Nat
        /\ DOMAIN (first \o rest) = 1..(Len(first) + Len(rest))
        /\ \A i \in 1..Len(first) : (first \o rest)[i] = first[i]
    BY <1>3, Joined
  <2>2. QED
    BY <1>3, <2>1
<1>5. Recovers(first \o rest)
  <2>1. \A a : CrashEvent(a) \notin {StartEvent, TickAllEvent}
    BY TicksDiffer DEF CrashEvent, StartEvent
  <2>2. \A i \in DOMAIN (first \o rest) : (first \o rest)[i] \in S
    BY <1>4
  <2>3. QED
    BY <1>2, <2>1, <2>2 DEF Recovers
<1>6. QED
  BY <1>1, <1>2, <1>4, <1>5, RunAndDrainPatiently DEF first, rest

LEMMA TerminationProgramsArePatient ==
    ASSUME NodesFromZero, Sweep, NEW p \in TerminationPrograms
    PROVE  Orderly(p)
BY SweptProgramsArePatient, TickProgramsArePatient DEF TerminationPrograms

\* test_termination and test_termination_with_crashes, for programs of any length,
\* with ticks at any distances, any number of crashes and any timeout that
\* drain's probes reach: no delivery overtakes the script, and drain's "true"
\* means all they take it for.
THEOREM TerminationTestsAreSound ==
    ASSUME Programs = TerminationPrograms, Sweep, NodesFromZero, Nodes # {},
           RetransmitTimeout <= QuiescenceThreshold
    PROVE  HarnessSpec => /\ ScriptComesFirst
                          /\ DrainReportsQuiescence
                          /\ DrainedMeansDecided
<1>1. Patient
  BY TerminationProgramsArePatient DEF Patient, Orderly
<1>2. \A p \in Programs : Scripted(p)
  BY <1>1 DEF Patient
<1>3. QED
  BY <1>1, <1>2, ScriptGoesFirst, DrainIsReliable, DrainedIsDecided

\* drain's rounds suffice: it returns "true" at the end of every such program,
\* whatever the delays, if only it may go around as often as RoundsNeeded says.
THEOREM TerminationTestsPass ==
    ASSUME Programs = TerminationPrograms, Sweep, NodesFromZero, Nodes # {},
           RetransmitTimeout > 0, RetransmitTimeout <= QuiescenceThreshold,
           RoundsNeeded <= MaxRounds
    PROVE  HarnessSpec => []TestTerminates
<1>1. \A p \in Programs : Orderly(p)
  BY TerminationProgramsArePatient
<1>2. /\ Patient /\ Generous
      /\ \A p \in Programs : Starts(p)
      /\ \A p \in Programs : Drains(p)
  BY <1>1 DEF Patient, Generous, Orderly
<1>3. EndsDecided /\ (ProgramEnded => drained = "true") => TestTerminates
  BY DEF EndsDecided, TestTerminates
<1>4. HarnessSpec => [](PatientInv /\ EndsDecided) /\ [](ProgramEnded => drained = "true")
  BY <1>2, EndsDecidedHolds, DrainSucceeds
<1>5. QED
  BY <1>3, <1>4, PTL

\* With the numbers of tests/simulation.rs, 1..=4 participants, a delay out of
\* 0..delivery_delay with delivery_delay at most 10, and a timeout of 5, the 100
\* rounds that drain is given at least are more than the 92 it can need, whatever
\* deltas the ticks of test_termination are drawn from.
THEOREM TerminationTestsHaveRoundsEnough ==
    ASSUME Programs = TerminationPrograms, Sweep, NodesFromZero,
           Cardinality(Nodes) \in 1..4, Delays \subseteq 0..9, RetransmitTimeout = 5,
           MaxRounds >= 100
    PROVE  HarnessSpec => []TestTerminates
<1>1. Nodes # {}
  <2>1. Cardinality({}) = 0
    BY FS_EmptySet
  <2>2. QED
    BY <2>1
<1>2. RoundsNeeded \in Nat /\ RoundsNeeded <= 92
  BY TestNumbers
<1>3. RoundsNeeded <= MaxRounds
  BY <1>2, MaxRoundsAssumption
<1>4. QED
  BY <1>1, <1>3, TerminationTestsPass DEF QuiescenceThreshold

\* Calls that come before the last drain: a run, or an event at time last or before.
Early(last) == {RunCall} \cup {c \in Events : c.at_time <= last}

LEMMA EarlyCalls ==
    ASSUME NEW last \in Nat
    PROVE  /\ DrainCall \notin Early(last)
           /\ \A c \in Early(last) : Enqueues(c) => c.at_time <= last
           /\ \A event \in ExternalEvent, t \in 0..last : EnqueueCall(event, t) \in Early(last)
<1>1. DrainCall \notin Early(last)
  <2>1. \A c \in Events : c # DrainCall
    BY DEF Events, DrainCall
  <2>2. QED
    BY <2>1, CallsDiffer DEF Early
<1>2. ~Enqueues(RunCall)
  BY DEF Enqueues, RunCall
<1>3. ASSUME NEW event \in ExternalEvent, NEW t \in 0..last
      PROVE  EnqueueCall(event, t) \in Early(last)
  <2>1. EnqueueCall(event, t) \in Events /\ EnqueueCall(event, t).at_time = t
    BY EventsEnqueue, Enqueued
  <2>2. QED
    BY <2>1 DEF Early
<1>4. QED
  BY <1>1, <1>2, <1>3 DEF Early

\* A program made of such calls ends with them.
LEMMA EarlyPrograms ==
    ASSUME NEW last \in Nat, NEW s \in Seq(Early(last))
    PROVE  EndsBy(ThenRunAndDrain(s), last) /\ DrainIsLast(ThenRunAndDrain(s))
<1>1. PICK p : p = ThenRunAndDrain(s)
  OBVIOUS
<1>2. /\ Len(s) \in Nat /\ DOMAIN p = 1..(Len(s) + 2) /\ Len(p) = Len(s) + 2
      /\ \A i \in 1..Len(s) : p[i] = s[i]
      /\ p[Len(s) + 1] = RunCall /\ p[Len(s) + 2] = DrainCall
      /\ \A i \in DOMAIN p : i \in 1..Len(s) \/ i = Len(s) + 1 \/ i = Len(s) + 2
  BY <1>1, ProgramShape
<1>3. \A i \in 1..Len(s) : p[i] \in Early(last)
  <2>1. \A i \in 1..Len(s) : s[i] \in Early(last)
    OBVIOUS
  <2>2. QED
    BY <1>2, <2>1
<1>4. ~Enqueues(RunCall) /\ ~Enqueues(DrainCall)
  BY DEF Enqueues, RunCall, DrainCall
<1>5. EndsBy(p, last)
  BY <1>2, <1>3, <1>4, EarlyCalls DEF EndsBy
<1>6. \A i \in DOMAIN p : p[i] = DrainCall => i = Len(p)
  BY <1>2, <1>3, EarlyCalls, CallsDiffer
<1>7. QED
  BY <1>1, <1>5, <1>6 DEF DrainIsLast

\* What test_safety_with_crashes runs is of this form.
LEMMA TestProgramsAreEarly ==
    ASSUME NodesFromZero, NEW last \in Nat, LastTime <= last, NEW p \in TestPrograms
    PROVE  \E s \in Seq(Early(last)) : p = ThenRunAndDrain(s)
<1> DEFINE S == Early(last)
<1>1. PICK actions \in [1..Length -> Actions] :
        p = ThenRunAndDrain(Materialized(actions) \o IF Sweep THEN RecoverySweep ELSE <<>>)
  BY DEF TestPrograms, FaultyActions
<1> DEFINE m == Materialized(actions)
<1>2. /\ Length \in Nat /\ Cardinality(Nodes) \in Nat
      /\ Length <= last
      /\ Sweep => Length + (Cardinality(Nodes) + 1) <= last
  <2>1. Length \in Nat /\ Cardinality(Nodes) \in Nat
    BY NodesAreNumbered, FS_CardinalityType, TestAssumption
  <2>2. QED
    BY <2>1 DEF LastTime
<1>3. m \in Seq(S)
  <2>1. /\ m \in Seq(Events) /\ Len(m) = Length + 1
        /\ m[1] = EnqueueCall(StartEvent, 0)
        /\ \A i \in 1..Length : m[i + 1] = EnqueueCall(actions[i], i)
    BY MaterializedEvents
  <2> HIDE DEF m, S
  <2>2. m[1] \in S
    <3>1. StartEvent \in ExternalEvent /\ 0 \in 0..last
      BY DEF ExternalEvent
    <3>2. QED
      BY <2>1, <3>1, EarlyCalls DEF S
  <2>3. ASSUME NEW i \in 1..Length PROVE m[i + 1] \in S
    <3>1. actions[i] \in ExternalEvent /\ i \in 0..last
      BY <1>2, ActionsAreExternal
    <3>2. QED
      BY <2>1, <3>1, EarlyCalls DEF S
  <2>4. ASSUME NEW i \in 1..Len(m) PROVE m[i] \in S
    <3>1. CASE i = 1
      BY <2>2, <3>1
    <3>2. CASE i # 1
      <4>1. i - 1 \in 1..Length /\ (i - 1) + 1 = i
        BY <1>2, <2>1, <3>2
      <4>2. QED
        BY <2>3, <4>1
    <3>3. QED
      BY <3>1, <3>2
  <2>5. QED
    BY <2>1, <2>4
<1>4. Sweep => RecoverySweep \in Seq(S)
  <2>1. /\ RecoverySweep \in Seq(Events)
        /\ Len(RecoverySweep) = Cardinality(Nodes) + 1
        /\ \A i \in 1..Len(RecoverySweep) : RecoverySweep[i].at_time = Length + i
    BY SweepEvents
  <2>2. ASSUME Sweep, NEW i \in 1..Len(RecoverySweep) PROVE RecoverySweep[i] \in S
    <3>1. RecoverySweep[i].at_time <= last
      BY <1>2, <2>1, <2>2
    <3>2. RecoverySweep[i] \in Events
      BY <2>1
    <3>3. QED
      BY <3>1, <3>2 DEF Early
  <2> HIDE DEF S
  <2>3. QED
    BY <2>1, <2>2
<1> HIDE DEF m, S
<1>5. PICK r \in Seq(S) : r = IF Sweep THEN RecoverySweep ELSE <<>>
  <2>1. <<>> \in Seq(S)
    OBVIOUS
  <2>2. QED
    BY <1>4, <2>1
<1>6. m \o r \in Seq(S) /\ p = ThenRunAndDrain(m \o r)
  BY <1>1, <1>3, <1>5 DEF m
<1>7. QED
  BY <1>6 DEF S

LEMMA SafetyProgramsAreEarly ==
    ASSUME NodesFromZero, NEW last \in Nat, LastTime <= last, 1 <= last,
           NEW p \in SafetyPrograms
    PROVE  \E s \in Seq(Early(last)) : p = ThenRunAndDrain(s)
<1> DEFINE S == Early(last)
<1>1. CASE p \in TestPrograms
  BY <1>1, TestProgramsAreEarly
<1>2. CASE p \in LatePrograms
  <2>1. PICK action \in Actions, event \in ExternalEvent \ {StartEvent} :
          p = LateProgram(action, event)
    BY <1>2 DEF LatePrograms
  <2>2. /\ EnqueueCall(StartEvent, 0) \in S /\ EnqueueCall(action, 1) \in S
        /\ EnqueueCall(event, 0) \in S /\ RunCall \in S
    <3>1. StartEvent \in ExternalEvent /\ action \in ExternalEvent /\ event \in ExternalEvent
      BY ActionsAreExternal DEF ExternalEvent
    <3>2. 0 \in 0..last /\ 1 \in 0..last
      OBVIOUS
    <3>3. QED
      BY <3>1, <3>2, EarlyCalls DEF Early
  <2> HIDE DEF S
  <2>3. PICK m \in Seq(S) : m = Materialized(<<action>>)
    <3>1. Materialized(<<action>>)
            = <<EnqueueCall(StartEvent, 0)>> \o <<EnqueueCall(action, 1)>>
      BY DEF Materialized
    <3>2. \A x, y \in S : <<x>> \o <<y>> \in Seq(S)
      OBVIOUS
    <3>3. QED
      BY <2>2, <3>1, <3>2
  <2>4. PICK r \in Seq(S) : r = <<RunCall, EnqueueCall(event, 0)>>
    <3>1. \A x, y \in S : <<x, y>> \in Seq(S)
      OBVIOUS
    <3>2. QED
      BY <2>2, <3>1
  <2>5. m \o r \in Seq(S) /\ p = ThenRunAndDrain(m \o r)
    BY <2>1, <2>3, <2>4 DEF ThenRunAndDrain, LateProgram
  <2>6. QED
    BY <2>5 DEF S
<1>3. QED
  BY <1>1, <1>2 DEF SafetyPrograms

LEMMA SafetyProgramsDrainLast ==
    ASSUME NodesFromZero, NEW p \in SafetyPrograms
    PROVE  DrainsAfterRun(p)
<1>1. PICK last \in Nat : LastTime <= last /\ 1 <= last
  <2>1. Length \in Nat /\ Cardinality(Nodes) \in Nat
    BY NodesAreNumbered, FS_CardinalityType, TestAssumption
  <2>2. LastTime \in Nat
    BY <2>1, TestAssumption DEF LastTime
  <2>3. LastTime + 1 \in Nat /\ LastTime <= LastTime + 1 /\ 1 <= LastTime + 1
    BY <2>2
  <2>4. QED
    BY <2>3
<1>2. PICK s \in Seq(Early(last)) : p = ThenRunAndDrain(s)
  BY <1>1, SafetyProgramsAreEarly
<1>3. DrainCall \notin Early(last)
  BY EarlyCalls
<1>4. QED
  BY <1>2, <1>3, DrainsLast

\* test_safety_with_crashes leaves actors crashed, and drains for 200 rounds. With
\* its numbers these are more than enough: if they run out, the coordinator is up
\* and waits for a participant that is down.
THEOREM SafetyTestsGiveUpRightly ==
    ASSUME Programs = SafetyPrograms, NodesFromZero, Cardinality(Nodes) \in 1..4,
           Delays \subseteq 0..9, RetransmitTimeout = 5, MaxRounds = 200
    PROVE  HarnessSpec => DrainFalseExplained
<1>1. Nodes # {}
  BY FS_EmptySet
<1>2. RoundsNeeded \in Nat /\ RoundsNeeded <= 92
  BY TestNumbers
<1>3. Generous
  BY <1>1, <1>2, SafetyProgramsDrainLast DEF Generous
<1>4. QED
  BY <1>3, DrainFalseIsRight

\* A run of test_safety_with_crashes, of any length and with any faults, which may
\* leave anyone crashed, and of a caller who goes on late: it is over eleven trips
\* after the last external event.
THEOREM SafetyTestsRunSoonEnds ==
    ASSUME Programs = SafetyPrograms, NodesFromZero, Length >= 1
    PROVE  HarnessSpec => []RunEndsSoon
<1>1. LastTime \in Nat /\ 1 <= LastTime
  <2>1. Length \in Nat /\ Cardinality(Nodes) \in Nat
    BY NodesAreNumbered, FS_CardinalityType, TestAssumption
  <2>2. QED
    BY <2>1, TestAssumption DEF LastTime
<1>2. ASSUME NEW p \in Programs PROVE EndsBy(p, LastTime) /\ DrainIsLast(p)
  <2>1. PICK last \in Nat : last = LastTime
    BY <1>1
  <2>2. PICK s \in Seq(Early(last)) : p = ThenRunAndDrain(s)
    BY <1>1, <2>1, SafetyProgramsAreEarly
  <2>3. EndsBy(p, last) /\ DrainIsLast(p)
    BY <2>2, EarlyPrograms
  <2>4. QED
    BY <2>1, <2>3
<1>3. 1 + Max(Delays) = Trip
  <2> DEFINE d == CHOOSE d \in Delays : \A other \in Delays : other <= d
  <2>1. d \in Delays /\ \A other \in Delays : other <= d
    BY DelaysAssumption
  <2>2. \A c \in Delays : (\A other \in Delays : c >= other) <=> (\A other \in Delays : other <= c)
    BY DelaysAssumption
  <2> DEFINE e == Max(Delays)
  <2>3. e \in Delays /\ \A other \in Delays : e >= other
    BY <2>1, <2>2 DEF Max
  <2>4. Trip = 1 + d
    BY DEF Trip
  <2> HIDE DEF d, e
  <2>5. d = e
    BY <2>1, <2>3, DelaysAssumption
  <2>6. QED
    BY <2>4, <2>5 DEF e
<1> DEFINE I == LimitInv(LastTime)
<1>4. HarnessInit => I
  BY <1>1, <1>2, LimitAtFirst
<1>5. Inherited /\ I /\ [HarnessNext]_harnessVars => I'
  BY <1>1, LimitPreserved
<1>6. I => RunEndsSoon
  BY <1>3 DEF LimitInv, Limited, RunEndsSoon
<1> HIDE DEF I
<1>7. QED
  BY <1>4, <1>5, <1>6, InheritedHolds, PTL DEF HarnessSpec

-----------------------------------------------------------------------------
(* examples/scenarios/mod.rs *)

\* The script of a scenario with a crash.
IsOutage(s, a, t, u) ==
    /\ s \in Seq(Events) /\ DOMAIN s = 1..3
    /\ s[1].event = StartEvent /\ s[1].at_time = 0
    /\ s[2].event = CrashEvent(a) /\ s[2].at_time = t
    /\ s[3].event = RecoverEvent(a) /\ s[3].at_time = u

LEMMA OutageEvents ==
    ASSUME NEW a \in ActorId, NEW t \in Nat, NEW u \in Nat
    PROVE  IsOutage(<<Start>> \o Outage(a, t, u), a, t, u)
<1> DEFINE down == EnqueueCall(CrashEvent(a), t)
           up == EnqueueCall(RecoverEvent(a), u)
           r == <<down, up>>
           s == <<Start>> \o r
<1>1. Start \in Events /\ down \in Events /\ up \in Events
  <2>1. /\ CrashEvent(a) \in ExternalEvent /\ RecoverEvent(a) \in ExternalEvent
        /\ StartEvent \in ExternalEvent
    BY DEF CrashEvent, RecoverEvent, ExternalEvent
  <2>2. QED
    BY <2>1, EventsEnqueue DEF Start
<1>2. /\ Start.event = StartEvent /\ Start.at_time = 0
      /\ down.event = CrashEvent(a) /\ down.at_time = t
      /\ up.event = RecoverEvent(a) /\ up.at_time = u
  BY Enqueued DEF Start
<1>3. <<Start>> \o Outage(a, t, u) = s
  BY DEF Outage
<1> HIDE DEF down, up
<1>4. <<Start>> \in Seq(Events) /\ Len(<<Start>>) = 1
  BY <1>1
<1>5. r \in Seq(Events) /\ Len(r) = 2 /\ r[1] = down /\ r[2] = up
  BY <1>1
<1> HIDE DEF r
<1>6. /\ s \in Seq(Events) /\ DOMAIN s = 1..(1 + 2)
      /\ \A i \in 1..1 : s[i] = <<Start>>[i]
      /\ \A i \in 1..2 : s[1 + i] = r[i]
  <2>1. PICK one \in Seq(Events) : one = <<Start>> /\ Len(one) = 1
    BY <1>4
  <2>2. /\ one \o r \in Seq(Events)
        /\ DOMAIN (one \o r) = 1..(Len(one) + Len(r))
        /\ \A i \in 1..Len(one) : (one \o r)[i] = one[i]
        /\ \A i \in 1..Len(r) : (one \o r)[Len(one) + i] = r[i]
    BY <1>5, Joined
  <2>3. QED
    BY <1>5, <2>1, <2>2
<1>7. s[1] = <<Start>>[1] /\ s[1 + 1] = r[1] /\ s[1 + 2] = r[2]
  BY <1>6
<1> HIDE DEF s
<1>8. s \in Seq(Events) /\ DOMAIN s = 1..3 /\ s[1] = Start /\ s[2] = down /\ s[3] = up
  BY <1>5, <1>6, <1>7
<1>9. QED
  BY <1>2, <1>3, <1>8 DEF IsOutage

LEMMA ScenariosArePatient ==
    ASSUME NEW p \in All, 0 \in Nodes
    PROVE  Orderly(p)
<1>1. Start \in Events
  BY EventsEnqueue DEF Start, ExternalEvent
<1>2. ASSUME NEW a \in ActorId, NEW t \in Nat, NEW u \in Nat, t < u,
             p = ThenRunAndDrain(<<Start>> \o Outage(a, t, u))
      PROVE  Orderly(p)
  <2>1. PICK s : p = ThenRunAndDrain(s) /\ IsOutage(s, a, t, u)
    BY <1>2, OutageEvents
  <2>2. Recovers(s)
    <3>1. ASSUME NEW i \in DOMAIN s, NEW b \in ActorId, s[i].event = CrashEvent(b)
          PROVE  b = a /\ i = 2
      BY <2>1, <3>1, FaultsDiffer, StartDiffers DEF IsOutage
    <3>2. 3 \in DOMAIN s /\ s[3].event = RecoverEvent(a) /\ s[3].at_time > s[2].at_time
      BY <1>2, <2>1 DEF IsOutage
    <3>3. QED
      BY <3>1, <3>2 DEF Recovers
  <2>3. s \in Seq(Events) /\ 1 \in DOMAIN s /\ s[1].event = StartEvent
    BY <2>1 DEF IsOutage
  <2>4. QED
    BY <2>1, <2>2, <2>3, EventsOnly, RunAndDrainPatiently
<1>3. CASE p = WithoutFaults
  <2> DEFINE s == <<Start>>
  <2>1. s \in Seq(Events) /\ DOMAIN s = {1} /\ s[1].event = StartEvent
    BY <1>1, Enqueued DEF Start
  <2>2. Recovers(s)
    BY <2>1 DEF Recovers, StartEvent, CrashEvent
  <2> HIDE DEF s
  <2>3. p = ThenRunAndDrain(s)
    BY <1>3 DEF WithoutFaults, s
  <2>4. QED
    BY <2>1, <2>2, <2>3, EventsOnly, RunAndDrainPatiently
<1>4. CASE p = CoordinatorCrashBeforeDecision
  BY <1>2, <1>4 DEF CoordinatorCrashBeforeDecision, ActorId
<1>5. CASE p = CoordinatorCrashAfterDecision
  BY <1>2, <1>5 DEF CoordinatorCrashAfterDecision, ActorId
<1>6. CASE p = ParticipantCrashAfterVoting
  BY <1>2, <1>6 DEF ParticipantCrashAfterVoting, ActorId
<1>7. QED
  BY <1>3, <1>4, <1>5, <1>6 DEF All

\* Every scenario, with any number of participants and any delays: when drain
\* returns "true" the protocol has run to its end.
THEOREM ScenariosAreSound ==
    ASSUME Programs = All, 0 \in Nodes, RetransmitTimeout <= QuiescenceThreshold
    PROVE  HarnessSpec => /\ ScriptComesFirst
                          /\ DrainReportsQuiescence
                          /\ DrainedMeansDecided
<1>1. Patient
  BY ScenariosArePatient DEF Patient, Orderly
<1>2. \A p \in Programs : Scripted(p)
  BY <1>1 DEF Patient
<1>3. QED
  BY <1>1, <1>2, ScriptGoesFirst, DrainIsReliable, DrainedIsDecided

\* And it ends as the scenario says: with drain's "true", if it may go around as
\* often as RoundsNeeded says, and the coordinator's decision everywhere, Commit
\* exactly if everyone voted for it.
THEOREM ScenariosPass ==
    ASSUME Programs = All, 0 \in Nodes, RetransmitTimeout > 0,
           RetransmitTimeout <= QuiescenceThreshold, AbortBias = "never",
           RoundsNeeded <= MaxRounds
    PROVE  HarnessSpec => []ScenarioCompletes
<1>1. \A p \in Programs : Orderly(p)
  BY ScenariosArePatient
<1>2. /\ Patient /\ Generous
      /\ \A p \in Programs : Starts(p)
      /\ \A p \in Programs : Drains(p)
  BY <1>1 DEF Patient, Generous, Orderly
<1>3. ASSUME PatientInv, EndsDecided, drained = "true", ProgramEnded
      PROVE  /\ coordinator.phase = "Done"
             /\ \A n \in Nodes : participants[n].decision = coordinator.durable
             /\ coordinator.durable = "Commit" <=>
                   \A n \in Nodes : participants[n].durableVote = "Commit"
  <2>1. AllIsDone
    BY <1>3 DEF EndsDecided
  <2>2. TPC!IInv /\ coordinator \in CoordinatorState
    BY <1>3 DEF PatientInv, Inherited, BaseInv, HarnessInv, IInv, TypeOK
  <2>3. coordinator.durable \in Decision
    BY <2>1, <2>2 DEF AllIsDone, TPC!IInv, TPC!PhaseMatchesDurable, TPC!None, None,
       CoordinatorState
  <2>4. coordinator.durable = "Commit" => \A n \in Nodes : participants[n].durableVote = "Commit"
    BY <2>2 DEF TPC!IInv, TPC!DurableCommitUnanimous
  <2>5. coordinator.durable = "Abort" => \E n \in Nodes : participants[n].durableVote = "Abort"
    BY <2>2 DEF TPC!IInv, TPC!AbortNeedsAVote
  <2>6. QED
    BY <2>1, <2>3, <2>4, <2>5 DEF AllIsDone, Decision
<1>4. /\ PatientInv /\ EndsDecided /\ (ProgramEnded => drained = "true")
      => ScenarioCompletes
  BY <1>3 DEF ScenarioCompletes
<1>5. HarnessSpec => [](PatientInv /\ EndsDecided) /\ [](ProgramEnded => drained = "true")
  BY <1>2, EndsDecidedHolds, DrainSucceeds
<1>6. QED
  BY <1>4, <1>5, PTL

\* With the numbers of the scenarios, two or three participants, a delay out of
\* 0..5 and a timeout of 5, drain(50) is enough: 48 rounds are all it can need.
THEOREM ScenariosHaveRoundsEnough ==
    ASSUME Programs = All, 0 \in Nodes, Cardinality(Nodes) \in 1..3, Delays \subseteq 0..4,
           RetransmitTimeout = 5, AbortBias = "never", MaxRounds = 50
    PROVE  HarnessSpec => []ScenarioCompletes
<1>1. Retries \in 0..2
  <2>1. PICK t \in Nat : t = Trip /\ t <= 5
    BY TripOfDelays
  <2>2. (2 * t) \div 5 \in 0..2
    BY <2>1
  <2>3. QED
    BY <2>1, <2>2 DEF Retries
<1>2. 3 \in Nat /\ 2 \in Nat /\ Cardinality(Nodes) \in 0..3
  OBVIOUS
<1>3. RoundsNeeded \in Nat /\ RoundsNeeded <= 12 + 4 * (3 * (2 + 1))
  BY <1>1, <1>2, RoundsOfRetries
<1>4. QED
  BY <1>3, ScenariosPass DEF QuiescenceThreshold

-----------------------------------------------------------------------------
(* The plan of a scenario with a crash *)

\* The windows that the scenarios aim at.
Windows == {<<CoordinatorId, 2>>, <<CoordinatorId, 4>>, <<0, 3>>}

\* No other events are pending than a start, the crash of a at time t and a later
\* recovery.
Planned(a, t) ==
    \A event, u :
        Pending(event, u) /\ event.kind # "Deliver" =>
            \/ event = StartEvent /\ u = 0
            \/ event = CrashEvent(a) /\ u = t
            \/ event = RecoverEvent(a) /\ u \in Nat /\ u > t

PlanInv ==
    \A a \in ActorId, t \in Nat :
        Pending(CrashEvent(a), t) => <<a, t>> \in Windows /\ Planned(a, t)

LEMMA PlanAtFirst ==
    ASSUME Programs = All, 0 \in Nodes, HarnessInit
    PROVE  PlanInv
<1>1. program \in All /\ queue.entries = {}
  BY DEF HarnessInit, DrainInit, Init, NewQueue
<1>2. ASSUME NEW s \in Seq(Events), program = ThenRunAndDrain(s),
             NEW event, NEW t, Pending(event, t)
      PROVE  \E i \in DOMAIN s : s[i].event = event /\ s[i].at_time = t
  <2>1. PICK i \in DOMAIN program : /\ Enqueues(program[i]) /\ program[i].event = event
                                    /\ program[i].at_time = t
    BY <1>1, <1>2 DEF Pending
  <2>2. ~Enqueues(RunCall) /\ ~Enqueues(DrainCall)
    BY DEF Enqueues, RunCall, DrainCall
  <2>3. /\ DOMAIN s = 1..Len(s)
        /\ \A j \in 1..Len(s) : program[j] = s[j]
        /\ program[Len(s) + 1] = RunCall /\ program[Len(s) + 2] = DrainCall
        /\ \A j \in DOMAIN program : j \in 1..Len(s) \/ j = Len(s) + 1 \/ j = Len(s) + 2
    BY <1>2, ProgramShape
  <2>4. QED
    BY <2>1, <2>2, <2>3
<1>3. ASSUME NEW a \in ActorId, NEW t \in Nat, NEW u \in Nat, <<a, t>> \in Windows, t < u,
             program = ThenRunAndDrain(<<Start>> \o Outage(a, t, u))
      PROVE  PlanInv
  <2>1. PICK s : program = ThenRunAndDrain(s) /\ IsOutage(s, a, t, u)
    BY <1>3, OutageEvents
  <2>2. ASSUME NEW event, NEW v, Pending(event, v)
        PROVE  \/ event = StartEvent /\ v = 0
               \/ event = CrashEvent(a) /\ v = t
               \/ event = RecoverEvent(a) /\ v = u
    <3>1. PICK i \in DOMAIN s : s[i].event = event /\ s[i].at_time = v
      BY <1>2, <2>1, <2>2 DEF IsOutage
    <3>2. QED
      BY <2>1, <3>1 DEF IsOutage
  <2>3. Planned(a, t)
    BY <1>3, <2>2 DEF Planned
  <2>4. ASSUME NEW b \in ActorId, NEW v \in Nat, Pending(CrashEvent(b), v)
        PROVE  b = a /\ v = t
    BY <2>2, <2>4, FaultsDiffer, StartDiffers
  <2>5. QED
    BY <1>3, <2>3, <2>4 DEF PlanInv
<1>4. CASE program = WithoutFaults
  <2> DEFINE s == <<Start>>
  <2>1. s \in Seq(Events) /\ DOMAIN s = {1} /\ s[1].event = StartEvent
    <3>1. Start \in Events
      BY EventsEnqueue DEF Start, ExternalEvent
    <3>2. QED
      BY <3>1, Enqueued DEF Start
  <2> HIDE DEF s
  <2>2. program = ThenRunAndDrain(s)
    BY <1>4 DEF WithoutFaults, s
  <2>3. \A a, t : ~Pending(CrashEvent(a), t)
    BY <1>2, <2>1, <2>2, StartDiffers
  <2>4. QED
    BY <2>3 DEF PlanInv
<1>5. CASE program = CoordinatorCrashBeforeDecision
  BY <1>3, <1>5 DEF CoordinatorCrashBeforeDecision, ActorId, Windows
<1>6. CASE program = CoordinatorCrashAfterDecision
  BY <1>3, <1>6 DEF CoordinatorCrashAfterDecision, ActorId, Windows
<1>7. CASE program = ParticipantCrashAfterVoting
  BY <1>3, <1>7 DEF ParticipantCrashAfterVoting, ActorId, Windows
<1>8. QED
  BY <1>1, <1>4, <1>5, <1>6, <1>7 DEF All

\* While an event is pending, nothing but a step moves an actor or a message.
NothingMoves ==
    /\ UNCHANGED actorVars
    /\ queue.entries \subseteq queue'.entries
    /\ \A d \in queue'.entries \ queue.entries : IsExternal(d)
    /\ \A event, u : Pending(event, u)' = Pending(event, u)

LEMMA OnlyStepsMove ==
    ASSUME BaseInv, ScriptInv, [HarnessNext]_harnessVars, ~Step,
           NEW ahead, NEW t, Pending(ahead, t)
    PROVE  NothingMoves
<1>1. ASSUME NEW made \in ExternalEvent, NEW u \in Nat, MakesEnqueue(made, u)
      PROVE  NothingMoves
  <2>1. /\ UNCHANGED actorVars
        /\ queue'.entries = queue.entries \cup {Entry(u, queue.next, made)}
    BY <1>1 DEF MakesEnqueue, EnqueueExternal, Insert
  <2>2. IsExternal(Entry(u, queue.next, made))
    BY DEF IsExternal, Entry, ExternalEvent, StartEvent, TickAllEvent
  <2>3. \A event, v : Pending(event, v)' = Pending(event, v)
    BY <1>1, EnqueueKeepsPending
  <2>4. QED
    BY <2>1, <2>2, <2>3 DEF NothingMoves
<1>2. ASSUME UNCHANGED simulatorVars,
             program' = program \/ (NoEnqueuesLeft(program) /\ NoEnqueuesLeft(program'))
      PROVE  NothingMoves
  <2>1. UNCHANGED actorVars /\ queue' = queue
    BY <1>2 DEF simulatorVars
  <2>2. \A event, u : Pending(event, u)' = Pending(event, u)
    BY <1>2, <2>1 DEF Pending, NoEnqueuesLeft
  <2>3. QED
    BY <2>1, <2>2 DEF NothingMoves
<1>3. CASE MakesOther
  <2>1. NoEnqueuesLeft(program) /\ NoEnqueuesLeft(program')
    BY <1>3, BaseFacts, ScriptedTail DEF MakesOther, ScriptInv
  <2>2. UNCHANGED simulatorVars
    BY <1>3 DEF MakesOther
  <2>3. QED
    BY <1>2, <2>1, <2>2
<1>4. CASE InCall /\ UNCHANGED program
  <2>1. NoEnqueuesLeft(program)
    BY <1>4, InCallMoves DEF ScriptInv
  <2>2. queue.entries # {}
    BY <2>1 DEF Pending, NoEnqueuesLeft
  <2>3. ~InjectProbe
    BY <2>2 DEF InjectProbe, IsEmpty
  <2>4. UNCHANGED simulatorVars
    BY <1>4, <2>3, InCallMoves
  <2>5. program' = program
    BY <1>4
  <2>6. QED
    BY <1>2, <2>4, <2>5
<1>5. CASE UNCHANGED harnessVars
  <2>1. UNCHANGED simulatorVars /\ program' = program
    BY <1>5 DEF harnessVars, drainVars
  <2>2. QED
    BY <1>2, <2>1
<1>6. QED
  BY <1>1, <1>3, <1>4, <1>5, HarnessMoves, BaseFacts

LEMMA PlanPreserved ==
    ASSUME BaseInv, ScriptInv, PlanInv, [HarnessNext]_harnessVars
    PROVE  PlanInv'
<1>1. ASSUME NEW event, event.kind # "Deliver", event # TickAllEvent, NEW u, Pending(event, u)'
      PROVE  Pending(event, u)
  <2>1. CASE Step
    <3>1. PICK e \in queue.entries : Process(e)
      BY <2>1 DEF Step
    <3>2. QED
      BY <1>1, <2>1, <3>1, StepsAreInCalls, StepTakesPending
  <2>2. CASE ~Step
    BY <1>1, <2>2, OthersKeepPending
  <2>3. QED
    BY <2>1, <2>2
<1>2. ASSUME NEW a \in ActorId, NEW t \in Nat, Pending(CrashEvent(a), t)'
      PROVE  <<a, t>> \in Windows /\ Planned(a, t)'
  <2>1. Pending(CrashEvent(a), t)
    BY <1>1, <1>2, FaultsDiffer, TicksDiffer
  <2>2. <<a, t>> \in Windows /\ Planned(a, t)
    BY <2>1 DEF PlanInv
  <2>3. ASSUME NEW event, event.kind # "Deliver", NEW u, Pending(event, u)'
        PROVE  Pending(event, u)
    <3>1. CASE Step
      <4>1. PICK e \in queue.entries : Process(e)
        BY <3>1 DEF Step
      <4>2. QED
        BY <2>3, <3>1, <4>1, StepsAreInCalls, StepTakesPending
    <3>2. CASE ~Step
      BY <2>1, <2>3, <3>2, OnlyStepsMove DEF NothingMoves
    <3>3. QED
      BY <3>1, <3>2
  <2>4. QED
    BY <2>2, <2>3 DEF Planned
<1>3. QED
  BY <1>2 DEF PlanInv

-----------------------------------------------------------------------------
(* The timeline of a scenario, up to its crash *)

\* When m arrives, if the transaction starts at 0 and every message takes 1.
Due(m) ==
    CASE m.type = "Prepare" -> 1
      [] IsVote(m) -> 2
      [] IsDecision(m) -> 3
      [] OTHER -> 4

UnderWay(m) == \E d \in queue.entries : d.event = DeliverEvent(m)

OnTime == \A d \in queue.entries, m \in Message : d.event = DeliverEvent(m) => d.timestamp = Due(m)

PrepareComes(n) == \E m \in Message : m.to = n /\ m.type = "Prepare" /\ UnderWay(m)
VoteComes(n) == \E m \in Message : m.from = n /\ IsVote(m) /\ UnderWay(m)
DecisionComes(n) == \E m \in Message : m.to = n /\ IsDecision(m) /\ UnderWay(m)

\* What the events before time t have made of the actors: all are up, every message
\* is on time, and whoever has not moved on is about to hear why it should.
Timeline(t) ==
    /\ \A a \in ActorId : IsOperating(a)
    /\ OnTime
    /\ coordinator.phase \in {"Waiting", "Voting", "AwaitingAcks"}
    /\ coordinator.phase # "Waiting" =>
          started /\ \A n \in Nodes : participants[n].phase = "Waiting" => PrepareComes(n)
    /\ coordinator.phase = "Voting" =>
          \A n \in AwaitedBy(coordinator) : participants[n].phase = "Waiting" \/ VoteComes(n)
    /\ coordinator.phase = "AwaitingAcks" =>
          /\ AwaitedBy(coordinator) = Nodes
          /\ \A n \in Nodes : participants[n].phase = "Decided" \/ DecisionComes(n)
    /\ coordinator.phase # "AwaitingAcks" => \A m \in Message : IsDecision(m) => ~UnderWay(m)
    /\ t <= 2 => /\ coordinator.phase # "AwaitingAcks"
                 /\ coordinator.phase = "Voting" => AwaitedBy(coordinator) = Nodes
    /\ t <= 3 => \A n \in Nodes : participants[n].phase # "Decided"

\* Nobody is late for the crash.
TimelineInv ==
    \A a \in ActorId, t \in Nat : Pending(CrashEvent(a), t) /\ IsOperating(a) => Timeline(t)

LEMMA DueTimes ==
    ASSUME NEW m \in Message
    PROVE  /\ Due(m) \in 1..4
           /\ m.type = "Prepare" => Due(m) = 1
           /\ IsVote(m) => Due(m) = 2
           /\ IsDecision(m) => Due(m) = 3
           /\ m.type = "Ack" => Due(m) = 4
<1>1. \/ m.type = "Prepare" /\ ~IsVote(m) /\ ~IsDecision(m) /\ m.type # "Ack"
      \/ IsVote(m) /\ m.type # "Prepare" /\ ~IsDecision(m) /\ m.type # "Ack"
      \/ IsDecision(m) /\ m.type # "Prepare" /\ ~IsVote(m) /\ m.type # "Ack"
      \/ m.type = "Ack" /\ m.type # "Prepare" /\ ~IsVote(m) /\ ~IsDecision(m)
  BY MessageEnds DEF IsVote, IsDecision
<1>2. QED
  BY <1>1 DEF Due

\* The mail after a step: what it sends is on time, and the rest has not moved.
LEMMA MailMoves ==
    ASSUME Trip = 1, OnTime, NEW e \in queue.entries, e.timestamp \in Nat,
           NEW sent \in SUBSET Message, \A m \in sent : Due(m) = e.timestamp + 1,
           NEW added, Departed(e, sent, added)
    PROVE  /\ OnTime'
           /\ \A m : UnderWay(m) /\ e.event # DeliverEvent(m) => UnderWay(m)'
           /\ \A m \in sent : UnderWay(m)'
           /\ \A m \in Message : UnderWay(m)' => UnderWay(m) \/ m \in sent
<1>1. queue'.entries = (queue.entries \ {e}) \cup added
  BY DEF Departed
<1>2. ASSUME NEW d \in added, NEW m \in Message, d.event = DeliverEvent(m)
      PROVE  m \in sent /\ d.timestamp = Due(m)
  <2>1. PICK k \in sent : Carries(d, k, e.timestamp)
    BY DEF Departed
  <2>2. k = m
    BY <1>2, <2>1, EventsDiffer DEF Carries
  <2>3. d.timestamp = e.timestamp + 1
    BY <2>1 DEF Carries
  <2>4. QED
    BY <2>2, <2>3
<1>3. OnTime'
  <2> SUFFICES ASSUME NEW d \in queue'.entries, NEW m \in Message, d.event = DeliverEvent(m)
               PROVE  d.timestamp = Due(m)
    BY DEF OnTime
  <2>1. QED
    BY <1>1, <1>2 DEF OnTime
<1>4. \A m : UnderWay(m) /\ e.event # DeliverEvent(m) => UnderWay(m)'
  BY <1>1 DEF UnderWay
<1>5. \A m \in sent : UnderWay(m)'
  BY <1>1 DEF Departed, Carries, UnderWay
<1>6. \A m \in Message : UnderWay(m)' => UnderWay(m) \/ m \in sent
  BY <1>1, <1>2 DEF UnderWay
<1>7. QED
  BY <1>3, <1>4, <1>5, <1>6

\* A delivery takes the message that is due now.
LEMMA DeliveredOnTime ==
    ASSUME OnTime, NEW e \in queue.entries, NEW m \in Message, e.event = DeliverEvent(m)
    PROVE  /\ e.timestamp = Due(m)
           /\ \A k : e.event = DeliverEvent(k) => k = m
BY EventsDiffer DEF OnTime

\* At 0 the coordinator asks everyone.
LEMMA StartStaysOnTime ==
    ASSUME Trip = 1, Inherited, NEW t \in Nat, Timeline(t),
           NEW e \in queue.entries, e.event = StartEvent, e.timestamp = 0, Process(e)
    PROVE  Timeline(t)' /\ status' = status
<1>1. IInv /\ TypeOK /\ coordinator.phase = "Waiting"
  <2>1. IInv /\ TypeOK /\ ~started
    BY BaseFacts, Typed DEF Inherited, BaseInv, QueueOK
  <2>2. QED
    BY <2>1 DEF Timeline
<1>2. \A n \in Nodes : participants[n].phase = "Waiting"
  BY <1>1 DEF Inherited, TPC!Untouched
<1>3. StartTransaction(e)
  BY StartDiffers DEF Process, StartTransaction, Tick, TickInVain, DeliverToCoordinator,
     DeliverToParticipant, Drop, Crash, RecoverInVain, RecoverCoordinator, RecoverParticipant
<1>4. PICK o : CoordinatorActs(e, {StartMessage}, o)
  BY <1>1, <1>3, StartedCoordinator
<1>5. PICK added : Departed(e, o.sent, added)
  BY <1>4 DEF CoordinatorActs
<1>6. /\ started' /\ status' = status /\ participants' = participants
      /\ coordinator' = o.state /\ o.sent \in SUBSET Message
      /\ Rests(coordinator, o) \/ Begins(coordinator, {StartMessage}, o)
  BY <1>1, <1>3, <1>4 DEF CoordinatorActs, StartTransaction, Waits, Finishes, Decides
<1>7. \A m \in o.sent : m.type = "Prepare" /\ Due(m) = 1 /\ ~IsDecision(m)
  <2>1. \A m \in o.sent : m.type = "Prepare"
    BY <1>6 DEF Rests, Begins
  <2>2. QED
    BY <1>6, <2>1, DueTimes DEF IsDecision
<1>8. /\ OnTime'
      /\ \A m \in o.sent : UnderWay(m)'
      /\ \A m \in Message : UnderWay(m)' => UnderWay(m) \/ m \in o.sent
  <2>1. /\ OnTime /\ e.timestamp \in Nat /\ o.sent \in SUBSET Message
        /\ \A m \in o.sent : Due(m) = e.timestamp + 1
    BY <1>6, <1>7 DEF Timeline
  <2>2. QED
    BY <1>5, <2>1, MailMoves
<1>9. /\ \A a \in ActorId : IsOperating(a)'
      /\ t <= 3 => \A n \in Nodes : participants'[n].phase # "Decided"
  BY <1>6 DEF Timeline, IsOperating
<1>10. coordinator'.phase \in {"Waiting", "Voting"}
  BY <1>1, <1>6 DEF Rests, Begins
<1>11. \A m \in Message : IsDecision(m) => ~UnderWay(m)'
  BY <1>1, <1>7, <1>8 DEF Timeline
<1>12. CASE Rests(coordinator, o)
  <2>1. coordinator'.phase = "Waiting"
    BY <1>1, <1>6, <1>12 DEF Rests
  <2>2. QED
    BY <1>6, <1>8, <1>9, <1>11, <2>1 DEF Timeline
<1>13. CASE Begins(coordinator, {StartMessage}, o)
  <2>1. coordinator'.phase = "Voting" /\ AwaitedBy(coordinator') = Nodes
    BY <1>6, <1>13 DEF Begins
  <2>2. ASSUME NEW n \in Nodes PROVE PrepareComes(n)'
    <3>1. PICK m \in o.sent : m.to = n /\ m.type = "Prepare"
      BY <1>13 DEF Begins
    <3>2. m \in Message /\ UnderWay(m)'
      BY <1>6, <1>8, <3>1
    <3>3. QED
      BY <3>1, <3>2 DEF PrepareComes
  <2>3. QED
    BY <1>2, <1>6, <1>8, <1>9, <1>11, <2>1, <2>2 DEF Timeline
<1>14. QED
  BY <1>6, <1>12, <1>13

\* At 2 it hears the votes, and tells everyone the decision as soon as it has one.
LEMMA VotesStayOnTime ==
    ASSUME Trip = 1, Nodes # {}, NEW t \in 2..4, Timeline(t),
           NEW e \in queue.entries, e.timestamp < t, ~Elapsed(e.timestamp),
           NEW m \in Message, e.event = DeliverEvent(m), m.to = CoordinatorId, started => started',
           NEW o, CoordinatorActs(e, {m}, o)
    PROVE  Timeline(t)'
<1>1. /\ IsVote(m) /\ e.timestamp = 2 /\ t > 2
      /\ \A k : e.event = DeliverEvent(k) => k = m
      /\ m.type \notin {"Prepare", "Ack"} /\ ~IsDecision(m) /\ m.from \in Nodes
      /\ StartMessage # m
  <2>1. e.timestamp = Due(m) /\ \A k : e.event = DeliverEvent(k) => k = m
    BY DeliveredOnTime DEF Timeline
  <2>2. m.from \in Nodes /\ (IsVote(m) \/ m.type = "Ack") /\ ~IsDecision(m) /\ m.type # "Prepare"
    BY MessageEnds, CoordinatorIsNoNode
  <2>3. m.type # "Ack"
    BY <2>1, DueTimes
  <2>4. Due(m) = 2
    BY <2>2, <2>3, DueTimes
  <2>5. StartMessage # m
    BY <2>2, CoordinatorIsNoNode DEF StartMessage
  <2>6. QED
    BY <2>1, <2>2, <2>3, <2>4, <2>5
<1>2. PICK added : Departed(e, o.sent, added)
  BY DEF CoordinatorActs
<1>3. /\ coordinator' = o.state /\ status' = status /\ participants' = participants
      /\ o.sent \in SUBSET Message
      /\ \/ Waits(coordinator, FALSE, {m}, o) \/ Finishes(coordinator, FALSE, {m}, o)
         \/ Decides(coordinator, FALSE, {m}, o) \/ Rests(coordinator, o)
  <2>1. Elapsed(e.timestamp) = FALSE
    BY ElapsedTyped
  <2>2. ~Begins(coordinator, {m}, o)
    BY <1>1 DEF Begins
  <2>3. QED
    BY <2>1, <2>2 DEF CoordinatorActs
<1>4. \A k \in o.sent : IsDecision(k) /\ Due(k) = 3
  <2>1. \A k \in o.sent : IsDecision(k)
    BY <1>3 DEF Waits, Finishes, Decides, Rests
  <2>2. QED
    BY <1>3, <2>1, DueTimes
<1>5. /\ OnTime'
      /\ \A k : UnderWay(k) /\ k # m => UnderWay(k)'
      /\ \A k \in o.sent : UnderWay(k)'
      /\ \A k \in Message : UnderWay(k)' => UnderWay(k) \/ k \in o.sent
  <2>1. /\ OnTime /\ e.timestamp \in Nat
        /\ \A k \in o.sent : Due(k) = e.timestamp + 1
    BY <1>1, <1>4 DEF Timeline
  <2>2. QED
    BY <1>1, <1>2, <1>3, <2>1, MailMoves
<1>6. /\ \A a \in ActorId : IsOperating(a)'
      /\ t <= 3 => \A n \in Nodes : participants'[n].phase # "Decided"
  BY <1>3 DEF Timeline, IsOperating
<1>7. /\ \A n \in Nodes : PrepareComes(n) => PrepareComes(n)'
      /\ \A n \in Nodes \ {m.from} : VoteComes(n) => VoteComes(n)'
      /\ \A n \in Nodes : DecisionComes(n) => DecisionComes(n)'
  BY <1>1, <1>5 DEF PrepareComes, VoteComes, DecisionComes
<1>8. coordinator.phase # "Waiting" =>
         started' /\ \A n \in Nodes : participants'[n].phase = "Waiting" => PrepareComes(n)'
  BY <1>3, <1>7 DEF Timeline
<1>9. CASE coordinator.phase = "Waiting"
  <2>1. coordinator' = coordinator /\ o.sent = {}
    BY <1>3, <1>9 DEF Waits, Finishes, Decides, Rests
  <2>2. \A k \in Message : IsDecision(k) => ~UnderWay(k)'
    BY <1>5, <1>9, <2>1 DEF Timeline
  <2>3. QED
    BY <1>5, <1>6, <1>9, <2>1, <2>2 DEF Timeline
<1>10. CASE coordinator.phase = "AwaitingAcks"
  <2>1. AwaitedBy(coordinator) = Nodes /\ Heard(coordinator, {m}) = {}
    BY <1>1, <1>10 DEF Timeline, Heard, ConcernsPhase
  <2>2. Waits(coordinator, FALSE, {m}, o)
    BY <1>3, <1>10, <2>1 DEF Finishes, Decides, Rests
  <2>3. coordinator'.phase = "AwaitingAcks" /\ AwaitedBy(coordinator') = Nodes
    BY <1>3, <1>10, <2>1, <2>2 DEF Waits
  <2>4. \A n \in Nodes : participants'[n].phase = "Decided" \/ DecisionComes(n)'
    BY <1>3, <1>7, <1>10 DEF Timeline
  <2>5. QED
    BY <1>1, <1>5, <1>6, <1>8, <1>10, <2>3, <2>4 DEF Timeline
<1>11. CASE coordinator.phase = "Voting"
  <2>1. CASE Decides(coordinator, FALSE, {m}, o)
    <3>1. coordinator'.phase = "AwaitingAcks" /\ AwaitedBy(coordinator') = Nodes
      <4>1. AwaitedBy(o.state) = Nodes
        BY <1>1, <2>1 DEF Decides, AwaitedBy
      <4>2. o.state.phase = "AwaitingAcks"
        BY <2>1, <4>1 DEF Decides, AwaitedBy
      <4>3. QED
        BY <1>3, <4>1, <4>2
    <3>2. ASSUME NEW n \in Nodes PROVE DecisionComes(n)'
      <4>1. PICK k \in o.sent : k.to = n /\ IsDecision(k)
        BY <2>1 DEF Decides
      <4>2. k \in Message /\ UnderWay(k)'
        BY <1>3, <1>5, <4>1
      <4>3. QED
        BY <4>1, <4>2 DEF DecisionComes
    <3>3. QED
      BY <1>1, <1>5, <1>6, <1>8, <1>11, <3>1, <3>2 DEF Timeline
  <2>2. CASE Waits(coordinator, FALSE, {m}, o)
    <3>1. coordinator'.phase = "Voting" /\ o.sent = {}
      BY <1>3, <1>11, <2>2 DEF Waits
    <3>2. AwaitedBy(coordinator') \subseteq AwaitedBy(coordinator) \ {m.from}
      <4>1. m.from \in Heard(coordinator, {m})
        BY <1>1, <1>11 DEF Heard, ConcernsPhase
      <4>2. QED
        BY <1>3, <2>2, <4>1 DEF Waits
    <3>3. \A n \in AwaitedBy(coordinator') : participants'[n].phase = "Waiting" \/ VoteComes(n)'
      <4>1. AwaitedBy(coordinator) \subseteq Nodes
        BY DEF AwaitedBy
      <4>2. QED
        BY <1>3, <1>7, <1>11, <3>2, <4>1 DEF Timeline
    <3>4. \A k \in Message : IsDecision(k) => ~UnderWay(k)'
      BY <1>5, <1>11, <3>1 DEF Timeline
    <3>5. QED
      BY <1>1, <1>5, <1>6, <1>8, <1>11, <3>1, <3>3, <3>4 DEF Timeline
  <2>3. QED
    BY <1>3, <1>11, <2>1, <2>2 DEF Finishes, Rests
<1>12. QED
  BY <1>9, <1>10, <1>11 DEF Timeline

\* At 1 a participant votes, and at 3 it learns the decision.
LEMMA RequestsStayOnTime ==
    ASSUME Trip = 1, Inherited, NEW t \in 2..4, Timeline(t),
           NEW e \in queue.entries, e.timestamp < t,
           NEW m \in Message, e.event = DeliverEvent(m), m.to \in Nodes, ParticipantActs(e, m)
    PROVE  Timeline(t)'
<1>1. /\ e.timestamp = Due(m) /\ \A k : e.event = DeliverEvent(k) => k = m
      /\ m.from = CoordinatorId /\ m.from \notin Nodes /\ ~IsVote(m)
      /\ \/ m.type = "Prepare" /\ ~IsDecision(m) /\ e.timestamp = 1
         \/ IsDecision(m) /\ m.type # "Prepare" /\ e.timestamp = 3 /\ t > 3
  <2>1. e.timestamp = Due(m) /\ \A k : e.event = DeliverEvent(k) => k = m
    BY DeliveredOnTime DEF Timeline
  <2>2. /\ m.from = CoordinatorId /\ m.from \notin Nodes /\ ~IsVote(m)
        /\ m.type = "Prepare" \/ IsDecision(m)
    BY MessageEnds, CoordinatorIsNoNode
  <2>3. ~(m.type = "Prepare" /\ IsDecision(m))
    BY DEF IsDecision
  <2>4. QED
    BY <2>1, <2>2, <2>3, DueTimes
<1> DEFINE p == participants[m.to]
           q == participants'[m.to]
<1>2. PICK sent, added : Answers(p, m, sent) /\ Departed(e, sent, added)
  BY DEF ParticipantActs
<1>3. /\ coordinator' = coordinator /\ status' = status /\ started' = started
      /\ q.phase = PhaseAfter(p.phase, m)
      /\ \A n \in Nodes \ {m.to} : participants'[n] = participants[n]
  BY DEF ParticipantActs
<1> HIDE DEF p, q
<1>4. /\ sent \in SUBSET Message
      /\ \A k \in sent : k.from = m.to /\ ~IsDecision(k) /\ Due(k) = e.timestamp + 1
  <2>1. /\ sent \in SUBSET Message /\ \A k \in sent : k.from = m.to
        /\ m.type = "Prepare" => \A k \in sent : IsVote(k)
        /\ IsDecision(m) => \A k \in sent : k.type = "Ack"
    BY <1>2 DEF Answers
  <2>2. \A k \in sent : IsVote(k) \/ k.type = "Ack" => ~IsDecision(k)
    BY DEF IsVote, IsDecision
  <2>3. QED
    BY <1>1, <2>1, <2>2, DueTimes
<1>5. /\ OnTime'
      /\ \A k : UnderWay(k) /\ k # m => UnderWay(k)'
      /\ \A k \in sent : UnderWay(k)'
      /\ \A k \in Message : UnderWay(k)' => UnderWay(k) \/ k \in sent
  <2>1. OnTime /\ e.timestamp \in Nat
    BY <1>1 DEF Timeline
  <2>2. QED
    BY <1>1, <1>2, <1>4, <2>1, MailMoves
<1>6. /\ \A n \in Nodes \ {m.to} : PrepareComes(n) => PrepareComes(n)'
      /\ \A n \in Nodes : VoteComes(n) => VoteComes(n)'
      /\ \A n \in Nodes \ {m.to} : DecisionComes(n) => DecisionComes(n)'
      /\ ~IsDecision(m) => \A n \in Nodes : DecisionComes(n) => DecisionComes(n)'
  BY <1>1, <1>5 DEF PrepareComes, VoteComes, DecisionComes
<1>7. \A a \in ActorId : IsOperating(a)'
  BY <1>3 DEF Timeline, IsOperating
<1>8. q.phase # "Waiting"
  BY <1>1, <1>3 DEF PhaseAfter
<1>9. coordinator'.phase # "Waiting" =>
         started' /\ \A n \in Nodes : participants'[n].phase = "Waiting" => PrepareComes(n)'
  BY <1>3, <1>6, <1>8 DEF Timeline, q
<1>10. coordinator'.phase = "Voting" =>
          \A n \in AwaitedBy(coordinator') : participants'[n].phase = "Waiting" \/ VoteComes(n)'
  <2> SUFFICES ASSUME coordinator.phase = "Voting", NEW n \in AwaitedBy(coordinator)
               PROVE  participants'[n].phase = "Waiting" \/ VoteComes(n)'
    BY <1>3
  <2>1. n \in Nodes /\ (participants[n].phase = "Waiting" \/ VoteComes(n))
    BY DEF Timeline, AwaitedBy
  <2>2. CASE VoteComes(n) \/ n # m.to
    BY <1>3, <1>6, <2>1, <2>2
  <2>3. CASE n = m.to
    <3>1. UnderWay(m) /\ m \in Message
      BY DEF UnderWay
    <3>2. m.type = "Prepare"
      BY <1>1, <3>1 DEF Timeline
    <3>3. p.phase # "Decided"
      BY UndecidedWhileVoting DEF p
    <3>4. PICK k \in sent : IsVote(k)
      BY <1>2, <3>2, <3>3 DEF Answers
    <3>5. k \in Message /\ k.from = n /\ UnderWay(k)'
      BY <1>4, <1>5, <2>3, <3>4
    <3>6. QED
      BY <3>4, <3>5 DEF VoteComes
  <2>4. QED
    BY <2>2, <2>3
<1>11. coordinator'.phase = "AwaitingAcks" =>
          /\ AwaitedBy(coordinator') = Nodes
          /\ \A n \in Nodes : participants'[n].phase = "Decided" \/ DecisionComes(n)'
  <2> SUFFICES ASSUME coordinator.phase = "AwaitingAcks", NEW n \in Nodes
               PROVE  participants'[n].phase = "Decided" \/ DecisionComes(n)'
    BY <1>3 DEF Timeline
  <2>1. participants[n].phase = "Decided" \/ DecisionComes(n)
    BY DEF Timeline
  <2>2. CASE n # m.to
    BY <1>3, <1>6, <2>1, <2>2
  <2>3. CASE n = m.to /\ IsDecision(m)
    BY <1>3, <2>3 DEF PhaseAfter, q
  <2>4. CASE n = m.to /\ ~IsDecision(m)
    <3>1. p.phase = "Decided" => q.phase = "Decided"
      BY <1>3, <2>4 DEF PhaseAfter
    <3>2. QED
      BY <1>6, <2>1, <2>4, <3>1 DEF p, q
  <2>5. QED
    BY <2>2, <2>3, <2>4
<1>12. coordinator'.phase # "AwaitingAcks" =>
          \A k \in Message : IsDecision(k) => ~UnderWay(k)'
  BY <1>3, <1>4, <1>5 DEF Timeline
<1>13. t <= 3 => \A n \in Nodes : participants'[n].phase # "Decided"
  <2> SUFFICES ASSUME t <= 3, NEW n \in Nodes PROVE participants'[n].phase # "Decided"
    OBVIOUS
  <2>1. participants[n].phase # "Decided"
    BY DEF Timeline
  <2>2. ~IsDecision(m)
    BY <1>1
  <2>3. p.phase # "Decided" => q.phase # "Decided"
    BY <1>3, <2>2 DEF PhaseAfter
  <2>4. QED
    BY <1>3, <2>1, <2>3 DEF p, q
<1>14. /\ coordinator'.phase \in {"Waiting", "Voting", "AwaitingAcks"}
       /\ t <= 2 => /\ coordinator'.phase # "AwaitingAcks"
                    /\ coordinator'.phase = "Voting" => AwaitedBy(coordinator') = Nodes
  BY <1>3 DEF Timeline
<1>15. QED
  BY <1>5, <1>7, <1>9, <1>10, <1>11, <1>12, <1>13, <1>14 DEF Timeline

\* What the pending crash says of an entry that is taken before it.
LEMMA BeforeTheCrash ==
    ASSUME Inherited, ScriptInv, PlanInv, NEW a \in ActorId, NEW t \in Nat,
           Pending(CrashEvent(a), t), NoEnqueuesLeft(program),
           NEW e \in queue.entries, IsEarliest(queue, e)
    PROVE  /\ t \in 2..4 /\ <<a, t>> \in Windows /\ e.timestamp <= t
           /\ \/ e.event = StartEvent /\ e.timestamp = 0
              \/ e.event = CrashEvent(a) /\ e.timestamp = t
              \/ \E m \in Message : e.event = DeliverEvent(m) /\ e.timestamp < t
<1>1. <<a, t>> \in Windows /\ Planned(a, t)
  BY DEF PlanInv
<1>2. t \in 2..4
  BY <1>1 DEF Windows
<1>3. PICK d \in queue.entries : d.event = CrashEvent(a) /\ d.timestamp = t
  BY DEF Pending, NoEnqueuesLeft
<1>4. /\ e.timestamp \in Nat /\ e.sequence \in Nat /\ d.sequence \in Nat
      /\ e = d \/ Precedes(e, d)
  BY BaseFacts DEF Inherited, IsEarliest
<1>5. e.timestamp <= t
  BY <1>3, <1>4 DEF Precedes
<1>6. CASE IsExternal(e)
  <2>1. e.event.kind # "Deliver" /\ Pending(e.event, e.timestamp)
    BY <1>6 DEF IsExternal, Pending
  <2>2. \/ e.event = StartEvent /\ e.timestamp = 0
        \/ e.event = CrashEvent(a) /\ e.timestamp = t
        \/ e.event = RecoverEvent(a) /\ e.timestamp > t
    BY <1>1, <2>1 DEF Planned
  <2>3. QED
    BY <1>1, <1>2, <1>4, <1>5, <2>2
<1>7. CASE ~IsExternal(e)
  <2>1. e.event.message \in Message /\ e.event = DeliverEvent(e.event.message)
    BY <1>7, EntryCarries DEF Inherited, BaseInv
  <2>2. IsExternal(d)
    BY <1>3, FaultsDiffer DEF IsExternal
  <2>3. d.sequence < e.sequence /\ e # d
    BY <1>7, <2>2 DEF ScriptInv
  <2>4. e.timestamp < t
    BY <1>2, <1>3, <1>4, <2>3 DEF Precedes
  <2>5. QED
    BY <1>1, <1>2, <1>5, <2>1, <2>4
<1>8. QED
  BY <1>6, <1>7

LEMMA StepKeepsTimeline ==
    ASSUME Delays = {0}, Nodes # {}, RetransmitTimeout >= 5,
           Inherited, ScriptInv, PlanInv, TimelineInv, [HarnessNext]_harnessVars, Step,
           NEW a \in ActorId, NEW t \in Nat, Pending(CrashEvent(a), t), IsOperating(a)'
    PROVE  Timeline(t)'
<1>1. PICK e \in queue.entries : IsEarliest(queue, e) /\ Process(e)
  BY DEF Step
<1>2. /\ BaseInv /\ IInv /\ TypeOK /\ e.timestamp \in Nat /\ lastSend \in Nat
      /\ NoEnqueuesLeft(program) /\ program \in Seq(Call)
  BY BaseFacts, StepsAreInCalls DEF Inherited, BaseInv
<1>3. /\ t \in 2..4 /\ e.timestamp <= t
      /\ \/ e.event = StartEvent /\ e.timestamp = 0
         \/ e.event = CrashEvent(a) /\ e.timestamp = t
         \/ \E m \in Message : e.event = DeliverEvent(m) /\ e.timestamp < t
  BY <1>1, <1>2, BeforeTheCrash
<1>4. Trip = 1
  <2>1. Delays \subseteq 0..0
    OBVIOUS
  <2>2. QED
    BY <2>1, TripOfDelays, TripTyped
<1>5. ~Elapsed(e.timestamp)
  <2>1. RetransmitTimeout > 0 /\ e.timestamp <= 4
    BY <1>2, <1>3, RetransmitTimeoutAssumption
  <2>2. QED
    BY <1>2, <2>1, ElapsedMeans, RetransmitTimeoutAssumption
<1>6. CASE e.event = StartEvent /\ e.timestamp = 0
  <2>1. IsOperating(a)
    <3>1. StartTransaction(e)
      BY <1>1, <1>6, StartDiffers DEF Process, StartTransaction, Tick, TickInVain,
         DeliverToCoordinator, DeliverToParticipant, Drop, Crash, RecoverInVain,
         RecoverCoordinator, RecoverParticipant
    <3>2. status' = status
      BY <3>1 DEF StartTransaction, CoordinatorReturns
    <3>3. QED
      BY <3>2 DEF IsOperating
  <2>2. Timeline(t)
    BY <2>1 DEF TimelineInv
  <2>3. QED
    BY <1>1, <1>4, <1>6, <2>2, StartStaysOnTime
<1>7. CASE e.event = CrashEvent(a)
  <2>1. Crash(e, a)
    <3>1. /\ e.event # StartEvent /\ e.event # TickAllEvent
          /\ \A b : /\ e.event # TickEvent(b) /\ e.event # DeliverEvent(b)
                   /\ e.event # RecoverEvent(b)
      BY <1>7 DEF StartEvent, TickAllEvent, TickEvent, DeliverEvent, CrashEvent, RecoverEvent
    <3>2. \E b \in ActorId : Crash(e, b)
      BY <1>1, <3>1 DEF Process, StartTransaction, Tick, TickInVain, DeliverToCoordinator,
         DeliverToParticipant, Drop, RecoverInVain, RecoverCoordinator, RecoverParticipant
    <3>3. QED
      BY <1>7, <3>2, FaultsDiffer DEF Crash
  <2>2. ~IsOperating(a)'
    BY <1>2, <2>1, Typed DEF Crash, IsOperating
  <2>3. QED
    BY <2>2
<1>8. ASSUME NEW m \in Message, e.event = DeliverEvent(m), e.timestamp < t
      PROVE  Timeline(t)'
  <2>1. \/ m.to = CoordinatorId /\ IsOperating(CoordinatorId) /\ \E o : CoordinatorActs(e, {m}, o)
        \/ m.to \in Nodes /\ IsOperating(m.to) /\ ParticipantActs(e, m)
        \/ ~IsOperating(m.to) /\ IsLost(e)
    BY <1>1, <1>2, <1>8, DeliveryMoves
  <2>2. status' = status
    BY <2>1 DEF CoordinatorActs, ParticipantActs, IsLost, actorVars
  <2>3. Timeline(t)
    BY <2>2 DEF TimelineInv, IsOperating
  <2>4. IsOperating(m.to)
    <3>1. m.to \in ActorId
      BY DEF Message, ActorId
    <3>2. QED
      BY <2>3, <3>1 DEF Timeline
  <2>5. started => started'
    BY <1>2, StartIsKept
  <2>6. QED
    BY <1>3, <1>4, <1>5, <1>8, <2>1, <2>3, <2>4, <2>5, VotesStayOnTime, RequestsStayOnTime
<1>9. QED
  BY <1>3, <1>6, <1>7, <1>8

LEMMA RestKeepsTimeline ==
    ASSUME NothingMoves, NEW t, Timeline(t)
    PROVE  Timeline(t)'
<1>1. /\ coordinator' = coordinator /\ participants' = participants /\ status' = status
      /\ started' = started
      /\ queue.entries \subseteq queue'.entries
      /\ \A d \in queue'.entries \ queue.entries : IsExternal(d)
  BY DEF NothingMoves, actorVars
<1>2. \A m : UnderWay(m)' = UnderWay(m)
  <2>1. \A m : \A d \in queue'.entries : d.event = DeliverEvent(m) => d \in queue.entries
    BY <1>1, CarriedBy
  <2>2. QED
    BY <1>1, <2>1 DEF UnderWay
<1>3. OnTime => OnTime'
  BY <1>1, CarriedBy DEF OnTime
<1>4. \A n : /\ PrepareComes(n) => PrepareComes(n)'
             /\ VoteComes(n) => VoteComes(n)'
             /\ DecisionComes(n) => DecisionComes(n)'
  BY <1>2 DEF PrepareComes, VoteComes, DecisionComes
<1>5. /\ \A a \in ActorId : IsOperating(a)'
      /\ \A m \in Message : IsDecision(m) /\ coordinator.phase # "AwaitingAcks" => ~UnderWay(m)'
  BY <1>1, <1>2 DEF Timeline, IsOperating
<1>6. AwaitedBy(coordinator) \subseteq Nodes
  BY DEF AwaitedBy
<1>7. QED
  BY <1>1, <1>3, <1>4, <1>5, <1>6 DEF Timeline

LEMMA TimelinePreserved ==
    ASSUME Delays = {0}, Nodes # {}, RetransmitTimeout >= 5,
           Inherited, ScriptInv, PlanInv, TimelineInv, [HarnessNext]_harnessVars
    PROVE  TimelineInv'
<1> SUFFICES ASSUME NEW a \in ActorId, NEW t \in Nat, Pending(CrashEvent(a), t)', IsOperating(a)'
             PROVE  Timeline(t)'
  BY DEF TimelineInv
<1>1. Pending(CrashEvent(a), t)
  <2>1. CASE Step
    <3>1. PICK e \in queue.entries : Process(e)
      BY <2>1 DEF Step
    <3>2. QED
      BY <2>1, <3>1, StepsAreInCalls, StepTakesPending, FaultsDiffer DEF Inherited
  <2>2. CASE ~Step
    BY <2>2, OthersKeepPending, FaultsDiffer, TicksDiffer DEF Inherited
  <2>3. QED
    BY <2>1, <2>2
<1>2. CASE Step
  BY <1>1, <1>2, StepKeepsTimeline
<1>3. CASE ~Step
  <2>1. NothingMoves
    BY <1>1, <1>3, OnlyStepsMove DEF Inherited
  <2>2. IsOperating(a)
    BY <2>1 DEF NothingMoves, actorVars, IsOperating
  <2>3. QED
    BY <1>1, <2>1, <2>2, RestKeepsTimeline DEF TimelineInv
<1>4. QED
  BY <1>2, <1>3

LEMMA TimelineAtFirst == HarnessInit => TimelineInv
<1> SUFFICES ASSUME HarnessInit, NEW t \in Nat PROVE Timeline(t)
  BY DEF TimelineInv
<1>1. /\ queue.entries = {} /\ coordinator.phase = "Waiting"
      /\ \A n \in Nodes : participants[n].phase = "Waiting"
      /\ \A a \in ActorId : IsOperating(a)
  BY DEF HarnessInit, DrainInit, Init, NewQueue, NewCoordinator, NewParticipant, IsOperating
<1>2. OnTime /\ \A m : ~UnderWay(m)
  BY <1>1 DEF OnTime, UnderWay
<1>3. QED
  BY <1>1, <1>2 DEF Timeline

\* What a crash finds that comes in time: the messages that were due are gone.
LEMMA CrashFinds ==
    ASSUME Nodes # {}, Inherited, StartInv, PlanInv, TimelineInv, NoEnqueuesLeft(program),
           NEW a \in ActorId, IsOperating(a),
           NEW e \in queue.entries, IsEarliest(queue, e), e.event = CrashEvent(a)
    PROVE  LET t == e.timestamp
           IN  /\ t \in Nat /\ <<a, t>> \in Windows /\ Timeline(t)
               /\ coordinator.phase # "Waiting"
               /\ t > 1 => \A n \in Nodes : participants[n].phase # "Waiting"
               /\ t > 2 => coordinator.phase = "AwaitingAcks"
               /\ t > 3 => \A n \in Nodes : participants[n].phase = "Decided"
<1>1. /\ e.timestamp \in Nat
      /\ \A d \in queue.entries : d.timestamp \in Nat /\ e.timestamp <= d.timestamp
  <2>1. \A d \in queue.entries : d.timestamp \in Nat /\ d.sequence \in Nat
    BY BaseFacts DEF Inherited
  <2>2. \A d \in queue.entries : d = e \/ Precedes(e, d)
    BY DEF IsEarliest
  <2>3. QED
    BY <2>1, <2>2 DEF Precedes
<1>2. Pending(CrashEvent(a), e.timestamp)
  BY DEF Pending
<1>3. PICK t \in Nat : t = e.timestamp
  BY <1>1
<1>4. <<a, t>> \in Windows /\ Planned(a, t) /\ Timeline(t)
  BY <1>2, <1>3 DEF PlanInv, TimelineInv
<1>5. \A m \in Message : UnderWay(m) => t <= Due(m)
  BY <1>1, <1>3, <1>4 DEF UnderWay, Timeline, OnTime
<1>6. coordinator.phase # "Waiting"
  <2>1. t > 0
    BY <1>4 DEF Windows
  <2>2. started
    <3>1. ASSUME NEW u, Pending(StartEvent, u) PROVE FALSE
      <4>1. u = 0
        BY <1>4, <3>1, StartDiffers DEF Planned
      <4>2. PICK d \in queue.entries : d.timestamp = u
        BY <3>1 DEF Pending, NoEnqueuesLeft
      <4>3. QED
        BY <1>1, <1>3, <2>1, <4>1, <4>2
    <3>2. QED
      BY <3>1 DEF StartInv
  <2>3. TPC!IInv
    BY BaseFacts DEF Inherited, IInv
  <2>4. QED
    BY <2>2, <2>3 DEF TPC!IInv, TPC!StartedIsUnderWay
<1>7. t > 1 => \A n \in Nodes : participants[n].phase # "Waiting"
  <2> SUFFICES ASSUME t > 1, NEW n \in Nodes, participants[n].phase = "Waiting" PROVE FALSE
    OBVIOUS
  <2>1. PICK m \in Message : m.type = "Prepare" /\ UnderWay(m)
    BY <1>4, <1>6 DEF Timeline, PrepareComes
  <2>2. QED
    BY <1>5, <2>1, DueTimes
<1>8. t > 2 => coordinator.phase = "AwaitingAcks"
  <2> SUFFICES ASSUME t > 2, coordinator.phase = "Voting" PROVE FALSE
    BY <1>4, <1>6 DEF Timeline
  <2>1. PICK n \in Nodes : n \in AwaitedBy(coordinator)
    BY DEF Inherited, TPC!AwaitsSomeone, TPC!None, None, AwaitedBy
  <2>2. participants[n].phase # "Waiting"
    BY <1>7
  <2>3. PICK m \in Message : IsVote(m) /\ UnderWay(m)
    BY <1>4, <2>1, <2>2 DEF Timeline, VoteComes
  <2>4. QED
    BY <1>5, <2>3, DueTimes
<1>9. t > 3 => \A n \in Nodes : participants[n].phase = "Decided"
  <2> SUFFICES ASSUME t > 3, NEW n \in Nodes, participants[n].phase # "Decided" PROVE FALSE
    OBVIOUS
  <2>1. PICK m \in Message : IsDecision(m) /\ UnderWay(m)
    BY <1>4, <1>8 DEF Timeline, DecisionComes
  <2>2. QED
    BY <1>5, <2>1, DueTimes
<1>10. QED
  BY <1>3, <1>4, <1>6, <1>7, <1>8, <1>9

\* The crash of a lands where its scenario wants it, at time now.
InWindow(a, now) ==
    \/ /\ a = CoordinatorId /\ now = 2
       /\ coordinator.phase = "Voting"
       /\ \A n \in Nodes : coordinator.votes[n] = None /\ participants[n].durableVote # None
    \/ /\ a = CoordinatorId /\ now = 4
       /\ coordinator.phase = "AwaitingAcks" /\ coordinator.acks = {}
       /\ \A n \in Nodes : participants[n].phase = "Decided"
    \/ /\ a = 0 /\ now = 3
       /\ participants[0].phase = "Voted" /\ coordinator.durable # None

LEMMA CrashIsInWindow ==
    ASSUME 0 \in Nodes, Inherited, StartInv, PlanInv, TimelineInv, NoEnqueuesLeft(program),
           NEW a \in ActorId, IsOperating(a),
           NEW e \in queue.entries, IsEarliest(queue, e), e.event = CrashEvent(a)
    PROVE  InWindow(a, e.timestamp)
<1>1. PICK t \in Nat : t = e.timestamp
  BY BaseFacts DEF Inherited
<1>2. /\ <<a, t>> \in Windows /\ Timeline(t)
      /\ coordinator.phase # "Waiting"
      /\ t > 1 => \A n \in Nodes : participants[n].phase # "Waiting"
      /\ t > 2 => coordinator.phase = "AwaitingAcks"
      /\ t > 3 => \A n \in Nodes : participants[n].phase = "Decided"
  BY <1>1, CrashFinds
<1>3. TPC!IInv /\ coordinator \in CoordinatorState
      /\ \A n \in Nodes : participants[n] \in ParticipantState
  BY DEF Inherited, BaseInv, HarnessInv, IInv, TypeOK
<1>4. CASE a = CoordinatorId /\ t = 2
  <2>1. coordinator.phase = "Voting" /\ AwaitedBy(coordinator) = Nodes
    BY <1>2, <1>4 DEF Timeline
  <2>2. ASSUME NEW n \in Nodes PROVE coordinator.votes[n] = None
    BY <2>1 DEF AwaitedBy
  <2>3. ASSUME NEW n \in Nodes PROVE participants[n].durableVote # None
    <3>1. participants[n].phase \notin {"Waiting", "Decided"}
      BY <1>2, <1>4 DEF Timeline
    <3>2. ParticipantRecover(participants[n]) = participants[n]
      BY <1>3, SameParticipant DEF TPC!IInv, TPC!CrashLosesNoVote
    <3>3. QED
      BY <1>3, <3>1, <3>2 DEF ParticipantRecover, ParticipantState
  <2>4. QED
    BY <1>1, <1>4, <2>1, <2>2, <2>3 DEF InWindow
<1>5. CASE a = CoordinatorId /\ t = 4
  <2>1. coordinator.phase = "AwaitingAcks" /\ AwaitedBy(coordinator) = Nodes
    BY <1>2, <1>5 DEF Timeline
  <2>2. coordinator.acks = {}
    BY <1>3, <2>1 DEF AwaitedBy, CoordinatorState
  <2>3. QED
    BY <1>1, <1>2, <1>5, <2>1, <2>2 DEF InWindow
<1>6. CASE a = 0 /\ t = 3
  <2>1. coordinator.phase = "AwaitingAcks"
    BY <1>2, <1>6
  <2>2. coordinator.durable # None
    BY <1>3, <2>1 DEF TPC!IInv, TPC!PhaseMatchesDurable, TPC!None, None
  <2>3. participants[0].phase = "Voted"
    BY <1>2, <1>3, <1>6 DEF Timeline, ParticipantState, ParticipantPhase
  <2>4. QED
    BY <1>1, <1>6, <2>2, <2>3 DEF InWindow
<1>7. QED
  BY <1>2, <1>4, <1>5, <1>6 DEF Windows

\* The scenarios put their crashes where they say: after the votes are cast and
\* before one arrives, after all have decided and before an Ack arrives, after
\* participant 0 has voted and before it hears the decision. With any number of
\* participants, whatever they vote and whether the coordinator aborts or not; it
\* takes a network without delays and a timeout of the 5 the scenarios have or more.
THEOREM CrashesHitWindows ==
    ASSUME Programs = All, 0 \in Nodes, Delays = {0}, RetransmitTimeout >= 5
    PROVE  HarnessSpec => CrashesHitTheirWindow
<1>1. \A p \in Programs : Scripted(p) /\ Starts(p)
  BY ScenariosArePatient DEF Orderly
<1>2. HarnessInit => PlanInv /\ TimelineInv /\ StartInv
  <2>1. HarnessInit => StartInv
    BY <1>1 DEF HarnessInit, Starts, StartInv, Pending
  <2>2. QED
    BY <2>1, PlanAtFirst, TimelineAtFirst
<1> DEFINE I == PlanInv /\ TimelineInv /\ StartInv
<1>3. Inherited /\ ScriptInv /\ I /\ [HarnessNext]_harnessVars => I'
  <2>1. Inherited => BaseInv
    BY DEF Inherited
  <2>2. QED
    BY <2>1, PlanPreserved, TimelinePreserved, StartPreserved
<1> DEFINE Hits(a) ==
              CASE a = CoordinatorId /\ clock' = 2 ->
                      /\ coordinator.phase = "Voting"
                      /\ \A n \in Nodes :
                            coordinator.votes[n] = None /\ participants[n].durableVote # None
                [] a = CoordinatorId /\ clock' = 4 ->
                      /\ coordinator.phase = "AwaitingAcks"
                      /\ coordinator.acks = {}
                      /\ \A n \in Nodes : participants[n].phase = "Decided"
                [] a = 0 /\ clock' = 3 ->
                      /\ participants[0].phase = "Voted"
                      /\ coordinator.durable # None
<1>4. Inherited /\ ScriptInv /\ I /\ [HarnessNext]_harnessVars =>
        [\A a \in ActorId :
            status[a] = "Operating" /\ status'[a] = "Crashed" => Hits(a)]_harnessVars
  <2> SUFFICES ASSUME Inherited, ScriptInv, I, [HarnessNext]_harnessVars,
                      NEW a \in ActorId, status[a] = "Operating", status'[a] = "Crashed"
               PROVE  Hits(a)
    OBVIOUS
  <2>1. IsOperating(a) /\ ~IsOperating(a)'
    BY DEF IsOperating
  <2>2. Step
    <3>1. CASE ~Step
      <4>1. UNCHANGED actorVars
        BY <3>1, StartDiffers, OthersKeepPending DEF Inherited
      <4>2. QED
        BY <2>1, <4>1 DEF actorVars, IsOperating
    <3>2. QED
      BY <3>1
  <2>3. PICK e \in queue.entries : IsEarliest(queue, e) /\ clock' = e.timestamp /\ Process(e)
    BY <2>2 DEF Step
  <2>4. e.event = CrashEvent(a)
    BY <2>1, <2>3, StatusMoves, BaseFacts DEF Inherited
  <2>5. NoEnqueuesLeft(program)
    BY <2>2, StepsAreInCalls DEF Inherited
  <2>6. InWindow(a, clock')
    BY <2>1, <2>3, <2>4, <2>5, CrashIsInWindow
  <2>7. 0 # CoordinatorId
    BY CoordinatorIsNoNode
  <2>8. CASE a = CoordinatorId /\ clock' = 2
    BY <2>6, <2>7, <2>8 DEF InWindow
  <2>9. CASE a = CoordinatorId /\ clock' = 4
    BY <2>6, <2>7, <2>9 DEF InWindow
  <2>10. CASE a = 0 /\ clock' = 3
    BY <2>6, <2>7, <2>10 DEF InWindow
  <2>11. QED
    BY <2>6, <2>8, <2>9, <2>10 DEF InWindow
<1> HIDE DEF I
<1>5. HarnessSpec => [](BaseInv /\ ScriptInv)
  BY <1>1, ScriptInvHolds
<1>6. HarnessInit => I
  BY <1>2 DEF I
<1>7. QED
  BY <1>3, <1>4, <1>5, <1>6, InheritedHolds, PTL DEF HarnessSpec, CrashesHitTheirWindow
=============================================================================
