----------------------------- MODULE StableQueue -----------------------------
(***************************************************************************)
(* What the event queue promises: events leave in the order of their       *)
(* times, and those of one time in the order in which they came, as if     *)
(* each time had a lane of its own.                                        *)
(***************************************************************************)
EXTENDS Naturals, Sequences

CONSTANTS Times, Events

VARIABLES
    lanes,   \* lanes[t]: the events due at t, first come first
    taken    \* what the last `next' returned

laneVars == <<lanes, taken>>

Nothing == <<>>

Init ==
    /\ lanes = [t \in Times |-> <<>>]
    /\ taken = Nothing

Put(t, event) ==
    /\ lanes' = [lanes EXCEPT ![t] = Append(@, event)]
    /\ UNCHANGED taken

Take(t) ==
    /\ lanes[t] # <<>>
    /\ \A u \in Times : u < t => lanes[u] = <<>>
    /\ lanes' = [lanes EXCEPT ![t] = Tail(@)]
    /\ taken' = <<t, Head(lanes[t])>>

TakeNothing ==
    /\ \A t \in Times : lanes[t] = <<>>
    /\ taken' = Nothing
    /\ UNCHANGED lanes

Next ==
    \/ \E t \in Times, event \in Events : Put(t, event)
    \/ \E t \in Times : Take(t)
    \/ TakeNothing

Spec == Init /\ [][Next]_laneVars
=============================================================================
