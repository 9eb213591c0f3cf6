----------------------------- MODULE MCObserver -----------------------------
(***************************************************************************)
(* A finite instance of Observer.                                          *)
(***************************************************************************)
EXTENDS Observer, TLC

NodeSymmetry == Permutations(Nodes)
=============================================================================
