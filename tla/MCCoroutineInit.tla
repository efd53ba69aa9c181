-------------------------- MODULE MCCoroutineInit ---------------------------
(* CoroutineInit on a small instance.  Threads are interchangeable, and so *)
(* are coroutines.                                                         *)
EXTENDS CoroutineInit, TLC

Symmetry == Permutations(Threads) \cup Permutations(Coroutines)
=============================================================================
