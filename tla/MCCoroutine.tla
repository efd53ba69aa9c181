---------------------------- MODULE MCCoroutine -----------------------------
(***************************************************************************)
(* Coroutine and its mapping to CoroutineScheduler on a small instance.    *)
(* The coroutines are interchangeable.                                     *)
(***************************************************************************)
EXTENDS CoroutineRefinement

Symmetry == Permutations(Coroutines)
=============================================================================
