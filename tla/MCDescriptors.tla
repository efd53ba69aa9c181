--------------------------- MODULE MCDescriptors ---------------------------
EXTENDS Descriptors, TLC

(* Threads and files are interchangeable.                                  *)
Symmetry == Permutations(Threads) \cup Permutations(Files)

(* What follows the first loss is not explored.                            *)
Unharmed == ~wronged
=============================================================================
