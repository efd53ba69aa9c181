----------------------------- MODULE MCFdStream -----------------------------
(* FdStream on a small instance.  Readers are interchangeable.             *)
EXTENDS FdStream, TLC

Symmetry == Permutations(Readers)

(* A wait for ever, no poll, and a timeout.                                *)
ShortTimeouts == {-1, 0, 1}

LongTimeouts == {-1, 0, 2}
=============================================================================
