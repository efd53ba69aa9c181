------------------------ MODULE CoroutineRefinement ------------------------
(***************************************************************************)
(* The mapping of the state of Coroutine to that of CoroutineScheduler: a  *)
(* stack of activities read off the caller links, and lists read off the   *)
(* intrusive queues.                                                       *)
(***************************************************************************)
EXTENDS Coroutine, SequencesExt

(* The program has stopped, or is about to: a misdirected jump leads to    *)
(* abort().                                                                *)
Stopped == fault # "none" \/ Misdirected

(* The call chain from Dummy up: the caller links, read backwards.         *)
Chain == Reverse(Q!Walk(caller, [first |-> current, last |-> Dummy], Cardinality(All)))

(* A callee that has given control back has handed on its pending list,    *)
(* although _resume splices it in only when it continues.                  *)
HandedOn(c) == point[current] = "woken" /\ callee[current] = c

Activity(c) ==
  [who  |-> c,
   busy |-> point[c] \in {"resume", "woken", "loop"},
   todo |-> IF point[c] = "woken"
            THEN Queue(pendings[callee[c]]) \o Queue(batch[c])
            ELSE Queue(batch[c])]

Stack ==
  IF Stopped THEN << >>
  ELSE LET chain == Chain IN [i \in DOMAIN chain |-> Activity(chain[i])]

Posted == [c \in All |-> IF Stopped \/ HandedOn(c) THEN << >> ELSE Queue(pendings[c])]

Born == {c \in All : point[c] # "none"}

Done == {c \in All : point[c] = "done"}

Abs == INSTANCE CoroutineScheduler WITH
  stack <- Stack, posted <- Posted, born <- Born, ended <- Done, halted <- Stopped

(* The scheduler of coroutine.c implements CoroutineScheduler as long as   *)
(* no coroutine is handed over while it is pending: whatever the nesting   *)
(* of resumes, the intrusive queues and the splice in front run every      *)
(* pending coroutine in the promised order.                                *)
ImplementsScheduler == Abs!Spec
=============================================================================
