------------------------- MODULE CoroutineScheduler -------------------------
(***************************************************************************)
(* What coroutine.h promises of the order of execution, without memory,    *)
(* jump buffers or links: a stack of activities, each with the coroutines  *)
(* it still has to run, and a list per coroutine of those it has posted.   *)
(*                                                                         *)
(*   resume   run a coroutine, then whatever it and its successors posted, *)
(*            then continue;                                               *)
(*   yield    "Return to the caller and execute pending coroutines.";      *)
(*   process  inside a coroutine, put one at the end of the own list.      *)
(*                                                                         *)
(* A coroutine's posts run in the order of posting and before anything the *)
(* resume had left to do.  The program may halt at any time.               *)
(***************************************************************************)
EXTENDS SequencesExt, Naturals

CONSTANTS Coroutines, Dummy

All == Coroutines \cup {Dummy}

VARIABLES
  stack,    \* the activities, the running one last: who, is it in a resume
            \* (busy), and what that resume has still to run (todo)
  posted,   \* the coroutines each coroutine has posted and not handed on
  born,     \* the coroutines that exist
  ended,    \* those whose callback has returned
  halted

vars == <<stack, posted, born, ended, halted>>

Idle(c)    == [who |-> c, busy |-> FALSE, todo |-> << >>]
Busy(c, s) == [who |-> c, busy |-> TRUE, todo |-> s]

Init ==
  /\ stack  = <<Idle(Dummy)>>
  /\ posted = [c \in All |-> << >>]
  /\ born   = {Dummy}
  /\ ended  = {}
  /\ halted = FALSE

top == Last(stack)

(* The activities under the running one.                                   *)
below == Front(stack)

Running == {stack[i].who : i \in DOMAIN stack}

Listed(s) == {s[i] : i \in DOMAIN s}

Waiting == (UNION {Listed(posted[c]) : c \in All}) \cup
           (UNION {Listed(stack[i].todo) : i \in DOMAIN stack})

(* User code runs and may name any coroutine that lives and does not wait. *)
Names(c) == ~halted /\ c \in born \ ended /\ ~top.busy /\ c \notin Waiting

Create(c) ==
  /\ ~halted /\ ~top.busy
  /\ c \notin born
  /\ born' = born \cup {c}
  /\ UNCHANGED <<stack, posted, ended, halted>>

Resume(c) ==
  /\ Names(c)
  /\ stack' = Append(below, Busy(top.who, <<c>>))
  /\ UNCHANGED <<posted, born, ended, halted>>

Enter ==
  /\ ~halted /\ top.busy /\ top.todo # << >>
  /\ Head(top.todo) \notin Running \cup ended
  /\ stack' = Append(Append(below, Busy(top.who, Tail(top.todo))), Idle(Head(top.todo)))
  /\ UNCHANGED <<posted, born, ended, halted>>

(* The running coroutine hands its posts to the activity below it.         *)
GiveBack ==
  /\ ~halted /\ ~top.busy /\ Len(stack) > 1
  /\ stack' = [below EXCEPT ![Len(stack) - 1].todo = posted[top.who] \o @]
  /\ posted' = [posted EXCEPT ![top.who] = << >>]
  /\ ended' \in {ended, ended \cup {top.who}}
  /\ UNCHANGED <<born, halted>>

Continue ==
  /\ ~halted /\ top.busy /\ top.todo = << >>
  /\ stack' = Append(below, Idle(top.who))
  /\ UNCHANGED <<posted, born, ended, halted>>

Post(c) ==
  /\ Names(c) /\ Len(stack) > 1
  /\ posted' = [posted EXCEPT ![top.who] = Append(@, c)]
  /\ UNCHANGED <<stack, born, ended, halted>>

(* Nothing is left to say of a program that has stopped.                   *)
Halt ==
  /\ halted' = TRUE
  /\ stack'  = << >>
  /\ posted' = [c \in All |-> << >>]
  /\ UNCHANGED <<born, ended>>

Next ==
  \/ Enter \/ GiveBack \/ Continue \/ Halt
  \/ \E c \in All : Create(c) \/ Resume(c) \/ Post(c)

Spec == Init /\ [][Next]_vars
=============================================================================
