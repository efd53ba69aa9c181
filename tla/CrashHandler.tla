---------------------------- MODULE CrashHandler ----------------------------
(***************************************************************************)
(* The crash handlers of src/src/stacktrace/stacktrace.c in a program with *)
(* several threads.  The dispositions of the signals belong to the         *)
(* process; each thread has a stack of the calls and handlers it is in,    *)
(* the innermost last.  The trace itself, which StackTrace models, is here *)
(* a use of the heap, which has one lock.                                  *)
(*                                                                         *)
(* The default action of every signal the library handles ends the         *)
(* process.  A signal is blocked while its handler runs; a fault that      *)
(* raises a blocked signal ends the process.                               *)
(***************************************************************************)
EXTENDS Integers, Sequences

CONSTANTS
  Threads,
  Last,           \* the signals are 1 .. Last, in the order of the calls of signal
  None,           \* no thread
  MaxSignals      \* bound on the signals raised

ASSUME CrashAssumption ==
  /\ Last \in Nat \ {0} /\ MaxSignals \in Nat
  /\ None \notin Threads

Signals == 1 .. Last

Handlers == {"default", "crash", "custom"}    \* "crash" is default_crash_handler

VARIABLES
  action,         \* the disposition of each signal
  stack,          \* what each thread is in
  heap,           \* the thread that holds the lock of the heap and its depth, or none
  ended,          \* whether the process has ended: "killed" by a signal, or by _exit
  raised,         \* signals raised
  overlap,        \* history: two calls of xcp_set_crash_handler at the same time
  meddled         \* history: one that sets a handler at work beside a crash handler

vars == <<action, stack, heap, ended, raised, overlap, meddled>>

Free == [by |-> None, depth |-> 0]

(* In xcp_set_crash_handler(to), before signal(at, to); in a handler.      *)
Setting(to) == [kind |-> "set", at |-> 1, to |-> to]

Handling(handler, sig) == [kind |-> handler, sig |-> sig]

Frames ==
  [kind : {"set"}, at : Signals, to : Handlers] \cup [kind : {"crash", "custom"}, sig : Signals]

Kind(t) == IF stack[t] = << >> THEN "program" ELSE stack[t][Len(stack[t])].kind

Top(t) == stack[t][Len(stack[t])]

Popped(t) == SubSeq(stack[t], 1, Len(stack[t]) - 1)

InHeap(t) == heap = [by |-> t, depth |-> Len(stack[t])]

Has(t, kind) == \E k \in DOMAIN stack[t] : stack[t][k].kind = kind

Sets(t) == \E k \in DOMAIN stack[t] : stack[t][k].kind = "set" /\ stack[t][k].to # "default"

TypeOK ==
  /\ action \in [Signals -> Handlers]
  /\ stack \in [Threads -> Seq(Frames)]
  /\ \A t \in Threads :
       /\ Len(stack[t]) <= 2 * MaxSignals + 1
       /\ \A i, j \in DOMAIN stack[t] :
            i # j /\ stack[t][i].kind # "set" /\ stack[t][j].kind # "set" =>
              stack[t][i].sig # stack[t][j].sig
  /\ heap = Free \/ \E t \in Threads : heap.by = t /\ heap.depth \in 0 .. Len(stack[t])
  /\ ended \in {"no", "killed", "exit"}
  /\ raised \in 0 .. MaxSignals
  /\ overlap \in BOOLEAN /\ meddled \in BOOLEAN

Init ==
  /\ action = [s \in Signals |-> "default"]
  /\ stack = [t \in Threads |-> << >>]
  /\ heap = Free /\ ended = "no" /\ raised = 0
  /\ overlap = FALSE /\ meddled = FALSE

-----------------------------------------------------------------------------
(* Setting and clearing.                                                   *)

(* The program, or a handler of its own, calls _set_default_crash_handler, *)
(* _set_crash_handler with its handler, or _clear_crash_handler.           *)
SetCrashHandler(t, to) ==
  /\ ended = "no" /\ Kind(t) \in {"program", "custom"} /\ ~InHeap(t)
  /\ stack' = [stack EXCEPT ![t] = Append(@, Setting(to))]
  /\ overlap' = (overlap \/ \E u \in Threads : Has(u, "set"))
  /\ meddled' = (meddled \/ (to # "default" /\ \E u \in Threads : Has(u, "crash")))
  /\ UNCHANGED <<action, heap, ended, raised>>

LastCall_Early == IF Last > 1 THEN Last - 1 ELSE Last

LastCall == Last

(* One call of signal; after the last one _set_crash_handler returns.      *)
SignalCall(t) ==
  /\ ended = "no" /\ Kind(t) = "set"
  /\ action' = [action EXCEPT ![Top(t).at] = Top(t).to]
  /\ stack' = [stack EXCEPT ![t] =
                 IF Top(t).at = LastCall
                 THEN Popped(t)
                 ELSE Append(Popped(t), [Top(t) EXCEPT !.at = @ + 1])]
  /\ UNCHANGED <<heap, ended, raised, overlap, meddled>>

-----------------------------------------------------------------------------
(* Signals and handlers.                                                   *)

Blocked(t, sig) == \E k \in DOMAIN stack[t] : stack[t][k].kind # "set" /\ stack[t][k].sig = sig

(* default_crash_handler begins with xcp_set_crash_handler(SIG_DFL).       *)
Entered_NoReset(handler, sig) == <<Handling(handler, sig)>>

Entered(handler, sig) ==
  IF handler = "crash"
  THEN <<Handling("crash", sig), Setting("default")>>
  ELSE <<Handling(handler, sig)>>

Raise(t, sig) ==
  /\ ended = "no" /\ raised < MaxSignals
  /\ raised' = raised + 1
  /\ IF Blocked(t, sig) \/ action[sig] = "default"
     THEN /\ ended' = "killed"
          /\ UNCHANGED <<stack, overlap, meddled>>
     ELSE /\ stack' = [stack EXCEPT ![t] = @ \o Entered(action[sig], sig)]
          /\ overlap' = (overlap \/ (action[sig] = "crash" /\ \E u \in Threads : Has(u, "set")))
          /\ meddled' = (meddled \/ (action[sig] = "crash" /\ \E u \in Threads \ {t} : Sets(u)))
          /\ UNCHANGED ended
  /\ UNCHANGED <<action, heap>>

(* A malloc or free of the trace takes the lock of the heap ...            *)
Trace(t) ==
  /\ ended = "no" /\ Kind(t) = "crash" /\ heap = Free
  /\ heap' = [by |-> t, depth |-> Len(stack[t])]
  /\ UNCHANGED <<action, stack, ended, raised, overlap, meddled>>

(* ... and releases it, before the next one ...                            *)
TraceGoesOn(t) ==
  /\ ended = "no" /\ Kind(t) = "crash" /\ InHeap(t)
  /\ heap' = Free
  /\ UNCHANGED <<action, stack, ended, raised, overlap, meddled>>

(* ... or, being the last, is followed by _exit(128 + signal).             *)
Exit(t) ==
  /\ ended = "no" /\ Kind(t) = "crash" /\ InHeap(t)
  /\ ended' = "exit"
  /\ UNCHANGED <<action, stack, heap, raised, overlap, meddled>>

(* A handler of the program returns.                                       *)
CustomReturns(t) ==
  /\ ended = "no" /\ Kind(t) = "custom"
  /\ stack' = [stack EXCEPT ![t] = Popped(t)]
  /\ UNCHANGED <<action, heap, ended, raised, overlap, meddled>>

(* The program enters and leaves malloc.                                   *)
EnterHeap(t) ==
  /\ ended = "no" /\ Kind(t) = "program" /\ heap = Free
  /\ heap' = [by |-> t, depth |-> 0]
  /\ UNCHANGED <<action, stack, ended, raised, overlap, meddled>>

LeaveHeap(t) ==
  /\ ended = "no" /\ Kind(t) = "program" /\ InHeap(t)
  /\ heap' = Free
  /\ UNCHANGED <<action, stack, ended, raised, overlap, meddled>>

Next ==
  \E t \in Threads :
    \/ \E to \in Handlers : SetCrashHandler(t, to)
    \/ \E sig \in Signals : Raise(t, sig)
    \/ SignalCall(t) \/ Trace(t) \/ TraceGoesOn(t) \/ Exit(t) \/ CustomReturns(t)
    \/ EnterHeap(t) \/ LeaveHeap(t)

Spec == Init /\ [][Next]_vars

-----------------------------------------------------------------------------
(* Properties.                                                             *)

Tracing(t) == Kind(t) = "crash"

(* While the trace is made every signal has its default action, so a crash *)
(* within libbfd or malloc ends the process and starts no second trace     *)
(* (stacktrace.c 28-32), whatever signals arrive while the nine are being  *)
(* reset, and in whichever threads; unless another thread sets handlers at *)
(* that time.  Threads that were all in their handlers before the last     *)
(* signal was reset still make a trace each.                               *)
NoSecondTrace ==
  ~meddled => \A t \in Threads : Tracing(t) => \A s \in Signals : action[s] = "default"

(* When no call is under way all signals have the same disposition, unless *)
(* two calls, in two threads or one in a handler that has interrupted the  *)
(* other, have overlapped (stacktrace.c 42-54).                            *)
SameForAll ==
  ~overlap /\ (\A t \in Threads : ~Has(t, "set")) =>
    \A s, r \in Signals : action[s] = action[r]
=============================================================================
