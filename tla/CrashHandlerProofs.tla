------------------------- MODULE CrashHandlerProofs -------------------------
(***************************************************************************)
(* Proofs about CrashHandler, for any number of threads, of signals that   *)
(* the library handles and of signals raised.                              *)
(***************************************************************************)
EXTENDS CrashHandler, TLAPS

(* A stack is at most two frames a signal deep, and one more while signal  *)
(* is being called; the heap is held by a program or by a crash handler.   *)
StackInv(t) ==
  /\ Len(stack[t]) <= 2 * raised + (IF Kind(t) = "set" THEN 1 ELSE 0)
  /\ heap # Free /\ heap.by = t /\ heap.depth > 0 => stack[t][heap.depth].kind = "crash"

(* What holds of the k-th frame of t if it is a crash handler: nobody else *)
(* sets a handler, nor does anything that has interrupted it, and the      *)
(* signals its own call has reached have their default action.             *)
CrashInv(t, k) ==
  stack[t][k].kind = "crash" =>
    /\ \A u \in Threads \ {t} : ~Sets(u)
    /\ \A j \in DOMAIN stack[t] : j > k /\ stack[t][j].kind = "set" => stack[t][j].to = "default"
    /\ k < Len(stack[t]) => stack[t][k + 1].kind = "set"
    /\ \A s \in Signals :
         k = Len(stack[t]) \/ s < stack[t][k + 1].at => action[s] = "default"

Meddling == ~meddled => \A t \in Threads : \A k \in DOMAIN stack[t] : CrashInv(t, k)

(* Without an overlap one call at most is under way, and those signals it  *)
(* has reached, like those it has not, have one disposition.               *)
IsSet(t, k) == k \in DOMAIN stack[t] /\ stack[t][k].kind = "set"

Overlapping ==
  ~overlap =>
    /\ \A t, u \in Threads : \A j, k \in Nat : IsSet(t, j) /\ IsSet(u, k) => t = u /\ j = k
    /\ \A t \in Threads : \A k \in Nat : IsSet(t, k) =>
         \A s, r \in Signals :
           /\ s < stack[t][k].at => action[s] = stack[t][k].to
           /\ s >= stack[t][k].at /\ r >= stack[t][k].at => action[s] = action[r]
    /\ (\A t \in Threads : \A k \in Nat : ~IsSet(t, k)) =>
         \A s, r \in Signals : action[s] = action[r]

IInv == TypeOK /\ (\A t \in Threads : StackInv(t)) /\ Meddling /\ Overlapping

(* Initially no stack has a frame and every signal has its default action. *)
LEMMA InitInv == Init => IInv
  <1> SUFFICES ASSUME Init PROVE IInv
    OBVIOUS
  <1>0. MaxSignals \in Nat /\ 2 * MaxSignals + 1 \in Nat
    BY CrashAssumption
  <1>1. \A t \in Threads : stack[t] = << >> /\ Len(stack[t]) = 0 /\ DOMAIN stack[t] = {}
    <2>1. Len(<< >>) = 0 /\ DOMAIN << >> = {}
      OBVIOUS
    <2> QED
      BY <2>1 DEF Init
  <1>2. TypeOK
    <2>1. stack \in [Threads -> Seq(Frames)]
      BY DEF Init
    <2>2. action \in [Signals -> Handlers]
      BY DEF Init, Handlers
    <2>3. \A t \in Threads : Len(stack[t]) <= 2 * MaxSignals + 1
      <3>1. 0 <= 2 * MaxSignals + 1
        BY <1>0
      <3> QED
        BY <1>1, <3>1, Zenon
    <2>4. raised \in 0 .. MaxSignals
      BY <1>0 DEF Init
    <2> QED
      BY <1>1, <2>1, <2>2, <2>3, <2>4 DEF TypeOK, Init
  <1>3. \A t \in Threads : StackInv(t)
    <2>1. raised = 0 /\ heap = Free /\ Free.by = None /\ Free.depth = 0
      BY DEF Init, Free
    <2>2. 0 <= 2 * 0 + 0
      OBVIOUS
    <2>3. ASSUME NEW t \in Threads
          PROVE  Kind(t) = "program" /\ Len(stack[t]) = 0
      BY <1>1 DEF Kind
    <2>4. ASSUME NEW t \in Threads
          PROVE  Len(stack[t]) <= 2 * raised + (IF Kind(t) = "set" THEN 1 ELSE 0)
      <3>1. (IF Kind(t) = "set" THEN 1 ELSE 0) = 0
        BY <2>3
      <3> QED
        BY <2>1, <2>2, <2>3, <3>1, Zenon
    <2> QED
      BY <2>1, <2>4 DEF StackInv
  <1>4. Meddling
    BY <1>1 DEF Meddling
  <1>5. Overlapping
    BY <1>1 DEF Overlapping, IsSet, Init
  <1> QED
    BY <1>2, <1>3, <1>4, <1>5 DEF IInv

-----------------------------------------------------------------------------
(* What the three ways to change a stack do to it.                         *)

(* Only the stack of t changes, and of it not the first n frames.          *)
Keeps(t, n) ==
  /\ stack' \in [Threads -> Seq(Frames)]
  /\ \A u \in Threads \ {t} : stack'[u] = stack[u]
  /\ \A k \in 1 .. n : stack'[t][k] = stack[t][k]

(* A push leaves the frames under it.                                      *)
LEMMA Push ==
  ASSUME TypeOK, NEW t \in Threads, NEW f \in Frames,
         stack' = [stack EXCEPT ![t] = Append(@, f)]
  PROVE  /\ Keeps(t, Len(stack[t]))
         /\ Len(stack'[t]) = Len(stack[t]) + 1 /\ stack'[t][Len(stack[t]) + 1] = f
  BY DEF TypeOK, Keeps

(* So does a push of two, as Raise makes it.                               *)
LEMMA PushTwo ==
  ASSUME TypeOK, NEW t \in Threads, NEW f \in Frames, NEW g \in Frames,
         stack' = [stack EXCEPT ![t] = @ \o <<f, g>>]
  PROVE  /\ Keeps(t, Len(stack[t]))
         /\ Len(stack'[t]) = Len(stack[t]) + 2
         /\ stack'[t][Len(stack[t]) + 1] = f /\ stack'[t][Len(stack[t]) + 2] = g
  BY DEF TypeOK, Keeps

(* The return of the top frame leaves the frames under it.                 *)
LEMMA Pop ==
  ASSUME TypeOK, NEW t \in Threads, stack[t] # << >>,
         stack' = [stack EXCEPT ![t] = Popped(t)]
  PROVE  Keeps(t, Len(stack[t]) - 1) /\ Len(stack'[t]) = Len(stack[t]) - 1
  <1>1. stack[t] \in Seq(Frames) /\ Len(stack[t]) \in Nat /\ Len(stack[t]) > 0
    BY DEF TypeOK
  <1>2. PICK s : s = SubSeq(stack[t], 1, Len(stack[t]) - 1)
    OBVIOUS
  <1>3. /\ s \in Seq(Frames) /\ Len(s) = Len(stack[t]) - 1
        /\ \A k \in 1 .. Len(stack[t]) - 1 : s[k] = stack[t][k]
    BY <1>1, <1>2
  <1>4. stack' = [stack EXCEPT ![t] = s]
    BY <1>2 DEF Popped
  <1> QED
    BY <1>3, <1>4 DEF TypeOK, Keeps

(* The next call of signal in the loop of xcp_set_crash_handler replaces   *)
(* the top frame by one that is a signal further.                          *)
LEMMA Advance ==
  ASSUME TypeOK, NEW t \in Threads, Kind(t) = "set", Top(t).at # Last,
         stack' = [stack EXCEPT ![t] = Append(Popped(t), [Top(t) EXCEPT !.at = @ + 1])]
  PROVE  /\ Keeps(t, Len(stack[t]) - 1)
         /\ Len(stack'[t]) = Len(stack[t])
         /\ stack'[t][Len(stack[t])] = [kind |-> "set", at |-> Top(t).at + 1, to |-> Top(t).to]
  <1> USE CrashAssumption
  <1>1. /\ stack[t] \in Seq(Frames) /\ Len(stack[t]) \in Nat /\ Len(stack[t]) > 0
        /\ Top(t) \in [kind : {"set"}, at : Signals, to : Handlers] /\ Top(t) = stack[t][Len(stack[t])]
    <2>1. stack[t] \in Seq(Frames) /\ stack[t] # << >> /\ Top(t).kind = "set"
      BY DEF TypeOK, Kind, Top
    <2>2. Len(stack[t]) \in Nat /\ Len(stack[t]) > 0 /\ Top(t) = stack[t][Len(stack[t])]
      BY <2>1 DEF Top
    <2>3. Top(t) \in Frames
      BY <2>1, <2>2
    <2> QED
      BY <2>1, <2>2, <2>3 DEF Frames
  <1>2. PICK f : f = [Top(t) EXCEPT !.at = Top(t).at + 1]
    OBVIOUS
  <1>3. f = [kind |-> "set", at |-> Top(t).at + 1, to |-> Top(t).to] /\ f \in Frames
    BY <1>1, <1>2 DEF Frames, Signals
  <1>4. PICK p : p = SubSeq(stack[t], 1, Len(stack[t]) - 1)
    OBVIOUS
  <1>5. /\ p \in Seq(Frames) /\ Len(p) = Len(stack[t]) - 1
        /\ \A k \in 1 .. Len(stack[t]) - 1 : p[k] = stack[t][k]
    BY <1>1, <1>4
  <1>6. stack' = [stack EXCEPT ![t] = Append(p, f)]
    BY <1>2, <1>4 DEF Popped
  <1>7. stack'[t] = Append(p, f) /\ \A u \in Threads \ {t} : stack'[u] = stack[u]
    BY <1>6 DEF TypeOK
  <1>8. /\ Append(p, f) \in Seq(Frames) /\ Len(Append(p, f)) = Len(stack[t])
        /\ \A k \in 1 .. Len(stack[t]) - 1 : Append(p, f)[k] = stack[t][k]
        /\ Append(p, f)[Len(stack[t])] = f
    BY <1>1, <1>3, <1>5
  <1>9. stack' \in [Threads -> Seq(Frames)]
    BY <1>6, <1>8 DEF TypeOK
  <1> QED
    BY <1>3, <1>7, <1>8, <1>9 DEF Keeps

-----------------------------------------------------------------------------
(* Types, and the shape of the stacks.                                     *)

Distinct(s) ==
  \A i, j \in DOMAIN s : i # j /\ s[i].kind # "set" /\ s[j].kind # "set" => s[i].sig # s[j].sig

(* A step of t that changes only the upper part of its stack keeps the     *)
(* types and the bounds on every stack.                                    *)
LEMMA TypeStep ==
  ASSUME IInv, NEW t \in Threads, NEW n \in Nat, Keeps(t, n),
         n <= Len(stack[t]), n <= Len(stack'[t]),
         action' \in [Signals -> Handlers], ended' \in {"no", "killed", "exit"},
         raised' \in 0 .. MaxSignals, raised <= raised',
         overlap' \in BOOLEAN, meddled' \in BOOLEAN, heap' = heap,
         Len(stack'[t]) <= 2 * raised' + (IF Kind(t)' = "set" THEN 1 ELSE 0),
         heap # Free /\ heap.by = t => heap.depth <= n,
         Distinct(stack'[t])
  PROVE  TypeOK' /\ \A u \in Threads : StackInv(u)'
  <1> USE CrashAssumption
  <1>1. TypeOK /\ \A u \in Threads : StackInv(u) /\ stack[u] \in Seq(Frames) /\ Len(stack[u]) \in Nat
    BY DEF IInv, TypeOK
  <1>2. \A u \in Threads : stack'[u] \in Seq(Frames) /\ Len(stack'[u]) \in Nat
    BY DEF Keeps
  <1>3. raised \in Nat /\ raised' \in Nat /\ raised' <= MaxSignals /\ MaxSignals \in Nat
    BY <1>1 DEF TypeOK
  <1>4. ASSUME NEW u \in Threads \ {t}
        PROVE  stack'[u] = stack[u] /\ Len(stack'[u]) <= 2 * raised' + (IF Kind(u)' = "set" THEN 1 ELSE 0)
    <2>1. stack'[u] = stack[u] /\ Kind(u)' = Kind(u)
      BY DEF Keeps, Kind
    <2>2. Len(stack[u]) <= 2 * raised + (IF Kind(u) = "set" THEN 1 ELSE 0)
      BY <1>1 DEF StackInv
    <2> QED
      BY <2>1, <2>2, <1>1, <1>3
  <1>5. \A u \in Threads : Len(stack'[u]) <= 2 * raised' + (IF Kind(u)' = "set" THEN 1 ELSE 0)
    BY <1>4
  <1>6. ASSUME NEW u \in Threads
        PROVE  Len(stack'[u]) <= 2 * MaxSignals + 1
    BY <1>2, <1>3, <1>5
  <1>7. \A u \in Threads : Distinct(stack'[u])
    <2>1. \A u \in Threads : Distinct(stack[u])
      BY <1>1 DEF Distinct, TypeOK
    <2> QED
      BY <2>1, <1>4
  <1>8. heap = Free \/ \E u \in Threads : heap.by = u /\ heap.depth \in 0 .. Len(stack'[u])
    <2>1. CASE heap # Free /\ heap.by = t
      BY <2>1, <1>1, <1>2 DEF TypeOK
    <2>2. CASE heap # Free /\ heap.by # t
      BY <2>2, <1>1, <1>4 DEF TypeOK
    <2> QED
      BY <2>1, <2>2
  <1>9. TypeOK'
    <2>1. stack' \in [Threads -> Seq(Frames)]
      BY DEF Keeps
    <2> QED
      BY <2>1, <1>6, <1>7, <1>8 DEF TypeOK, Distinct, Free
  <1>10. ASSUME NEW u \in Threads, heap # Free, heap.by = u, heap.depth > 0
         PROVE  stack'[u][heap.depth].kind = "crash"
    <2>1. stack[u][heap.depth].kind = "crash" /\ heap.depth \in Nat
      BY <1>1, <1>10 DEF StackInv, TypeOK
    <2> QED
      BY <2>1, <1>4, <1>10 DEF Keeps
  <1>11. \A u \in Threads : StackInv(u)'
    BY <1>5, <1>10 DEF StackInv, Free
  <1> QED
    BY <1>9, <1>11

(* What a thread that is in no handler of the library at present holds of  *)
(* the heap lies below its last frame.                                     *)
LEMMA HeapBelow ==
  ASSUME IInv, NEW t \in Threads, Kind(t) \in {"set", "custom"}, heap # Free, heap.by = t
  PROVE  heap.depth <= Len(stack[t]) - 1
  <1>1. stack[t] \in Seq(Frames) /\ Len(stack[t]) \in Nat /\ heap.depth \in 0 .. Len(stack[t])
    BY DEF IInv, TypeOK
  <1>2. stack[t] # << >> /\ stack[t][Len(stack[t])].kind # "crash"
    BY DEF Kind
  <1>3. heap.depth > 0 => stack[t][heap.depth].kind = "crash"
    BY DEF IInv, StackInv
  <1> QED
    BY <1>1, <1>2, <1>3

(* No two handlers on a stack are for one signal: it is blocked while its  *)
(* handler runs.                                                           *)
LEMMA SigsDiffer ==
  ASSUME IInv, NEW t \in Threads, NEW l \in Nat, l = Len(stack[t])
  PROVE  \A i, j \in 1 .. l : i # j /\ stack[t][i].kind # "set" /\ stack[t][j].kind # "set" =>
           stack[t][i].sig # stack[t][j].sig
  <1>1. stack[t] \in Seq(Frames) /\ DOMAIN stack[t] = 1 .. l
    BY DEF IInv, TypeOK
  <1> QED
    BY <1>1 DEF IInv, TypeOK

(* A frame of a call is no handler, so it raises no signal twice.          *)
LEMMA SetTypes ==
  ASSUME IInv, NEW t \in Threads, NEW to \in Handlers, SetCrashHandler(t, to)
  PROVE  TypeOK' /\ \A u \in Threads : StackInv(u)'
  <1> USE CrashAssumption
  <1>1. PICK l \in Nat : l = Len(stack[t]) /\ stack[t] \in Seq(Frames)
    BY DEF IInv, TypeOK
  <1>2. PICK f \in Frames : f = Setting(to)
    <2>1. 1 \in Signals
      BY DEF Signals
    <2>2. Setting(to) \in Frames
      BY <2>1 DEF Setting, Frames
    <2> QED
      BY <2>2
  <1>3. Keeps(t, l) /\ Len(stack'[t]) = l + 1 /\ stack'[t][l + 1] = f
    BY <1>1, <1>2, Push DEF SetCrashHandler, IInv
  <1>4. stack'[t] \in Seq(Frames) /\ Kind(t)' = "set"
    BY <1>1, <1>2, <1>3 DEF Keeps, Kind, Setting
  <1>5. Len(stack'[t]) <= 2 * raised' + (IF Kind(t)' = "set" THEN 1 ELSE 0)
    <2>1. l <= 2 * raised /\ raised' = raised /\ raised \in Nat
      BY <1>1 DEF IInv, StackInv, SetCrashHandler, TypeOK
    <2> QED
      BY <2>1, <1>3, <1>4
  <1>6. Distinct(stack'[t])
    <2>1. f.kind = "set" /\ \A k \in 1 .. l : stack'[t][k] = stack[t][k]
      BY <1>2, <1>3 DEF Setting, Keeps
    <2>2. \A i, j \in 1 .. l : i # j /\ stack[t][i].kind # "set" /\ stack[t][j].kind # "set" =>
            stack[t][i].sig # stack[t][j].sig
      BY <1>1, SigsDiffer
    <2> QED
      BY <2>1, <2>2, <1>1, <1>3, <1>4 DEF Distinct
  <1>7. heap # Free /\ heap.by = t => heap.depth <= l
    BY <1>1 DEF IInv, TypeOK
  <1>8. /\ UNCHANGED <<action, heap, ended, raised>> /\ overlap' \in BOOLEAN /\ meddled' \in BOOLEAN
        /\ action \in [Signals -> Handlers] /\ ended \in {"no", "killed", "exit"}
        /\ raised \in 0 .. MaxSignals
    BY DEF SetCrashHandler, IInv, TypeOK
  <1> QED
    BY <1>1, <1>3, <1>5, <1>6, <1>7, <1>8, TypeStep

(* The return of a call of xcp_set_crash_handler or of a handler keeps the *)
(* types.                                                                  *)
LEMMA PopTypes ==
  ASSUME IInv, NEW t \in Threads, Kind(t) \in {"set", "custom"},
         stack' = [stack EXCEPT ![t] = Popped(t)],
         action' \in [Signals -> Handlers], UNCHANGED <<heap, ended, raised, overlap, meddled>>
  PROVE  TypeOK' /\ \A u \in Threads : StackInv(u)'
  <1> USE CrashAssumption
  <1>1. PICK l \in Nat : l = Len(stack[t]) /\ stack[t] \in Seq(Frames) /\ l > 0
    BY DEF IInv, TypeOK, Kind
  <1>2. Keeps(t, l - 1) /\ Len(stack'[t]) = l - 1
    <2>1. stack[t] # << >>
      BY DEF Kind
    <2> QED
      BY <2>1, <1>1, Pop DEF IInv
  <1>3. stack'[t] \in Seq(Frames)
    BY <1>2 DEF Keeps
  <1>4. Len(stack'[t]) <= 2 * raised' + (IF Kind(t)' = "set" THEN 1 ELSE 0)
    <2>1. l <= 2 * raised + 1 /\ raised' = raised /\ raised \in Nat
      BY <1>1 DEF IInv, StackInv, TypeOK
    <2> QED
      BY <2>1, <1>1, <1>2
  <1>5. Distinct(stack'[t])
    <2>1. \A k \in 1 .. l - 1 : stack'[t][k] = stack[t][k]
      BY <1>2 DEF Keeps
    <2>2. \A i, j \in 1 .. l : i # j /\ stack[t][i].kind # "set" /\ stack[t][j].kind # "set" =>
            stack[t][i].sig # stack[t][j].sig
      BY <1>1, SigsDiffer
    <2> QED
      BY <2>1, <2>2, <1>1, <1>2, <1>3 DEF Distinct
  <1>6. heap # Free /\ heap.by = t => heap.depth <= l - 1
    BY <1>1, HeapBelow
  <1>7. /\ ended \in {"no", "killed", "exit"} /\ raised \in 0 .. MaxSignals
        /\ overlap \in BOOLEAN /\ meddled \in BOOLEAN
    BY DEF IInv, TypeOK
  <1> QED
    BY <1>1, <1>2, <1>4, <1>5, <1>6, <1>7, TypeStep

(* So does the next call of signal in the loop.                            *)
LEMMA AdvanceTypes ==
  ASSUME IInv, NEW t \in Threads, Kind(t) = "set", Top(t).at # Last,
         stack' = [stack EXCEPT ![t] = Append(Popped(t), [Top(t) EXCEPT !.at = @ + 1])],
         action' \in [Signals -> Handlers], UNCHANGED <<heap, ended, raised, overlap, meddled>>
  PROVE  TypeOK' /\ \A u \in Threads : StackInv(u)'
  <1> USE CrashAssumption
  <1>1. PICK l \in Nat : l = Len(stack[t]) /\ stack[t] \in Seq(Frames) /\ l > 0
    BY DEF IInv, TypeOK, Kind
  <1>2. Keeps(t, l - 1) /\ Len(stack'[t]) = l /\ stack'[t][l].kind = "set"
    <2>1. /\ Keeps(t, l - 1) /\ Len(stack'[t]) = l
          /\ stack'[t][l] = [kind |-> "set", at |-> Top(t).at + 1, to |-> Top(t).to]
      BY <1>1, Advance DEF IInv
    <2> QED
      BY <2>1
  <1>3. stack'[t] \in Seq(Frames) /\ Kind(t)' = "set"
    BY <1>1, <1>2 DEF Keeps, Kind
  <1>4. Len(stack'[t]) <= 2 * raised' + (IF Kind(t)' = "set" THEN 1 ELSE 0)
    <2>1. l <= 2 * raised + 1 /\ raised' = raised /\ raised \in Nat
      BY <1>1 DEF IInv, StackInv, TypeOK
    <2> QED
      BY <2>1, <1>2, <1>3
  <1>5. Distinct(stack'[t])
    <2>1. \A k \in 1 .. l - 1 : stack'[t][k] = stack[t][k]
      BY <1>2 DEF Keeps
    <2>2. \A i, j \in 1 .. l : i # j /\ stack[t][i].kind # "set" /\ stack[t][j].kind # "set" =>
            stack[t][i].sig # stack[t][j].sig
      BY <1>1, SigsDiffer
    <2>3. DOMAIN stack'[t] = 1 .. l
      BY <1>2, <1>3
    <2>4. ASSUME NEW i \in 1 .. l, NEW j \in 1 .. l, i # j,
                 stack'[t][i].kind # "set", stack'[t][j].kind # "set"
          PROVE  stack'[t][i].sig # stack'[t][j].sig
      <3>1. i # l /\ j # l
        BY <1>2, <2>4
      <3>2. i \in 1 .. l - 1 /\ j \in 1 .. l - 1
        BY <3>1
      <3>3. stack'[t][i] = stack[t][i] /\ stack'[t][j] = stack[t][j]
        BY <2>1, <3>2
      <3> QED
        BY <2>2, <2>4, <3>3
    <2> QED
      BY <2>3, <2>4 DEF Distinct
  <1>6. heap # Free /\ heap.by = t => heap.depth <= l - 1
    BY <1>1, HeapBelow
  <1>7. /\ ended \in {"no", "killed", "exit"} /\ raised \in 0 .. MaxSignals
        /\ overlap \in BOOLEAN /\ meddled \in BOOLEAN
    BY DEF IInv, TypeOK
  <1> QED
    BY <1>1, <1>2, <1>4, <1>5, <1>6, <1>7, TypeStep

(* A signal that is blocked is the one of a frame; one that is delivered   *)
(* is not.                                                                 *)
LEMMA RaiseTypes ==
  ASSUME IInv, NEW t \in Threads, NEW sig \in Signals, Raise(t, sig)
  PROVE  TypeOK' /\ \A u \in Threads : StackInv(u)'
  <1> USE CrashAssumption
  <1>1. PICK l \in Nat : l = Len(stack[t]) /\ stack[t] \in Seq(Frames)
    BY DEF IInv, TypeOK
  <1>2. /\ raised \in Nat /\ raised' = raised + 1 /\ raised' \in 0 .. MaxSignals
        /\ action' = action /\ action \in [Signals -> Handlers] /\ heap' = heap
        /\ overlap' \in BOOLEAN /\ meddled' \in BOOLEAN /\ ended' \in {"no", "killed", "exit"}
    <2>1. /\ raised \in Nat /\ raised' = raised + 1 /\ raised' \in 0 .. MaxSignals
          /\ action' = action /\ action \in [Signals -> Handlers] /\ heap' = heap
      BY DEF Raise, IInv, TypeOK
    <2>2. ended' \in {"no", "killed", "exit"}
      BY DEF Raise
    <2>3. overlap \in BOOLEAN /\ meddled \in BOOLEAN
      BY DEF IInv, TypeOK
    <2>4. /\ overlap' = overlap \/ overlap' = (overlap \/ (action[sig] = "crash" /\ \E u \in Threads : Has(u, "set")))
          /\ meddled' = meddled \/ meddled' = (meddled \/ (action[sig] = "crash" /\ \E u \in Threads \ {t} : Sets(u)))
      BY DEF Raise
    <2>5. overlap' \in BOOLEAN /\ meddled' \in BOOLEAN
      BY <2>3, <2>4
    <2> QED
      BY <2>1, <2>2, <2>5
  <1>3. heap # Free /\ heap.by = t => heap.depth <= l
    BY <1>1 DEF IInv, TypeOK
  <1>4. l <= 2 * raised + 1 /\ (Kind(t) # "set" => l <= 2 * raised)
    BY <1>1, <1>2 DEF IInv, StackInv
  <1>5. CASE Blocked(t, sig) \/ action[sig] = "default"
    <2>1. stack' = stack /\ Kind(t)' = Kind(t)
      BY <1>5 DEF Raise, Kind
    <2>2. Keeps(t, l) /\ Len(stack'[t]) = l
      BY <1>1, <2>1 DEF Keeps, IInv, TypeOK
    <2>3. Distinct(stack'[t])
      BY <2>1 DEF Distinct, IInv, TypeOK
    <2>4. Len(stack'[t]) <= 2 * raised' + (IF Kind(t)' = "set" THEN 1 ELSE 0)
      BY <2>1, <2>2, <1>2, <1>4
    <2> QED
      BY <2>2, <2>3, <2>4, <1>1, <1>2, <1>3, TypeStep
  <1>6. CASE ~Blocked(t, sig) /\ action[sig] # "default"
    <2>1. PICK h \in {"crash", "custom"} : h = action[sig]
      BY <1>2, <1>6 DEF Handlers
    <2>2. PICK f \in Frames : f.kind = h /\ f.sig = sig /\ f = Handling(h, sig)
      <3>1. Handling(h, sig) \in Frames /\ Handling(h, sig).kind = h /\ Handling(h, sig).sig = sig
        BY DEF Handling, Frames
      <3> QED
        BY <3>1
    <2>3. /\ Keeps(t, l) /\ stack'[t][l + 1] = f
          /\ \/ Len(stack'[t]) = l + 1
             \/ Len(stack'[t]) = l + 2 /\ stack'[t][l + 2].kind = "set"
      <3>1. CASE h = "custom"
        <4>1. stack' = [stack EXCEPT ![t] = Append(@, f)]
          BY <3>1, <1>1, <1>6, <2>1, <2>2 DEF Raise, Entered, IInv, TypeOK
        <4> QED
          BY <4>1, <1>1, Push DEF IInv
      <3>2. CASE h = "crash"
        <4>1. PICK g \in Frames : g = Setting("default") /\ g.kind = "set"
          <5>1. 1 \in Signals /\ "default" \in Handlers
            BY DEF Signals, Handlers
          <5>2. Setting("default") \in Frames /\ Setting("default").kind = "set"
            BY <5>1 DEF Setting, Frames
          <5> QED
            BY <5>2
        <4>2. stack' = [stack EXCEPT ![t] = @ \o <<f, g>>]
          BY <3>2, <4>1, <1>6, <2>1, <2>2 DEF Raise, Entered
        <4> QED
          BY <4>1, <4>2, <1>1, PushTwo DEF IInv
      <3> QED
        BY <3>1, <3>2
    <2>4. stack'[t] \in Seq(Frames)
      BY <2>3 DEF Keeps
    <2>5. Len(stack'[t]) <= 2 * raised' + (IF Kind(t)' = "set" THEN 1 ELSE 0)
      <3>1. CASE Len(stack'[t]) = l + 1
        BY <3>1, <1>2, <1>4
      <3>2. CASE Len(stack'[t]) = l + 2 /\ stack'[t][l + 2].kind = "set"
        <4>1. Kind(t)' = "set"
          BY <3>2, <2>4 DEF Kind
        <4> QED
          BY <3>2, <4>1, <1>2, <1>4
      <3> QED
        BY <2>3, <3>1, <3>2
    <2>6. Distinct(stack'[t])
      <3>1. \A k \in 1 .. l : stack'[t][k] = stack[t][k]
        BY <2>3 DEF Keeps
      <3>2. \A i, j \in 1 .. l : i # j /\ stack[t][i].kind # "set" /\ stack[t][j].kind # "set" =>
              stack[t][i].sig # stack[t][j].sig
        BY <1>1, SigsDiffer
      <3>3. \A i \in 1 .. l : stack[t][i].kind # "set" => stack[t][i].sig # sig
        BY <1>1, <1>6 DEF Blocked
      <3>4. DOMAIN stack'[t] = 1 .. Len(stack'[t])
        BY <2>4
      <3>5. \A i \in DOMAIN stack'[t] : stack'[t][i].kind # "set" => i \in 1 .. l \/ i = l + 1
        BY <3>4, <2>3
      <3>6. stack'[t][l + 1].sig = sig
        BY <2>2, <2>3
      <3> QED
        BY <3>1, <3>2, <3>3, <3>5, <3>6 DEF Distinct
    <2> QED
      BY <2>3, <2>5, <2>6, <1>1, <1>2, <1>3, TypeStep
  <1> QED
    BY <1>5, <1>6

(* Steps that change no stack.                                             *)
LEMMA HeapTypes ==
  ASSUME IInv, NEW t \in Threads,
         Trace(t) \/ TraceGoesOn(t) \/ Exit(t) \/ EnterHeap(t) \/ LeaveHeap(t) \/ UNCHANGED vars
  PROVE  TypeOK' /\ \A u \in Threads : StackInv(u)'
  <1> USE CrashAssumption
  <1>1. /\ UNCHANGED <<action, stack, raised, overlap, meddled>>
        /\ ended' \in {"no", "killed", "exit"}
    BY DEF Trace, TraceGoesOn, Exit, EnterHeap, LeaveHeap, vars, IInv, TypeOK
  <1>2. \/ heap' = heap \/ heap' = Free
        \/ heap' = [by |-> t, depth |-> 0]
        \/ heap' = [by |-> t, depth |-> Len(stack[t])] /\ Kind(t) = "crash"
    BY DEF Trace, TraceGoesOn, Exit, EnterHeap, LeaveHeap, vars
  <1>3. stack[t] \in Seq(Frames) /\ Len(stack[t]) \in Nat
    BY DEF IInv, TypeOK
  <1>4. heap' = Free \/ \E u \in Threads : heap'.by = u /\ heap'.depth \in 0 .. Len(stack[u])
    BY <1>2, <1>3 DEF IInv, TypeOK
  <1>5. TypeOK'
    BY <1>1, <1>4 DEF IInv, TypeOK, Free
  <1>6. ASSUME NEW u \in Threads, heap' # Free, heap'.by = u, heap'.depth > 0
        PROVE  stack[u][heap'.depth].kind = "crash"
    <2>1. CASE heap' = heap
      BY <2>1, <1>6 DEF IInv, StackInv
    <2>2. CASE heap' = [by |-> t, depth |-> Len(stack[t])] /\ Kind(t) = "crash"
      BY <2>2, <1>6 DEF Kind
    <2>3. CASE heap' = [by |-> t, depth |-> 0]
      BY <2>3, <1>6
    <2> QED
      BY <1>2, <1>6, <2>1, <2>2, <2>3
  <1>7. ASSUME NEW u \in Threads
        PROVE  StackInv(u)'
    BY <1>1, <1>6 DEF IInv, StackInv, Kind, Free
  <1> QED
    BY <1>5, <1>7

-----------------------------------------------------------------------------
(* What each action does to the stack of its thread.                       *)

(* The stack of a thread is a sequence of frames.                          *)
LEMMA Length ==
  ASSUME IInv, NEW t \in Threads
  PROVE  stack[t] \in Seq(Frames) /\ Len(stack[t]) \in Nat /\ DOMAIN stack[t] = 1 .. Len(stack[t])
  BY DEF IInv, TypeOK

(* xcp_set_crash_handler begins with the first signal and changes no       *)
(* disposition yet.                                                        *)
LEMMA SetEffect ==
  ASSUME IInv, NEW t \in Threads, NEW to \in Handlers, SetCrashHandler(t, to)
  PROVE  /\ Keeps(t, Len(stack[t])) /\ Len(stack'[t]) = Len(stack[t]) + 1
         /\ stack'[t][Len(stack[t]) + 1] = [kind |-> "set", at |-> 1, to |-> to]
         /\ UNCHANGED action
  <1>1. 1 \in Signals
    BY CrashAssumption DEF Signals
  <1>2. PICK f \in Frames : f = [kind |-> "set", at |-> 1, to |-> to]
    BY <1>1 DEF Frames
  <1> QED
    BY <1>2, Push DEF SetCrashHandler, Setting, IInv

(* A call of signal in the loop changes one disposition, and ends the loop *)
(* with the last signal.                                                   *)
LEMMA SignalEffect ==
  ASSUME IInv, NEW t \in Threads, SignalCall(t)
  PROVE  /\ Len(stack[t]) > 0 /\ Kind(t) = "set" /\ Top(t) = stack[t][Len(stack[t])]
         /\ Top(t).kind = "set" /\ Top(t).at \in Signals /\ Top(t).to \in Handlers
         /\ Keeps(t, Len(stack[t]) - 1)
         /\ action' = [action EXCEPT ![Top(t).at] = Top(t).to]
         /\ UNCHANGED <<heap, ended, raised, overlap, meddled>>
         /\ IF Top(t).at = Last
            THEN Len(stack'[t]) = Len(stack[t]) - 1
            ELSE /\ Len(stack'[t]) = Len(stack[t])
                 /\ stack'[t][Len(stack[t])] = [kind |-> "set", at |-> Top(t).at + 1, to |-> Top(t).to]
  <1>1. stack[t] # << >> /\ Kind(t) = "set" /\ Top(t) = stack[t][Len(stack[t])] /\ Top(t).kind = "set"
    BY DEF SignalCall, Kind, Top
  <1>2. Len(stack[t]) > 0 /\ Top(t) \in Frames
    BY <1>1, Length
  <1>3. Top(t).at \in Signals /\ Top(t).to \in Handlers
    BY <1>1, <1>2 DEF Frames
  <1>4. /\ action' = [action EXCEPT ![Top(t).at] = Top(t).to]
        /\ UNCHANGED <<heap, ended, raised, overlap, meddled>>
    BY DEF SignalCall
  <1>5. CASE Top(t).at = Last
    <2>1. stack' = [stack EXCEPT ![t] = Popped(t)]
      BY <1>5 DEF SignalCall, LastCall
    <2> QED
      BY <2>1, <1>1, <1>2, <1>3, <1>4, <1>5, Pop DEF IInv
  <1>6. CASE Top(t).at # Last
    <2>1. stack' = [stack EXCEPT ![t] = Append(Popped(t), [Top(t) EXCEPT !.at = @ + 1])]
      BY <1>6 DEF SignalCall, LastCall
    <2> QED
      BY <2>1, <1>1, <1>2, <1>3, <1>4, <1>6, Advance DEF IInv
  <1> QED
    BY <1>5, <1>6

(* A signal with a handler puts the handler on the stack, the crash handler*)
(* together with the reset it begins with.                                 *)
LEMMA RaiseEffect ==
  ASSUME IInv, NEW t \in Threads, NEW sig \in Signals, Raise(t, sig)
  PROVE  /\ UNCHANGED action
         /\ \/ UNCHANGED <<stack, overlap, meddled>>
            \/ /\ action[sig] # "default" /\ Keeps(t, Len(stack[t]))
               /\ action[sig] = "custom" => UNCHANGED <<overlap, meddled>>
               /\ action[sig] = "crash" =>
                    /\ overlap' = (overlap \/ \E u \in Threads : Has(u, "set"))
                    /\ meddled' = (meddled \/ \E u \in Threads \ {t} : Sets(u))
               /\ stack'[t][Len(stack[t]) + 1].kind = action[sig]
               /\ IF action[sig] = "crash"
                  THEN /\ Len(stack'[t]) = Len(stack[t]) + 2
                       /\ stack'[t][Len(stack[t]) + 2] = [kind |-> "set", at |-> 1, to |-> "default"]
                  ELSE action[sig] = "custom" /\ Len(stack'[t]) = Len(stack[t]) + 1
  <1> USE CrashAssumption
  <1>1. UNCHANGED action
    BY DEF Raise
  <1>2. CASE Blocked(t, sig) \/ action[sig] = "default"
    BY <1>1, <1>2 DEF Raise
  <1>3. CASE ~Blocked(t, sig) /\ action[sig] = "custom"
    <2>1. PICK f \in Frames : f = Handling("custom", sig) /\ f.kind = "custom"
      <3>1. Handling("custom", sig) \in Frames /\ Handling("custom", sig).kind = "custom"
        BY DEF Handling, Frames
      <3> QED
        BY <3>1
    <2>2. stack' = [stack EXCEPT ![t] = Append(@, f)]
      BY <1>3, <2>1, Length DEF Raise, Entered, IInv, TypeOK
    <2>3. overlap' = overlap /\ meddled' = meddled
      <3>1. /\ overlap' = (overlap \/ (action[sig] = "crash" /\ \E u \in Threads : Has(u, "set")))
            /\ meddled' = (meddled \/ (action[sig] = "crash" /\ \E u \in Threads \ {t} : Sets(u)))
        BY <1>3 DEF Raise
      <3> QED
        BY <3>1, <1>3 DEF IInv, TypeOK
    <2> QED
      BY <1>1, <1>3, <2>1, <2>2, <2>3, Push DEF IInv
  <1>4. CASE ~Blocked(t, sig) /\ action[sig] = "crash"
    <2>1. PICK f \in Frames : f = Handling("crash", sig) /\ f.kind = "crash"
      <3>1. Handling("crash", sig) \in Frames /\ Handling("crash", sig).kind = "crash"
        BY DEF Handling, Frames
      <3> QED
        BY <3>1
    <2>2. PICK g \in Frames : g = [kind |-> "set", at |-> 1, to |-> "default"]
      <3>1. 1 \in Signals /\ "default" \in Handlers
        BY DEF Signals, Handlers
      <3> QED
        BY <3>1 DEF Frames
    <2>3. stack' = [stack EXCEPT ![t] = @ \o <<f, g>>]
      BY <1>4, <2>1, <2>2 DEF Raise, Entered, Setting
    <2>4. /\ overlap' = (overlap \/ \E u \in Threads : Has(u, "set"))
          /\ meddled' = (meddled \/ \E u \in Threads \ {t} : Sets(u))
      BY <1>4 DEF Raise
    <2> QED
      BY <1>1, <1>4, <2>1, <2>2, <2>3, <2>4, PushTwo DEF IInv
  <1>5. action[sig] \in {"default", "crash", "custom"}
    BY DEF IInv, TypeOK, Handlers
  <1> QED
    BY <1>2, <1>3, <1>4, <1>5

(* A handler of the program that returns takes its frame away and changes  *)
(* no disposition.                                                         *)
LEMMA ReturnEffect ==
  ASSUME IInv, NEW t \in Threads, CustomReturns(t)
  PROVE  /\ Len(stack[t]) > 0 /\ stack[t][Len(stack[t])].kind = "custom" /\ Kind(t) = "custom"
         /\ Keeps(t, Len(stack[t]) - 1) /\ Len(stack'[t]) = Len(stack[t]) - 1
         /\ UNCHANGED <<action, heap, ended, raised, overlap, meddled>>
  <1>1. stack[t] # << >> /\ stack[t][Len(stack[t])].kind = "custom" /\ Kind(t) = "custom"
    BY DEF CustomReturns, Kind
  <1>2. Len(stack[t]) > 0
    BY <1>1, Length
  <1>3. /\ stack' = [stack EXCEPT ![t] = Popped(t)]
        /\ UNCHANGED <<action, heap, ended, raised, overlap, meddled>>
    BY DEF CustomReturns
  <1>4. Keeps(t, Len(stack[t]) - 1) /\ Len(stack'[t]) = Len(stack[t]) - 1
    BY <1>1, <1>3, Pop DEF IInv
  <1> QED
    BY <1>1, <1>2, <1>3, <1>4

-----------------------------------------------------------------------------
(* A crash handler is left alone: Meddling is kept.                        *)

(* What another thread sets does not depend on the stack of t.             *)
LEMMA Others ==
  ASSUME NEW t \in Threads, NEW n \in Nat, Keeps(t, n), NEW u \in Threads \ {t}
  PROVE  Sets(u)' <=> Sets(u)
  BY DEF Keeps, Sets

(* What is known of a crash handler before a step.                         *)
LEMMA Before ==
  ASSUME IInv, ~meddled, NEW v \in Threads, NEW k \in 1 .. Len(stack[v]),
         stack[v][k].kind = "crash"
  PROVE  /\ \A u \in Threads \ {v} : ~Sets(u)
         /\ \A j \in 1 .. Len(stack[v]) : j > k /\ stack[v][j].kind = "set" => stack[v][j].to = "default"
         /\ k < Len(stack[v]) => stack[v][k + 1].kind = "set"
         /\ \A s \in Signals : k = Len(stack[v]) \/ s < stack[v][k + 1].at => action[s] = "default"
         /\ Has(v, "crash")
  <1>1. stack[v] \in Seq(Frames) /\ DOMAIN stack[v] = 1 .. Len(stack[v])
    BY Length
  <1>2. CrashInv(v, k)
    BY <1>1 DEF IInv, Meddling
  <1> QED
    BY <1>1, <1>2 DEF CrashInv, Has

(* A program that begins a call of xcp_set_crash_handler keeps what is     *)
(* known of the crash handlers that run, or has meddled.                   *)
LEMMA SetMeddling ==
  ASSUME IInv, NEW t \in Threads, NEW to \in Handlers, SetCrashHandler(t, to),
         TypeOK', ~meddled'
  PROVE  \A v \in Threads : \A k \in DOMAIN stack'[v] : CrashInv(v, k)'
  <1>1. SUFFICES ASSUME NEW v \in Threads, NEW k \in DOMAIN stack'[v], stack'[v][k].kind = "crash"
                 PROVE  CrashInv(v, k)'
    BY DEF CrashInv
  <1>2. PICK l \in Nat : /\ l = Len(stack[t]) /\ Keeps(t, l) /\ Len(stack'[t]) = l + 1
                         /\ stack'[t][l + 1] = [kind |-> "set", at |-> 1, to |-> to]
                         /\ UNCHANGED action
    BY SetEffect, Length
  <1>3. \A u \in Threads : DOMAIN stack'[u] = 1 .. Len(stack'[u]) /\ Len(stack'[u]) \in Nat
    BY DEF TypeOK
  <1>4. k \in 1 .. Len(stack[v]) /\ stack[v][k].kind = "crash"
    BY <1>1, <1>2, <1>3 DEF Keeps
  <1>5. ~meddled /\ (to # "default" => \A u \in Threads : ~Has(u, "crash")) /\ Kind(t) # "crash"
    BY DEF SetCrashHandler
  <1>6. /\ \A u \in Threads \ {v} : ~Sets(u)
        /\ \A j \in 1 .. Len(stack[v]) : j > k /\ stack[v][j].kind = "set" => stack[v][j].to = "default"
        /\ k < Len(stack[v]) => stack[v][k + 1].kind = "set"
        /\ \A s \in Signals : k = Len(stack[v]) \/ s < stack[v][k + 1].at => action[s] = "default"
        /\ to = "default"
    BY <1>4, <1>5, Before
  <1>7. \A u \in Threads \ {v} : ~Sets(u)'
    <2>1. v # t => ~Sets(t)'
      <3>1. SUFFICES ASSUME v # t, NEW j \in 1 .. l + 1, stack'[t][j].kind = "set"
                     PROVE  stack'[t][j].to = "default"
        BY <1>2, <1>3 DEF Sets
      <3>2. j \in 1 .. l => stack'[t][j] = stack[t][j] /\ j \in DOMAIN stack[t]
        BY <1>2, Length DEF Keeps
      <3> QED
        BY <3>1, <3>2, <1>2, <1>6 DEF Sets
    <2> QED
      BY <2>1, <1>2, <1>6, Others
  <1>8. CASE v = t
    <2>1. k < l
      BY <1>2, <1>4, <1>5, <1>8, Length DEF Kind
    <2>2. stack'[t][k + 1] = stack[t][k + 1]
      BY <2>1, <1>2, <1>4 DEF Keeps
    <2> QED
      <3>1. ASSUME NEW j \in DOMAIN stack'[t], j > k, stack'[t][j].kind = "set"
            PROVE  stack'[t][j].to = "default"
        <4>1. j \in 1 .. l \/ j = l + 1
          BY <1>2, <1>3
        <4> QED
          BY <4>1, <3>1, <1>2, <1>6, <1>8 DEF Keeps
      <3>2. stack'[t][k + 1].kind = "set" /\ \A s \in Signals : s < stack'[t][k + 1].at => action'[s] = "default"
        BY <2>1, <2>2, <1>2, <1>6, <1>8
      <3>3. k # Len(stack'[t])
        BY <2>1, <1>2
      <3> QED
        BY <3>1, <3>2, <3>3, <1>7, <1>8 DEF CrashInv
  <1>9. CASE v # t
    BY <1>2, <1>3, <1>6, <1>7, <1>9 DEF CrashInv, Keeps
  <1> QED
    BY <1>8, <1>9

(* The return of a handler of the program keeps what is known of the crash *)
(* handlers that run.                                                      *)
LEMMA ReturnMeddling ==
  ASSUME IInv, NEW t \in Threads, CustomReturns(t), TypeOK', ~meddled'
  PROVE  \A v \in Threads : \A k \in DOMAIN stack'[v] : CrashInv(v, k)'
  <1>1. SUFFICES ASSUME NEW v \in Threads, NEW k \in DOMAIN stack'[v], stack'[v][k].kind = "crash"
                 PROVE  CrashInv(v, k)'
    BY DEF CrashInv
  <1>2. PICK l \in Nat : /\ l = Len(stack[t]) /\ l > 0 /\ stack[t][l].kind = "custom"
                         /\ Keeps(t, l - 1) /\ Len(stack'[t]) = l - 1
                         /\ UNCHANGED <<action, meddled>>
    BY ReturnEffect, Length
  <1>3. \A u \in Threads : DOMAIN stack'[u] = 1 .. Len(stack'[u]) /\ Len(stack'[u]) \in Nat
    BY DEF TypeOK
  <1>4. k \in 1 .. Len(stack[v]) /\ stack[v][k].kind = "crash"
    BY <1>1, <1>2, <1>3 DEF Keeps
  <1>6. /\ \A u \in Threads \ {v} : ~Sets(u)
        /\ \A j \in 1 .. Len(stack[v]) : j > k /\ stack[v][j].kind = "set" => stack[v][j].to = "default"
        /\ k < Len(stack[v]) => stack[v][k + 1].kind = "set"
        /\ \A s \in Signals : k = Len(stack[v]) \/ s < stack[v][k + 1].at => action[s] = "default"
    BY <1>2, <1>4, Before
  <1>7. \A u \in Threads \ {v} : ~Sets(u)'
    <2>1. v # t => ~Sets(t)'
      BY <1>2, <1>3, <1>6, Length DEF Keeps, Sets
    <2> QED
      BY <2>1, <1>2, <1>6, Others
  <1>8. CASE v = t
    <2>1. k < l - 1
      BY <1>1, <1>2, <1>3, <1>6, <1>8
    <2>2. stack'[t][k + 1] = stack[t][k + 1]
      BY <2>1, <1>2, <1>4 DEF Keeps
    <2> QED
      <3>1. ASSUME NEW j \in DOMAIN stack'[t], j > k, stack'[t][j].kind = "set"
            PROVE  stack'[t][j].to = "default"
        <4>1. j \in 1 .. l - 1
          BY <1>2, <1>3
        <4> QED
          BY <4>1, <3>1, <1>2, <1>6, <1>8 DEF Keeps
      <3>2. stack'[t][k + 1].kind = "set" /\ \A s \in Signals : s < stack'[t][k + 1].at => action'[s] = "default"
        BY <2>1, <2>2, <1>2, <1>6, <1>8
      <3>3. k # Len(stack'[t])
        BY <2>1, <1>2
      <3> QED
        BY <3>1, <3>2, <3>3, <1>7, <1>8 DEF CrashInv
  <1>9. CASE v # t
    BY <1>2, <1>3, <1>6, <1>7, <1>9 DEF CrashInv, Keeps
  <1> QED
    BY <1>8, <1>9

(* So does a call of signal in the loop: it is the crash handler's own, and*)
(* takes its reset one signal further.                                     *)
LEMMA SignalMeddling ==
  ASSUME IInv, NEW t \in Threads, SignalCall(t), TypeOK', ~meddled'
  PROVE  \A v \in Threads : \A k \in DOMAIN stack'[v] : CrashInv(v, k)'
  <1>1. SUFFICES ASSUME NEW v \in Threads, NEW k \in DOMAIN stack'[v], stack'[v][k].kind = "crash"
                 PROVE  CrashInv(v, k)'
    BY DEF CrashInv
  <1>2. PICK l \in Nat, at \in Signals, to \in Handlers :
          /\ l = Len(stack[t]) /\ l > 0 /\ Keeps(t, l - 1)
          /\ stack[t][l].kind = "set" /\ stack[t][l].at = at /\ stack[t][l].to = to
          /\ action' = [action EXCEPT ![at] = to] /\ UNCHANGED meddled
          /\ IF at = Last
             THEN Len(stack'[t]) = l - 1
             ELSE Len(stack'[t]) = l /\ stack'[t][l] = [kind |-> "set", at |-> at + 1, to |-> to]
    <2>1. /\ Len(stack[t]) \in Nat /\ Len(stack[t]) > 0 /\ Keeps(t, Len(stack[t]) - 1)
          /\ Top(t).at \in Signals /\ Top(t).to \in Handlers /\ Top(t) = stack[t][Len(stack[t])]
          /\ stack[t][Len(stack[t])].kind = "set"
          /\ action' = [action EXCEPT ![Top(t).at] = Top(t).to] /\ UNCHANGED meddled
          /\ IF Top(t).at = Last
             THEN Len(stack'[t]) = Len(stack[t]) - 1
             ELSE /\ Len(stack'[t]) = Len(stack[t])
                  /\ stack'[t][Len(stack[t])] = [kind |-> "set", at |-> Top(t).at + 1, to |-> Top(t).to]
      BY SignalEffect, Length
    <2> QED
      BY <2>1
  <1>3. \A u \in Threads : DOMAIN stack'[u] = 1 .. Len(stack'[u]) /\ Len(stack'[u]) \in Nat
    BY DEF TypeOK
  <1>c. k \in 1 .. Len(stack[v]) /\ k \in Nat /\ (v = t => k \in 1 .. l - 1)
    BY <1>1, <1>2, <1>3 DEF Keeps
  <1>4. stack[v][k].kind = "crash"
    BY <1>1, <1>2, <1>c DEF Keeps
  <1>6. /\ \A u \in Threads \ {v} : ~Sets(u)
        /\ \A j \in 1 .. Len(stack[v]) : j > k /\ stack[v][j].kind = "set" => stack[v][j].to = "default"
        /\ k < Len(stack[v]) => stack[v][k + 1].kind = "set"
        /\ \A s \in Signals : k = Len(stack[v]) \/ s < stack[v][k + 1].at => action[s] = "default"
    BY <1>2, <1>c, <1>4, Before
  <1>5. to = "default"
    <2>1. CASE v = t
      BY <2>1, <1>2, <1>c, <1>6
    <2>2. CASE v # t
      BY <2>2, <1>2, <1>6, Length DEF Sets
    <2> QED
      BY <2>1, <2>2
  <1>a. action'[at] = "default" /\ \A s \in Signals : action[s] = "default" => action'[s] = "default"
    BY <1>2, <1>5 DEF IInv, TypeOK
  <1>7. \A u \in Threads \ {v} : ~Sets(u)'
    <2>1. v # t => ~Sets(t)'
      <3>1. SUFFICES ASSUME v # t, NEW j \in DOMAIN stack'[t], stack'[t][j].kind = "set"
                     PROVE  stack'[t][j].to = "default"
        BY DEF Sets
      <3>2. j \in 1 .. l - 1 => stack'[t][j] = stack[t][j] /\ j \in DOMAIN stack[t]
        BY <1>2, Length DEF Keeps
      <3>3. j \in 1 .. l - 1 \/ (j = l /\ at # Last)
        BY <1>2, <1>3
      <3> QED
        BY <3>1, <3>2, <3>3, <1>2, <1>5, <1>6 DEF Sets
    <2> QED
      BY <2>1, <1>2, <1>6, Others
  <1>8. CASE v = t
    <2>1. ASSUME NEW j \in DOMAIN stack'[t], j > k, stack'[t][j].kind = "set"
          PROVE  stack'[t][j].to = "default"
      <3>1. j \in 1 .. l - 1 \/ (j = l /\ at # Last)
        BY <1>2, <1>3
      <3>2. j \in 1 .. l - 1 => stack'[t][j] = stack[t][j]
        BY <1>2 DEF Keeps
      <3> QED
        BY <3>1, <3>2, <2>1, <1>2, <1>5, <1>6, <1>8
    <2>2. CASE k = l - 1
      <3>1. stack[t][k + 1].at = at /\ \A s \in Signals : s < at => action'[s] = "default"
        BY <2>2, <1>2, <1>6, <1>8, <1>a, <1>c
      <3>2. CASE at = Last
        <4>1. \A s \in Signals : s < at \/ s = at
          BY <3>2, CrashAssumption DEF Signals
        <4>2. k = Len(stack'[t]) /\ \A s \in Signals : action'[s] = "default"
          BY <3>1, <3>2, <4>1, <2>2, <1>2, <1>a
        <4> QED
          BY <4>2, <2>1, <1>7, <1>8 DEF CrashInv
      <3>3. CASE at # Last
        <4>1. k # Len(stack'[t]) /\ stack'[t][k + 1].kind = "set" /\ stack'[t][k + 1].at = at + 1
          BY <3>3, <2>2, <1>2, <1>c
        <4>2. \A s \in Signals : s < at + 1 => s < at \/ s = at
          BY CrashAssumption DEF Signals
        <4> QED
          BY <4>1, <4>2, <3>1, <2>1, <1>7, <1>8, <1>a DEF CrashInv
      <3> QED
        BY <3>2, <3>3
    <2>3. CASE k < l - 1
      <3>1. k + 1 \in 1 .. l - 1 /\ k # Len(stack'[t]) /\ k < l
        BY <2>3, <1>2, <1>c
      <3>2. stack'[t][k + 1] = stack[t][k + 1]
        BY <3>1, <1>2 DEF Keeps
      <3>3. stack'[t][k + 1].kind = "set" /\ \A s \in Signals : s < stack'[t][k + 1].at => action'[s] = "default"
        BY <3>1, <3>2, <1>2, <1>6, <1>8, <1>a
      <3> QED
        BY <3>1, <3>3, <2>1, <1>7, <1>8 DEF CrashInv
    <2> QED
      BY <2>2, <2>3, <1>2, <1>8, <1>c
  <1>9. CASE v # t
    <2>1. stack'[v] = stack[v]
      BY <1>2, <1>9 DEF Keeps
    <2>2. \A s \in Signals : k = Len(stack[v]) \/ s < stack[v][k + 1].at => action'[s] = "default"
      BY <1>6, <1>a
    <2> QED
      BY <2>1, <2>2, <1>3, <1>6, <1>7 DEF CrashInv
  <1> QED
    BY <1>8, <1>9

(* So does a signal: a crash handler that it starts has set nothing yet,   *)
(* and meets no other call, or has meddled.                                *)
LEMMA RaiseMeddling ==
  ASSUME IInv, NEW t \in Threads, NEW sig \in Signals, Raise(t, sig), TypeOK', ~meddled'
  PROVE  \A v \in Threads : \A k \in DOMAIN stack'[v] : CrashInv(v, k)'
  <1>1. CASE UNCHANGED <<stack, overlap, meddled>>
    <2>1. UNCHANGED action
      BY RaiseEffect
    <2> QED
      BY <1>1, <2>1 DEF IInv, Meddling, CrashInv, Sets
  <1>2. CASE ~UNCHANGED <<stack, overlap, meddled>>
    <2>1. SUFFICES ASSUME NEW v \in Threads, NEW k \in DOMAIN stack'[v], stack'[v][k].kind = "crash"
                   PROVE  CrashInv(v, k)'
      BY DEF CrashInv
    <2>2. PICK l \in Nat :
            /\ l = Len(stack[t]) /\ Keeps(t, l) /\ UNCHANGED action /\ action[sig] # "default"
            /\ stack'[t][l + 1].kind = action[sig] /\ ~meddled
            /\ action[sig] = "crash" => \A u \in Threads \ {t} : ~Sets(u)
            /\ IF action[sig] = "crash"
               THEN /\ Len(stack'[t]) = l + 2
                    /\ stack'[t][l + 2] = [kind |-> "set", at |-> 1, to |-> "default"]
               ELSE action[sig] = "custom" /\ Len(stack'[t]) = l + 1
      <3>1. /\ Len(stack[t]) \in Nat /\ Keeps(t, Len(stack[t])) /\ UNCHANGED action
            /\ action[sig] # "default" /\ stack'[t][Len(stack[t]) + 1].kind = action[sig]
            /\ IF action[sig] = "crash"
               THEN /\ Len(stack'[t]) = Len(stack[t]) + 2
                    /\ stack'[t][Len(stack[t]) + 2] = [kind |-> "set", at |-> 1, to |-> "default"]
               ELSE action[sig] = "custom" /\ Len(stack'[t]) = Len(stack[t]) + 1
        BY <1>2, RaiseEffect, Length
      <3>2. /\ action[sig] = "custom" => UNCHANGED <<overlap, meddled>>
            /\ action[sig] = "crash" => meddled' = (meddled \/ \E u \in Threads \ {t} : Sets(u))
        BY <1>2, RaiseEffect
      <3>3. ~meddled /\ (action[sig] = "crash" => \A u \in Threads \ {t} : ~Sets(u))
        <4>1. CASE action[sig] = "crash"
          <5>1. meddled' = (meddled \/ \E u \in Threads \ {t} : Sets(u))
            BY <3>2, <4>1
          <5> QED
            BY <5>1
        <4>2. CASE action[sig] = "custom"
          BY <3>2, <4>2
        <4> QED
          BY <3>1, <4>1, <4>2
      <3> QED
        BY <3>1, <3>3
    <2>3. \A u \in Threads : DOMAIN stack'[u] = 1 .. Len(stack'[u]) /\ Len(stack'[u]) \in Nat
      BY DEF TypeOK
    <2>4. \A j \in DOMAIN stack'[t] :
            \/ j \in 1 .. l /\ stack'[t][j] = stack[t][j] /\ j \in DOMAIN stack[t]
            \/ j = l + 1 /\ stack'[t][j].kind # "set"
            \/ j = l + 2 /\ stack'[t][j].to = "default"
      <3>1. \A j \in DOMAIN stack'[t] : j \in 1 .. l \/ j = l + 1 \/ (j = l + 2 /\ action[sig] = "crash")
        BY <2>2, <2>3
      <3>2. \A j \in 1 .. l : stack'[t][j] = stack[t][j] /\ j \in DOMAIN stack[t]
        BY <2>2, Length DEF Keeps
      <3> QED
        BY <3>1, <3>2, <2>2
    <2>5. Sets(t)' => Sets(t)
      BY <2>4 DEF Sets
    <2>6. CASE v = t /\ k = l + 1
      <3>1. action[sig] = "crash" /\ stack'[t][k + 1] = [kind |-> "set", at |-> 1, to |-> "default"]
            /\ Len(stack'[t]) = k + 1
        BY <2>1, <2>2, <2>6
      <3>2. \A s \in Signals : ~(s < 1)
        BY CrashAssumption DEF Signals
      <3>3. \A u \in Threads \ {t} : ~Sets(u)'
        BY <3>1, <2>2, Others
      <3>4. \A j \in DOMAIN stack'[t] : j > k => j = k + 1
        BY <3>1, <2>2, <2>3, <2>6
      <3> QED
        BY <3>1, <3>2, <3>3, <3>4, <2>2, <2>6 DEF CrashInv
    <2>7. CASE ~(v = t /\ k = l + 1)
      <3>1. k \in 1 .. Len(stack[v]) /\ stack'[v][k] = stack[v][k]
        <4>1. CASE v = t
          BY <4>1, <2>1, <2>2, <2>3, <2>7 DEF Keeps
        <4>2. CASE v # t
          BY <4>2, <2>1, <2>2, <2>3 DEF Keeps
        <4> QED
          BY <4>1, <4>2
      <3>2. /\ \A u \in Threads \ {v} : ~Sets(u)
            /\ \A j \in 1 .. Len(stack[v]) : j > k /\ stack[v][j].kind = "set" => stack[v][j].to = "default"
            /\ k < Len(stack[v]) => stack[v][k + 1].kind = "set"
            /\ \A s \in Signals : k = Len(stack[v]) \/ s < stack[v][k + 1].at => action[s] = "default"
        BY <3>1, <2>1, <2>2, Before
      <3>3. \A u \in Threads \ {v} : ~Sets(u)'
        BY <3>2, <2>2, <2>5, Others
      <3>4. k < Len(stack[v])
        BY <3>1, <3>2, <2>2, Length
      <3>5. CASE v = t
        <4>1. stack'[t][k + 1] = stack[t][k + 1] /\ k # Len(stack'[t])
          BY <3>1, <3>4, <3>5, <2>2 DEF Keeps
        <4>2. \A j \in DOMAIN stack'[t] : j > k /\ stack'[t][j].kind = "set" => stack'[t][j].to = "default"
          BY <2>2, <2>4, <3>2, <3>5
        <4> QED
          BY <4>1, <4>2, <3>2, <3>3, <3>4, <3>5, <2>2 DEF CrashInv
      <3>6. CASE v # t
        BY <3>2, <3>3, <3>6, <2>2, <2>3 DEF CrashInv, Keeps
      <3> QED
        BY <3>5, <3>6
    <2> QED
      BY <2>6, <2>7
  <1> QED
    BY <1>1, <1>2

-----------------------------------------------------------------------------
(* One call at a time is a clean cut through the signals: Overlapping is   *)
(* kept.                                                                   *)

(* Where the calls of xcp_set_crash_handler are on the stacks.             *)
LEMMA SetKinds ==
  ASSUME IInv, TypeOK'
  PROVE  \A u \in Threads : \A k \in Nat :
           /\ IsSet(u, k) <=> k \in 1 .. Len(stack[u]) /\ stack[u][k].kind = "set"
           /\ IsSet(u, k)' <=> k \in 1 .. Len(stack'[u]) /\ stack'[u][k].kind = "set"
  <1>1. \A u \in Threads : DOMAIN stack[u] = 1 .. Len(stack[u])
    BY Length
  <1>2. \A u \in Threads : DOMAIN stack'[u] = 1 .. Len(stack'[u])
    BY DEF TypeOK
  <1> QED
    BY <1>1, <1>2 DEF IsSet

(* The frame of a call that has begun alone.                               *)
LEMMA FirstCall ==
  ASSUME IInv, NEW t \in Threads, NEW n \in Nat, NEW to, UNCHANGED action, ~overlap,
         \A u \in Threads : \A k \in Nat : ~IsSet(u, k),
         \A u \in Threads : \A k \in Nat : IsSet(u, k)' <=> u = t /\ k = n,
         stack'[t][n] = [kind |-> "set", at |-> 1, to |-> to]
  PROVE  Overlapping'
  <1>1. \A s \in Signals : s >= 1 /\ ~(s < 1)
    BY CrashAssumption DEF Signals
  <1>2. \A s, r \in Signals : action[s] = action[r]
    BY DEF IInv, Overlapping
  <1> QED
    BY <1>1, <1>2 DEF Overlapping

(* A step that changes neither a disposition nor such a call keeps the one *)
(* call under way and what it has set.                                     *)
LEMMA SameCalls ==
  ASSUME IInv, UNCHANGED <<action, overlap>>,
         \A u \in Threads : \A k \in Nat : IsSet(u, k)' <=> IsSet(u, k),
         \A u \in Threads : \A k \in Nat : IsSet(u, k) => stack'[u][k] = stack[u][k]
  PROVE  Overlapping'
  BY DEF IInv, Overlapping

(* The call that begins is the only one, or overlaps another.              *)
LEMMA SetOverlapping ==
  ASSUME IInv, NEW t \in Threads, NEW to \in Handlers, SetCrashHandler(t, to), TypeOK'
  PROVE  Overlapping'
  <1>1. SUFFICES ASSUME ~overlap' PROVE Overlapping'
    BY DEF Overlapping
  <1>2. PICK l \in Nat : /\ l = Len(stack[t]) /\ Keeps(t, l) /\ Len(stack'[t]) = l + 1
                         /\ stack'[t][l + 1] = [kind |-> "set", at |-> 1, to |-> to]
                         /\ UNCHANGED action
    BY SetEffect, Length
  <1>3. ~overlap /\ \A u \in Threads : ~Has(u, "set")
    BY <1>1 DEF SetCrashHandler
  <1>4. \A u \in Threads : \A k \in Nat : ~IsSet(u, k)
    BY <1>3 DEF Has, IsSet
  <1>5. \A u \in Threads : \A k \in Nat : IsSet(u, k)' <=> u = t /\ k = l + 1
    BY <1>2, <1>4, SetKinds DEF Keeps
  <1> QED
    BY <1>2, <1>3, <1>4, <1>5, FirstCall

(* A call of signal moves one signal from those still to set to those set. *)
LEMMA SignalOverlapping ==
  ASSUME IInv, NEW t \in Threads, SignalCall(t), TypeOK'
  PROVE  Overlapping'
  <1>1. SUFFICES ASSUME ~overlap' PROVE Overlapping'
    BY DEF Overlapping
  <1>2. PICK l \in Nat, at \in Signals, to \in Handlers :
          /\ l = Len(stack[t]) /\ l > 0 /\ Keeps(t, l - 1)
          /\ stack[t][l].kind = "set" /\ stack[t][l].at = at /\ stack[t][l].to = to
          /\ action' = [action EXCEPT ![at] = to] /\ UNCHANGED overlap
          /\ IF at = Last
             THEN Len(stack'[t]) = l - 1
             ELSE Len(stack'[t]) = l /\ stack'[t][l] = [kind |-> "set", at |-> at + 1, to |-> to]
    <2>1. /\ Len(stack[t]) \in Nat /\ Len(stack[t]) > 0 /\ Keeps(t, Len(stack[t]) - 1)
          /\ Top(t).at \in Signals /\ Top(t).to \in Handlers /\ Top(t) = stack[t][Len(stack[t])]
          /\ stack[t][Len(stack[t])].kind = "set"
          /\ action' = [action EXCEPT ![Top(t).at] = Top(t).to] /\ UNCHANGED overlap
          /\ IF Top(t).at = Last
             THEN Len(stack'[t]) = Len(stack[t]) - 1
             ELSE /\ Len(stack'[t]) = Len(stack[t])
                  /\ stack'[t][Len(stack[t])] = [kind |-> "set", at |-> Top(t).at + 1, to |-> Top(t).to]
      BY SignalEffect, Length
    <2> QED
      BY <2>1
  <1>3. IsSet(t, l)
    BY <1>2, Length DEF IsSet
  <1>4. /\ \A u \in Threads : \A k \in Nat : IsSet(u, k) <=> u = t /\ k = l
        /\ \A s \in Signals : s < at => action[s] = to
        /\ \A s, r \in Signals : s >= at /\ r >= at => action[s] = action[r]
    BY <1>1, <1>2, <1>3 DEF IInv, Overlapping
  <1>5. /\ action'[at] = to /\ \A s \in Signals : s # at => action'[s] = action[s]
        /\ \A s \in Signals : s \in Int /\ s <= Last
    BY <1>2, CrashAssumption DEF IInv, TypeOK, Signals
  <1>6. \A u \in Threads : \A k \in Nat : IsSet(u, k)' <=> u = t /\ k = l /\ at # Last
    BY <1>2, <1>4, SetKinds DEF Keeps
  <1>7. CASE at = Last
    <2>1. \A s \in Signals : action'[s] = to
      BY <1>4, <1>5, <1>7
    <2> QED
      BY <2>1, <1>6, <1>7 DEF Overlapping
  <1>8. CASE at # Last
    <2>1. /\ \A s \in Signals : s < at + 1 => action'[s] = to
          /\ \A s, r \in Signals : s >= at + 1 /\ r >= at + 1 => action'[s] = action'[r]
      BY <1>4, <1>5
    <2>2. stack'[t][l].at = at + 1 /\ stack'[t][l].to = to
      BY <1>2, <1>8
    <2> QED
      BY <2>1, <2>2, <1>2, <1>6, <1>8 DEF Overlapping
  <1> QED
    BY <1>7, <1>8

(* The reset that a crash handler begins with is the only call, or overlaps*)
(* the one it has interrupted.                                             *)
LEMMA RaiseOverlapping ==
  ASSUME IInv, NEW t \in Threads, NEW sig \in Signals, Raise(t, sig), TypeOK'
  PROVE  Overlapping'
  <1>1. SUFFICES ASSUME ~overlap' PROVE Overlapping'
    BY DEF Overlapping
  <1>2. CASE UNCHANGED <<stack, overlap, meddled>>
    <2>1. UNCHANGED action
      BY RaiseEffect
    <2> QED
      BY <1>2, <2>1, SameCalls DEF IsSet
  <1>3. CASE ~UNCHANGED <<stack, overlap, meddled>>
    <2>1. PICK l \in Nat :
            /\ l = Len(stack[t]) /\ Keeps(t, l) /\ UNCHANGED action
            /\ stack'[t][l + 1].kind = action[sig] /\ action[sig] # "set"
            /\ IF action[sig] = "crash"
               THEN /\ Len(stack'[t]) = l + 2
                    /\ stack'[t][l + 2] = [kind |-> "set", at |-> 1, to |-> "default"]
               ELSE action[sig] = "custom" /\ Len(stack'[t]) = l + 1
      BY <1>3, RaiseEffect, Length
    <2>2. CASE action[sig] = "crash"
      <3>1. overlap' = (overlap \/ \E u \in Threads : Has(u, "set"))
        BY <1>3, <2>2, RaiseEffect
      <3>2. ~overlap /\ \A u \in Threads : \A k \in Nat : ~IsSet(u, k)
        BY <1>1, <3>1 DEF Has, IsSet
      <3>3. \A u \in Threads : \A k \in Nat : IsSet(u, k)' <=> u = t /\ k = l + 2
        BY <2>1, <2>2, <3>2, SetKinds DEF Keeps
      <3> QED
        BY <2>1, <2>2, <3>2, <3>3, FirstCall
    <2>3. CASE action[sig] = "custom"
      <3>1. overlap' = overlap
        BY <1>3, <2>3, RaiseEffect
      <3>2. \A u \in Threads : \A k \in Nat : IsSet(u, k)' <=> IsSet(u, k)
        <4>1. \A k \in Nat : IsSet(t, k)' <=> k \in 1 .. l /\ stack'[t][k].kind = "set"
          BY <2>1, <2>3, SetKinds
        <4>2. \A k \in Nat : IsSet(t, k)' <=> IsSet(t, k)
          BY <4>1, <2>1, SetKinds DEF Keeps
        <4>3. \A u \in Threads \ {t} : \A k \in Nat : IsSet(u, k)' <=> IsSet(u, k)
          BY <2>1, SetKinds DEF Keeps
        <4> QED
          BY <4>2, <4>3
      <3>3. \A u \in Threads : \A k \in Nat : IsSet(u, k) => stack'[u][k] = stack[u][k]
        BY <2>1, SetKinds DEF Keeps
      <3> QED
        BY <2>1, <3>1, <3>2, <3>3, SameCalls
    <2> QED
      BY <2>1, <2>2, <2>3
  <1> QED
    BY <1>2, <1>3

(* The return of a handler of the program changes no call.                 *)
LEMMA ReturnOverlapping ==
  ASSUME IInv, NEW t \in Threads, CustomReturns(t), TypeOK'
  PROVE  Overlapping'
  <1>1. PICK l \in Nat : /\ l = Len(stack[t]) /\ l > 0 /\ stack[t][l].kind = "custom"
                         /\ Keeps(t, l - 1) /\ Len(stack'[t]) = l - 1
                         /\ UNCHANGED <<action, overlap>>
    BY ReturnEffect, Length
  <1>2. \A u \in Threads : \A k \in Nat : IsSet(u, k)' <=> IsSet(u, k)
    BY <1>1, SetKinds DEF Keeps
  <1>3. \A u \in Threads : \A k \in Nat : IsSet(u, k) => stack'[u][k] = stack[u][k]
    BY <1>1, SetKinds DEF Keeps
  <1> QED
    BY <1>1, <1>2, <1>3, SameCalls

-----------------------------------------------------------------------------
(* The theorems.                                                           *)

(* Steps on the heap and of the trace change no stack and no disposition.  *)
LEMMA StackInvariants == IInv /\ TypeOK' /\ UNCHANGED <<action, stack, overlap, meddled>> =>
                           Meddling' /\ Overlapping'
  BY DEF IInv, Meddling, CrashInv, Overlapping, IsSet, Sets

(* Every step keeps the invariant.                                         *)
LEMMA NextInv ==
  ASSUME IInv, [Next]_vars
  PROVE  IInv'
  <1>1. ASSUME NEW t \in Threads, NEW to \in Handlers, SetCrashHandler(t, to)
        PROVE  IInv'
    BY <1>1, SetTypes, SetMeddling, SetOverlapping DEF IInv, Meddling
  <1>2. ASSUME NEW t \in Threads, SignalCall(t)
        PROVE  IInv'
    <2>1. /\ Kind(t) = "set" /\ action' \in [Signals -> Handlers]
          /\ UNCHANGED <<heap, ended, raised, overlap, meddled>>
      BY <1>2, SignalEffect DEF IInv, TypeOK
    <2>2. TypeOK' /\ \A u \in Threads : StackInv(u)'
      BY <1>2, <2>1, PopTypes, AdvanceTypes DEF SignalCall, LastCall
    <2> QED
      BY <1>2, <2>2, SignalMeddling, SignalOverlapping DEF IInv, Meddling
  <1>3. ASSUME NEW t \in Threads, NEW sig \in Signals, Raise(t, sig)
        PROVE  IInv'
    BY <1>3, RaiseTypes, RaiseMeddling, RaiseOverlapping DEF IInv, Meddling
  <1>4. ASSUME NEW t \in Threads, CustomReturns(t)
        PROVE  IInv'
    <2>1. TypeOK' /\ \A u \in Threads : StackInv(u)'
      BY <1>4, PopTypes DEF CustomReturns, IInv, TypeOK
    <2> QED
      BY <1>4, <2>1, ReturnMeddling, ReturnOverlapping DEF IInv, Meddling
  <1>5. ASSUME NEW t \in Threads, Trace(t) \/ TraceGoesOn(t) \/ Exit(t) \/ EnterHeap(t) \/ LeaveHeap(t)
        PROVE  IInv'
    <2>1. UNCHANGED <<action, stack, overlap, meddled>>
      BY <1>5 DEF Trace, TraceGoesOn, Exit, EnterHeap, LeaveHeap
    <2> QED
      BY <1>5, <2>1, HeapTypes, StackInvariants DEF IInv
  <1>6. CASE UNCHANGED vars
    BY <1>6 DEF vars, IInv, TypeOK, StackInv, Kind, Meddling, CrashInv, Overlapping, IsSet, Sets
  <1> QED
    BY <1>1, <1>2, <1>3, <1>4, <1>5, <1>6 DEF Next

(* The inductive invariant holds for any number of threads, of signals     *)
(* handled and of signals raised.                                          *)
LEMMA Invariant == Spec => []IInv
  BY InitInv, NextInv, PTL DEF Spec

(* The stacks stay within the bound that the signals raised give, no       *)
(* signal interrupts its own handler, and the lock of the heap is held by  *)
(* a thread.                                                               *)
THEOREM TypeCorrect == Spec => []TypeOK
  BY Invariant, PTL DEF IInv

(* While a trace is made every signal the library handles has its default  *)
(* action, however many there are and whatever arrives while they are      *)
(* reset: no signal begins another one (stacktrace.c 28-32).               *)
THEOREM NoTraceFollows == Spec => []NoSecondTrace
  <1>1. ASSUME IInv, ~meddled, NEW t \in Threads, Kind(t) = "crash", NEW s \in Signals
        PROVE  action[s] = "default"
    <2>1. PICK l \in Nat : l = Len(stack[t]) /\ l \in 1 .. Len(stack[t]) /\ stack[t][l].kind = "crash"
      BY <1>1, Length DEF Kind
    <2> QED
      BY <1>1, <2>1, Before
  <1>2. IInv => NoSecondTrace
    BY <1>1 DEF NoSecondTrace, Tracing
  <1> QED
    BY <1>2, Invariant, PTL

(* The calls of signal leave all signals with one disposition, unless two  *)
(* calls of xcp_set_crash_handler overlap (stacktrace.c 42-54).            *)
THEOREM OneForAll == Spec => []SameForAll
  <1>1. IInv => SameForAll
    BY DEF IInv, Overlapping, IsSet, Has, SameForAll
  <1> QED
    BY <1>1, Invariant, PTL
=============================================================================
