----------------------------- MODULE Coroutine ------------------------------
(***************************************************************************)
(* The coroutine scheduler of src/src/coroutine.c, as one thread sees it:  *)
(* xcp_coroutine_create, _resume, _yield and _process, the context switch  *)
(* xcp_coroutine_exec, the end of a callback in xcp_coroutine_run, and     *)
(* xcp_coroutine_destroy.                                                  *)
(*                                                                         *)
(* A context switch is a sigsetjmp into the env of the coroutine that is   *)
(* left and a siglongjmp to the env of the one that is entered.  `point'   *)
(* says where in the code a coroutine stands, and so where a jump to its   *)
(* env lands:                                                              *)
(*   none    not created             entry   env saved by _run, before cb  *)
(*   body    in user code            yield   in the exec of _yield         *)
(*   resume  in the exec of _resume  woken   exec of _resume has returned  *)
(*   loop    at _resume's while      done    in the last exec of _run      *)
(*   stray   a jump landed where no env was saved, or past the last exec   *)
(*                                                                         *)
(* Memory is modelled by what happens to a coroutine's block: an access to *)
(* a freed one, or a second free, is undefined behaviour in C; the model   *)
(* records it in `fault' and stops, as it does after abort().              *)
(***************************************************************************)
EXTENDS Naturals, FiniteSets

CONSTANTS
  Coroutines,   \* what xcp_coroutine_create can return
  Dummy,        \* threadData.dummy: stands for the thread's own stack
  NULL,
  NDEBUG,       \* TRUE when assert() is compiled out
  Uses          \* what the user code does beyond resume and yield:
                \*   "process"  call xcp_coroutine_process in a coroutine
                \*   "finish"   let a callback return in a pass in which the
                \*              coroutine was taken from a pending list
                \*   "relink"   hand over a coroutine that is still pending

All == Coroutines \cup {Dummy}

Points   == {"none", "entry", "body", "yield", "resume", "woken", "loop", "done", "stray"}
Statuses == {"Running", "Suspend", "Terminated"}
Faults   == {"none", "abort", "use_after_free", "double_free"}

ASSUME ConstantsAssumption ==
  /\ Dummy \notin Coroutines
  /\ NULL \notin All
  /\ NDEBUG \in BOOLEAN
  /\ Uses \subseteq {"process", "finish", "relink"}

VARIABLES
  current,      \* threadData.current
  caller,       \* XcpCoroutine.caller
  point,        \* where each coroutine stands
  heap,         \* the block of each coroutine: "none", "live" or "freed"
  next,         \* XcpCoroutine.next, the only link of a coroutine
  pendings,     \* XcpCoroutine.pendings, a queue head per coroutine
  argument,     \* `coroutine', the parameter of a running _resume
  callee,       \* `callee' of a running _resume, NULL before its first pass
  batch,        \* `pendings', the local queue head of a running _resume
  ret,          \* what the last siglongjmp made sigsetjmp return
  owed,         \* history: put on a pending list and not taken off since
  fault         \* "none" until the program aborts or its behaviour is undefined

locals == <<argument, callee, batch>>
vars   == <<current, caller, point, heap, next, pendings, locals, ret, owed, fault>>

Q == INSTANCE Stailq

Heads == [first : All \cup {NULL}, last : All \cup {NULL}]

TypeOK ==
  /\ current  \in All
  /\ caller   \in [All -> All \cup {NULL}]
  /\ point    \in [All -> Points]
  /\ heap     \in [All -> {"none", "live", "freed"}]
  /\ next     \in [All -> All \cup {NULL}]
  /\ pendings \in [All -> Heads]
  /\ argument \in [All -> All \cup {NULL}]
  /\ callee   \in [All -> All \cup {NULL}]
  /\ batch    \in [All -> Heads]
  /\ ret      \in Statuses
  /\ owed     \in SUBSET All
  /\ fault    \in Faults

(* Dummy is zeroed with the thread's data and its pending list never       *)
(* initialised.  Having no caller it adds nothing to that list; it is used *)
(* only after somebody has resumed Dummy, when a splice through its zeroed *)
(* head crashes where Settle aborts.                                       *)
Init ==
  /\ current  = Dummy
  /\ caller   = [c \in All |-> NULL]
  /\ point    = [c \in All |-> IF c = Dummy THEN "body" ELSE "none"]
  /\ heap     = [c \in All |-> IF c = Dummy THEN "live" ELSE "none"]
  /\ next     = [c \in All |-> NULL]
  /\ pendings = [c \in All |-> Q!Empty]
  /\ argument = [c \in All |-> NULL]
  /\ callee   = [c \in All |-> NULL]
  /\ batch    = [c \in All |-> Q!Empty]
  /\ ret      = "Running"
  /\ owed     = {}
  /\ fault    = "none"

-----------------------------------------------------------------------------
(* What stops the program.                                                 *)

Stop(kind) ==
  /\ fault' = kind
  /\ UNCHANGED <<current, caller, point, heap, next, pendings, locals, ret, owed>>

Freed(c) == c # NULL /\ heap[c] = "freed"

(* The user code runs: `current' is in its callback, or in main for Dummy. *)
InUserCode == fault = "none" /\ point[current] = "body"

(* The coroutines the user code holds a pointer to and may still use.  It  *)
(* knows which callbacks have returned; it cannot know what was freed.     *)
Handles == {c \in All : point[c] \notin {"none", "done"}}

MayHandOver(c) == c \in owed => "relink" \in Uses

-----------------------------------------------------------------------------
(* xcp_coroutine_exec(from, to, status): where the jump to `to' lands.     *)

Landing ==
  [entry |-> "body", yield |-> "body", resume |-> "woken", none |-> "stray",
   body |-> "stray", woken |-> "stray", loop |-> "stray", done |-> "stray",
   stray |-> "stray"]

Exec(from, to, status, saved) ==
  LET left == [point EXCEPT ![from] = saved]
  IN  /\ current' = to
      /\ point' = [left EXCEPT ![to] = Landing[left[to]]]
      /\ ret' = status

-----------------------------------------------------------------------------
(* xcp_coroutine_create.  What it does with the stack and the signal is    *)
(* the subject of CoroutineInit; here it makes a coroutine whose env, once *)
(* jumped to, starts the callback.  When malloc, mmap or mprotect fails it *)
(* returns NULL and nothing changes.                                       *)
Create(c) ==
  /\ InUserCode
  /\ point[c] = "none"
  /\ point'    = [point EXCEPT ![c] = "entry"]
  /\ heap'     = [heap EXCEPT ![c] = "live"]
  /\ caller'   = [caller EXCEPT ![c] = NULL]
  /\ pendings' = [pendings EXCEPT ![c] = Q!Empty]
  /\ UNCHANGED <<current, next, locals, ret, owed, fault>>

(* xcp_coroutine_resume up to its loop: the local queue holds `c'.         *)
Resume(c) ==
  /\ InUserCode
  /\ c \in Handles
  /\ MayHandOver(c)
  /\ \/ /\ Freed(c)
        /\ Stop("use_after_free")
     \/ /\ ~Freed(c)
        /\ next'     = Q!InsertLinks(next, Q!Empty, c)
        /\ argument' = [argument EXCEPT ![current] = c]
        /\ callee'   = [callee EXCEPT ![current] = NULL]
        /\ batch'    = [batch EXCEPT ![current] = Q!InsertHead(Q!Empty, c)]
        /\ point'    = [point EXCEPT ![current] = "loop"]
        /\ UNCHANGED <<current, caller, heap, pendings, ret, owed, fault>>

(* 2.a.  The first pending coroutine is taken off the queue and entered.   *)
Fetch ==
  LET self  == current
      first == batch[self].first
  IN  /\ fault = "none"
      /\ point[self] = "loop"
      /\ first # NULL
      /\ \/ /\ Freed(first)
            /\ Stop("use_after_free")
         \/ /\ ~Freed(first)
            /\ caller[first] # NULL
            /\ Stop("abort")                        \* Already called!
         \/ /\ ~Freed(first)
            /\ caller[first] = NULL
            /\ batch'  = [batch EXCEPT ![self] = Q!RemoveHead(next, @)]
            /\ callee' = [callee EXCEPT ![self] = first]
            /\ caller' = [caller EXCEPT ![first] = self]
            /\ owed'   = owed \ {first}
            /\ Exec(self, first, "Running", "resume")
            /\ UNCHANGED <<heap, next, pendings, argument, fault>>

(* 2.b.  Two STAILQ_CONCATs put the pending list `from' of the coroutine   *)
(* that ran in front of the local queue.                                   *)
Spliced_Behind(from, queue) ==
  [links |-> Q!ConcatLinks(next, queue, from), head |-> Q!ConcatHead(queue, from)]

Spliced_Overwrites(from, queue) == [links |-> next, head |-> from]

Spliced(from, queue) ==
  [links |-> Q!ConcatLinks(next, from, queue),
   head  |-> Q!ConcatHead(Q!Empty, Q!ConcatHead(from, queue))]

(* xcp_coroutine_destroy unmaps the stack and frees the block.             *)
Destroy(c) == [heap EXCEPT ![c] = "freed"]

(* Line 296: the block xcp_coroutine_destroy is given is that of the       *)
(* argument of _resume, whichever coroutine has terminated.                *)
Destroyed_Self == current

Destroyed == argument[current]

(* The case labels of the switch under which destroy is called.            *)
Destroys_OnSuspend(status) == status \in {"Terminated", "Suspend"}

Destroys(status) == status = "Terminated"

(* 2.b and the switch on what the callee did.                              *)
Settle ==
  LET self == current
      from == pendings[callee[self]]
      splices == batch[self].first # NULL
  IN  /\ fault = "none"
      /\ point[self] = "woken"
      /\ \/ /\ splices /\ Freed(from.last)
            /\ Stop("use_after_free")
         \/ /\ ~(splices /\ Freed(from.last))
            /\ ret = "Running"
            /\ Stop("abort")                        \* default: abort()
         \/ /\ ~(splices /\ Freed(from.last))
            /\ ret # "Running" /\ Destroys(ret) /\ Freed(Destroyed)
            /\ Stop("double_free")
         \/ /\ ~(splices /\ Freed(from.last))
            /\ ret # "Running" /\ ~(Destroys(ret) /\ Freed(Destroyed))
            /\ next'     = Spliced(from, batch[self]).links
            /\ batch'    = [batch EXCEPT ![self] = Spliced(from, @).head]
            /\ pendings' = [pendings EXCEPT ![callee[self]] = Q!Empty]
            /\ heap'     = IF Destroys(ret) THEN Destroy(Destroyed) ELSE heap
            /\ point'    = [point EXCEPT ![self] = "loop"]
            /\ UNCHANGED <<current, caller, argument, callee, ret, owed, fault>>

(* The queue is empty: _resume returns, its locals are gone.               *)
Leave ==
  /\ fault = "none"
  /\ point[current] = "loop"
  /\ batch[current].first = NULL
  /\ point'    = [point EXCEPT ![current] = "body"]
  /\ argument' = [argument EXCEPT ![current] = NULL]
  /\ callee'   = [callee EXCEPT ![current] = NULL]
  /\ batch'    = [batch EXCEPT ![current] = Q!Empty]
  /\ UNCHANGED <<current, caller, heap, next, pendings, ret, owed, fault>>

(* A yield that leaves the caller field as it was.                         *)
Yield_KeepsCaller ==
  /\ InUserCode
  /\ caller[current] # NULL
  /\ Exec(current, caller[current], "Suspend", "yield")
  /\ UNCHANGED <<caller, heap, next, pendings, locals, owed, fault>>

(* xcp_coroutine_yield.                                                    *)
Yield ==
  /\ InUserCode
  /\ \/ /\ caller[current] = NULL
        /\ Stop("abort")                            \* no caller
     \/ /\ caller[current] # NULL
        /\ caller' = [caller EXCEPT ![current] = NULL]
        /\ Exec(current, caller[current], "Suspend", "yield")
        /\ UNCHANGED <<heap, next, pendings, locals, owed, fault>>

(* A coroutine entered by the pass its caller was asked for.               *)
EnteredDirectly(c) == argument[caller[c]] = c

(* An end of a callback that clears the caller, as a yield does.           *)
Finish_ClearsCaller ==
  /\ InUserCode
  /\ current # Dummy
  /\ "finish" \in Uses \/ EnteredDirectly(current)
  /\ Exec(current, caller[current], "Terminated", "done")
  /\ caller' = [caller EXCEPT ![current] = NULL]
  /\ UNCHANGED <<heap, next, pendings, locals, owed, fault>>

(* The callback returns to xcp_coroutine_run, which leaves for good.  The  *)
(* caller field keeps its value.                                           *)
Finish ==
  /\ InUserCode
  /\ current # Dummy
  /\ "finish" \in Uses \/ EnteredDirectly(current)
  /\ Exec(current, caller[current], "Terminated", "done")
  /\ UNCHANGED <<caller, heap, next, pendings, locals, owed, fault>>

(* The branch of xcp_coroutine_process taken inside a coroutine.           *)
Enqueue(c) ==
  LET own == pendings[current]
  IN  /\ InUserCode
      /\ "process" \in Uses
      /\ c \in Handles
      /\ MayHandOver(c)
      /\ caller[current] # NULL
      /\ \/ /\ c = current /\ ~NDEBUG
            /\ Stop("abort")                        \* assert: no recursion
         \/ /\ c # current \/ NDEBUG
            /\ Freed(c) \/ Freed(own.last)
            /\ Stop("use_after_free")
         \/ /\ c # current \/ NDEBUG
            /\ ~Freed(c) /\ ~Freed(own.last)
            /\ next'     = Q!InsertLinks(next, own, c)
            /\ pendings' = [pendings EXCEPT ![current] = Q!InsertHead(own, c)]
            /\ owed'     = owed \cup {c}
            /\ UNCHANGED <<current, caller, point, heap, locals, ret, fault>>

(* xcp_coroutine_process.                                                  *)
Process(c) ==
  \/ Enqueue(c)
  \/ caller[current] = NULL /\ Resume(c)

Next ==
  \/ \E c \in Coroutines : Create(c)
  \/ \E c \in All : Resume(c)
  \/ \E c \in All : Process(c)
  \/ Fetch
  \/ Settle
  \/ Leave
  \/ Yield
  \/ Finish

Spec == Init /\ [][Next]_vars
-----------------------------------------------------------------------------
(* Properties.                                                             *)

(* The coroutines that have been entered and have not left: the thread's   *)
(* call chain.                                                             *)
Active == {Dummy} \cup {c \in Coroutines : caller[c] # NULL /\ point[c] # "done"}

(* A jump meant to start or continue a callback has landed in a _resume:   *)
(* somebody resumed Dummy.  The switch of that _resume aborts.             *)
Misdirected == point[current] = "woken" /\ ret = "Running"

Closed(B) == \A c \in B \ {Dummy} : caller[c] \in B

(* The caller links form one chain: followed from the current coroutine    *)
(* they visit every active one and end at the thread's own stack, and each *)
(* caller on the way waits in the exec of the _resume that entered the one *)
(* before it.  So every yield and every end of a callback returns to the   *)
(* _resume that is waiting for exactly that coroutine (coroutine.c 132-154, *)
(* 281-312), however resumes and pending passes nest.                      *)
CallChain ==
  ~Misdirected =>
    /\ current \in Active
    /\ \A c \in Active \ {Dummy} :
         point[caller[c]] = "resume" /\ callee[caller[c]] = c
    /\ \A B \in SUBSET Active : current \in B /\ Closed(B) => B = Active

(* "Not reachable." (coroutine.c 152): no jump continues a callback that   *)
(* has returned, nor lands on an env that was never saved or is out of     *)
(* date.                                                                   *)
NotReachable == \A c \in All : point[c] # "stray"

(* xcp_coroutine_destroy never unmaps a stack that is in use: whatever     *)
(* block line 296 frees, it is not that of a coroutine on the call chain.  *)
ActiveIsAllocated == \A c \in Active : heap[c] = "live"

(* The inductive invariant the proofs rest on.  Where each coroutine may   *)
(* stand, and what the locals of a running _resume hold:                   *)
Standing ==
  /\ point[current] \in {"body", "woken", "loop"}
  /\ \A c \in All \ {current} : point[c] \in {"none", "entry", "yield", "resume", "done"}
  /\ caller[Dummy] = NULL /\ point[Dummy] \in {"body", "woken", "loop", "resume"}
  /\ \A c \in Coroutines : caller[c] = NULL <=> point[c] \in {"none", "entry", "yield"}
  /\ \A c \in All :
       /\ point[c] \in {"resume", "woken", "loop"} => argument[c] \in All
       /\ point[c] \in {"resume", "woken"} => callee[c] # NULL
       /\ callee[c] # NULL => point[c] \in {"resume", "woken", "loop"}
       /\ point[c] = "loop" /\ callee[c] = NULL => batch[c].first = argument[c]

(* The argument of a running _resume is not on the part of the call chain  *)
(* from that _resume down: line 283 aborts when it is.                     *)
ArgumentOutside ==
  \A s \in All :
    callee[s] # NULL =>
      \E B \in SUBSET Active : s \in B /\ Closed(B) /\ argument[s] \notin B

(* Whatever a link, a queue or an argument leads to has been created, so   *)
(* that the env of a coroutine taken from a queue has been saved.          *)
Known == {c \in All : point[c] # "none"} \cup {NULL}

Pointers ==
  \A c \in All :
    /\ heap[c] = "none" <=> point[c] = "none"
    /\ next[c] \in Known /\ argument[c] \in Known
    /\ pendings[c].first \in Known /\ batch[c].first \in Known

(* All of it.  A misdirected jump breaks the chain for the one step until  *)
(* the abort.                                                              *)
IndInv ==
  /\ TypeOK /\ NotReachable /\ ActiveIsAllocated
  /\ ~Misdirected => Standing /\ Pointers /\ CallChain /\ ArgumentOutside

(* The elements of every queue, as a traversal of at most one link more    *)
(* than there are coroutines meets them.                                   *)
Queue(head) == Q!Walk(next, head, Cardinality(All))

Places(c) ==
  {p \in {"own", "batch"} \X All \X (1 .. Cardinality(All) + 1) :
     LET queue == Queue(IF p[1] = "own" THEN pendings[p[2]] ELSE batch[p[2]])
     IN  p[3] \in DOMAIN queue /\ queue[p[3]] = c}

(* A coroutine given to xcp_coroutine_process stays on exactly one pending *)
(* queue, once, through every splice and removal until a _resume enters    *)
(* it: none is lost, none is entered twice for one call (coroutine.c 279-292, *)
(* 322).                                                                   *)
PendingKept == \A c \in owed : Cardinality(Places(c)) = 1

(* "Return to the caller and execute pending coroutines." (coroutine.h 43): *)
(* what is pending can be executed, its block and stack still exist.       *)
PendingAllocated == \A c \in owed : heap[c] = "live"

(* No access to a freed coroutine and no second free, whatever the order   *)
(* of calls.                                                               *)
MemorySafe == fault \notin {"use_after_free", "double_free"}

(* A coroutine whose callback has returned is destroyed by the _resume     *)
(* that entered it as soon as that _resume runs again: no block leaks.     *)
FinishedIsFreed ==
  \A c \in Coroutines :
    point[c] = "done" =>
      heap[c] = "freed" \/ (point[current] = "woken" /\ callee[current] = c)

-----------------------------------------------------------------------------
(* Liveness.  The steps inside the library are the thread's next           *)
(* instructions, so they are taken.  User code is assumed to give control  *)
(* back: a coroutine that runs again and again yields or returns at last.  *)

LeavesBody(c) == current = c /\ (Yield \/ Finish)

LiveSpec ==
  /\ Spec
  /\ WF_vars(Fetch) /\ WF_vars(Settle) /\ WF_vars(Leave)
  /\ \A c \in Coroutines : SF_vars(LeavesBody(c))

(* Every coroutine on a pending list is entered at last, or the program    *)
(* stops.                                                                  *)
PendingIsRun ==
  \A c \in All : c \in owed ~> c \notin owed \/ fault # "none"

(* The same when xcp_coroutine_process is called inside coroutines only    *)
(* finitely often.  Without that proviso two coroutines that process each  *)
(* other keep the rest of the queue waiting, because a coroutine's own     *)
(* pending list is spliced in front of it (coroutine.c 291-292).           *)
PendingIsRunAtLast ==
  <>[][~\E c \in All : Enqueue(c)]_vars => PendingIsRun
=============================================================================
