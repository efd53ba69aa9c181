--------------------------- MODULE CoroutineInit ----------------------------
(***************************************************************************)
(* xcp_coroutine_create of src/src/coroutine.c in a program with several   *)
(* threads.  A new coroutine gets its stack by the signal trick of GNU     *)
(* Pth: xcp_coroutine_init makes the stack the alternate signal stack,     *)
(* sends SIGUSR1 to its own thread, and the handler, which runs on that    *)
(* stack, saves its context.  The signal mask, the alternate stack, the    *)
(* pending signal and the trampoline record belong to a thread; the        *)
(* disposition of SIGUSR1 belongs to the process.                          *)
(*                                                                         *)
(* pc[t] names the next step of thread t, after the numbers in the code:   *)
(*   idle  map  protect | block (1)  install (2)  swap (3)  raise (4)      *)
(*   wait (4, 5)  unswap  reinstall  unblock (6)  jump (7-11)  return (12) *)
(***************************************************************************)
EXTENDS Naturals, FiniteSets

CONSTANTS
  Threads,
  Coroutines,
  Serial,       \* TRUE when the program calls _create in one thread at a time
  MaxSignals    \* bound on the SIGUSR1s the program sends for its own purposes

ASSUME InitAssumption ==
  /\ Serial \in BOOLEAN
  /\ MaxSignals \in Nat
  /\ "app" \notin Coroutines /\ "unset" \notin Coroutines

Dispositions == {"default", "ignore", "app", "trampoline"}
Masks        == {"blocked", "open"}
Stacks       == Coroutines \cup {"app"}       \* "app": what the thread had

Steps == {"idle", "map", "protect", "block", "install", "swap", "raise", "wait", "unswap",
          "reinstall", "unblock", "jump", "return"}

VARIABLES
  pc,           \* where each thread is
  arg,          \* XcpCoroutine.arg: "unset", "oldEnv" or "userData"
  new,          \* the coroutine each thread is creating
  blocks,       \* coroutines whose struct is allocated
  stacks,       \* coroutines whose stack is mapped
  created,      \* coroutines xcp_coroutine_create has returned
  handler,      \* the disposition of SIGUSR1
  mask,         \* SIGUSR1 in the signal mask of a thread: "blocked" or "open"
  altstack,     \* the alternate signal stack of a thread
  raised,       \* is SIGUSR1 pending for a thread
  oldSa, oldSet, oldSs,                     \* locals of xcp_coroutine_init
  called,       \* trampoline.called
  trampoline,   \* trampoline.env: the stack its context was saved on
  env,          \* XcpCoroutine.env: the stack its context was saved on
  appHandler, appMask,                      \* history: what the program had set
  sent,         \* signals of the program's own, up to MaxSignals
  killed        \* the default action of SIGUSR1 was taken

memory == <<blocks, stacks, created, arg>>
kernel == <<handler, mask, altstack, raised>>
saved  == <<oldSa, oldSet, oldSs>>
envs   == <<called, trampoline, env>>
world  == <<appHandler, appMask, sent, killed>>
vars   == <<pc, new, memory, kernel, saved, envs, world>>

TypeOK ==
  /\ pc \in [Threads -> Steps]
  /\ new \in [Threads -> Coroutines \cup {"unset"}]
  /\ arg \in [Coroutines -> {"unset", "oldEnv", "userData"}]
  /\ blocks \in SUBSET Coroutines /\ stacks \in SUBSET Coroutines
  /\ created \in SUBSET Coroutines
  /\ handler \in Dispositions /\ mask \in [Threads -> Masks]
  /\ altstack \in [Threads -> Stacks] /\ raised \in [Threads -> BOOLEAN]
  /\ oldSa \in [Threads -> Dispositions \cup {"unset"}]
  /\ oldSet \in [Threads -> Masks \cup {"unset"}]
  /\ oldSs \in [Threads -> Stacks \cup {"unset"}]
  /\ called \in [Threads -> BOOLEAN]
  /\ trampoline \in [Threads -> Stacks \cup {"unset"}]
  /\ env \in [Coroutines -> Stacks \cup {"unset"}]
  /\ appHandler \in Dispositions \ {"trampoline"} /\ appMask \in [Threads -> Masks]
  /\ sent \in 0 .. MaxSignals /\ killed \in BOOLEAN

Init ==
  /\ pc = [t \in Threads |-> "idle"]
  /\ new = [t \in Threads |-> "unset"]
  /\ blocks = {} /\ stacks = {} /\ created = {}
  /\ arg = [c \in Coroutines |-> "unset"]
  /\ appHandler \in Dispositions \ {"trampoline"} /\ handler = appHandler
  /\ appMask \in [Threads -> Masks] /\ mask = appMask
  /\ altstack = [t \in Threads |-> "app"]
  /\ raised = [t \in Threads |-> FALSE]
  /\ oldSa = [t \in Threads |-> "unset"]
  /\ oldSet = [t \in Threads |-> "unset"]
  /\ oldSs = [t \in Threads |-> "unset"]
  /\ called = [t \in Threads |-> FALSE]
  /\ trampoline = [t \in Threads |-> "unset"]
  /\ env = [c \in Coroutines |-> "unset"]
  /\ sent = 0 /\ killed = FALSE

-----------------------------------------------------------------------------
(* Thread t goes from one step to the next while the process lives.        *)
Goes(t, from, to) ==
  /\ ~killed
  /\ pc[t] = from
  /\ pc' = [pc EXCEPT ![t] = to]

(* A failing call: the struct is freed and NULL is returned.               *)
GiveUp_KeepsBlock(t) == UNCHANGED blocks

GiveUp(t) == blocks' = blocks \ {new[t]}

(* 0. The struct.  When malloc fails _create returns NULL, nothing changed. *)
Create(t, c) ==
  /\ Goes(t, "idle", "map")
  /\ Serial => \A u \in Threads : pc[u] = "idle"
  /\ c \notin blocks
  /\ new' = [new EXCEPT ![t] = c]
  /\ blocks' = blocks \cup {c}
  /\ UNCHANGED <<stacks, created, arg, kernel, saved, envs, world>>

(* xcp_coroutine_create_stack: mmap, then mprotect of the guard page.      *)
MapStack(t) ==
  /\ \/ /\ Goes(t, "map", "protect")
        /\ stacks' = stacks \cup {new[t]}
        /\ UNCHANGED blocks
     \/ /\ Goes(t, "map", "idle")                   \* MAP_FAILED
        /\ GiveUp(t)
        /\ UNCHANGED stacks
  /\ UNCHANGED <<new, created, arg, kernel, saved, envs, world>>

ProtectStack(t) ==
  /\ \/ /\ Goes(t, "protect", "block")
        /\ UNCHANGED <<blocks, stacks>>
     \/ /\ Goes(t, "protect", "idle")               \* munmap, then free
        /\ stacks' = stacks \ {new[t]}
        /\ GiveUp(t)
  /\ UNCHANGED <<new, created, arg, kernel, saved, envs, world>>

(* 1. SIGUSR1 is blocked in this thread.                                   *)
Block_Nothing(t) ==
  /\ Goes(t, "block", "install")
  /\ oldSet' = [oldSet EXCEPT ![t] = mask[t]]
  /\ UNCHANGED <<new, memory, kernel, oldSa, oldSs, envs, world>>

Block(t) ==
  /\ Goes(t, "block", "install")
  /\ oldSet' = [oldSet EXCEPT ![t] = mask[t]]
  /\ mask' = [mask EXCEPT ![t] = "blocked"]
  /\ UNCHANGED <<new, memory, handler, altstack, raised, oldSa, oldSs, envs, world>>

(* 2. The handler of the process is saved and replaced.                    *)
Install(t) ==
  /\ Goes(t, "install", "swap")
  /\ oldSa' = [oldSa EXCEPT ![t] = handler]
  /\ handler' = "trampoline"
  /\ UNCHANGED <<new, memory, mask, altstack, raised, oldSet, oldSs, envs, world>>

(* 3. The new stack becomes the alternate signal stack.                    *)
SwapStack_Unsaved(t) ==
  /\ Goes(t, "swap", "raise")
  /\ altstack' = [altstack EXCEPT ![t] = new[t]]
  /\ UNCHANGED <<new, memory, handler, mask, raised, saved, envs, world>>

SwapStack(t) ==
  /\ Goes(t, "swap", "raise")
  /\ oldSs' = [oldSs EXCEPT ![t] = altstack[t]]
  /\ altstack' = [altstack EXCEPT ![t] = new[t]]
  /\ UNCHANGED <<new, memory, handler, mask, raised, oldSa, oldSet, envs, world>>

(* 4. The thread sends itself the signal, which stays pending.             *)
Raise(t) ==
  /\ Goes(t, "raise", "wait")
  /\ called' = [called EXCEPT ![t] = FALSE]
  /\ raised' = [raised EXCEPT ![t] = TRUE]
  /\ UNCHANGED <<new, memory, handler, mask, altstack, saved, trampoline, env, world>>

(* sigsuspend unblocks SIGUSR1, and only it, until a handler has run.      *)
Suspended_Full(t) == FALSE

Suspended(t) == pc[t] = "wait" /\ ~called[t]

(* 5. SIGUSR1 is delivered to t: xcp_coroutine_trampoline runs on the      *)
(* alternate stack, or whatever else the disposition says.                 *)
Deliver(t) ==
  /\ ~killed
  /\ raised[t] /\ (mask[t] = "open" \/ Suspended(t))
  /\ raised' = [raised EXCEPT ![t] = FALSE]
  /\ \/ /\ handler = "trampoline"
        /\ called' = [called EXCEPT ![t] = TRUE]
        /\ trampoline' = [trampoline EXCEPT ![t] = altstack[t]]
        /\ UNCHANGED killed
     \/ /\ handler \in {"app", "ignore"}
        /\ UNCHANGED <<called, trampoline, killed>>
     \/ /\ handler = "default"
        /\ killed' = TRUE
        /\ UNCHANGED <<called, trampoline>>
  /\ UNCHANGED <<pc, new, memory, handler, mask, altstack, saved, env, appHandler, appMask, sent>>

(* The while loop of step 4 ends.                                          *)
Awake(t) ==
  /\ Goes(t, "wait", "unswap")
  /\ called[t]
  /\ UNCHANGED <<new, memory, kernel, saved, envs, world>>

(* 6. The previous stack, sigaction and mask, in this order.  Setting      *)
(* SIG_IGN discards the signals that are pending.                          *)
RestoreStack(t) ==
  /\ Goes(t, "unswap", "reinstall")
  /\ altstack' = [altstack EXCEPT ![t] = oldSs[t]]
  /\ UNCHANGED <<new, memory, handler, mask, raised, saved, envs, world>>

RestoreAction_Forgotten(t) ==
  /\ Goes(t, "reinstall", "unblock")
  /\ UNCHANGED <<new, memory, kernel, saved, envs, world>>

RestoreAction(t) ==
  /\ Goes(t, "reinstall", "unblock")
  /\ handler' = oldSa[t]
  /\ raised' = IF oldSa[t] = "ignore" THEN [u \in Threads |-> FALSE] ELSE raised
  /\ UNCHANGED <<new, memory, mask, altstack, saved, envs, world>>

RestoreMask(t) ==
  /\ Goes(t, "unblock", "jump")
  /\ mask' = [mask EXCEPT ![t] = oldSet[t]]
  /\ UNCHANGED <<new, memory, handler, altstack, raised, saved, envs, world>>

(* 7 to 11. Back into the trampoline's frame, from there to                *)
(* xcp_coroutine_run, which saves the env of the coroutine on the stack it *)
(* is on and returns through the pointer in arg.                           *)
Jump(t) ==
  /\ Goes(t, "jump", "return")
  /\ arg' = [arg EXCEPT ![new[t]] = "oldEnv"]
  /\ env' = [env EXCEPT ![new[t]] = trampoline[t]]
  /\ UNCHANGED <<new, blocks, stacks, created, kernel, saved, called, trampoline, world>>

(* 12. The end of xcp_coroutine_init and of xcp_coroutine_create.          *)
Return(t) ==
  /\ Goes(t, "return", "idle")
  /\ arg' = [arg EXCEPT ![new[t]] = "userData"]
  /\ created' = created \cup {new[t]}
  /\ UNCHANGED <<new, blocks, stacks, kernel, saved, envs, world>>

(* The program sends SIGUSR1 to one of its threads, which it does only if  *)
(* it has made arrangements for it.                                        *)
Send(t) ==
  /\ ~killed
  /\ appHandler # "default"
  /\ sent < MaxSignals
  /\ sent' = sent + 1
  /\ raised' = [raised EXCEPT ![t] = TRUE]
  /\ UNCHANGED <<pc, new, memory, handler, mask, altstack, saved, envs, appHandler, appMask, killed>>

Step(t) ==
  \/ MapStack(t) \/ ProtectStack(t)
  \/ Block(t) \/ Install(t) \/ SwapStack(t) \/ Raise(t) \/ Awake(t)
  \/ RestoreStack(t) \/ RestoreAction(t) \/ RestoreMask(t)
  \/ Jump(t) \/ Return(t)

Next ==
  \E t \in Threads :
    \/ \E c \in Coroutines : Create(t, c)
    \/ Step(t)
    \/ Deliver(t)
    \/ Send(t)

Spec == Init /\ [][Next]_vars

(* A thread goes on, and a signal that is not blocked is delivered.        *)
LiveSpec == Spec /\ \A t \in Threads : WF_vars(Step(t)) /\ WF_vars(Deliver(t))
-----------------------------------------------------------------------------
(* Properties.                                                             *)

(* "Restore previous stack, sigaction for SIGUSR1 and sig mask set."       *)
(* (coroutine.c 220).  The process-wide part: when no thread is creating a *)
(* coroutine, SIGUSR1 has the disposition the program gave it.             *)
ActionRestored == (\A t \in Threads : pc[t] = "idle") => handler = appHandler

(* The thread's part of the same line, which holds for threads that create *)
(* coroutines at the same time as well: outside xcp_coroutine_create, and  *)
(* whenever its new coroutine is about to be jumped into, a thread has the *)
(* signal mask and the alternate stack it had before.                      *)
ThreadRestored ==
  \A t \in Threads :
    pc[t] \in {"idle", "map", "protect", "block", "jump", "return"} =>
      mask[t] = appMask[t] /\ altstack[t] = "app"

(* Every coroutine that _create has returned starts on the stack that was  *)
(* mapped for it, and its callback gets the user's data, even when the     *)
(* program's own SIGUSR1s arrive at any moment of the twelve steps.        *)
Ready ==
  \A c \in created : c \in stacks /\ env[c] = c /\ arg[c] = "userData"

(* No failing path of _create leaks a struct or a stack (coroutine.c 53,   *)
(* 58-61, 252-255).                                                        *)
NoLeak ==
  LET making == {new[t] : t \in {u \in Threads : pc[u] # "idle"}}
  IN  blocks \subseteq created \cup making /\ stacks \subseteq blocks

(* The inductive invariant the proofs rest on.  Between which steps a      *)
(* thread keeps SIGUSR1 blocked, and its handler is installed:             *)
Installed(t) == pc[t] \in {"swap", "raise", "wait", "unswap", "reinstall"}

Masked(t) == Installed(t) \/ pc[t] \in {"install", "unblock"}

(* What the locals and the thread's own state hold at each step.           *)
ThreadInv ==
  \A t \in Threads :
    /\ mask[t] = IF Masked(t) THEN "blocked" ELSE appMask[t]
    /\ altstack[t] = IF pc[t] \in {"raise", "wait", "unswap"} THEN new[t] ELSE "app"
    /\ Masked(t) => oldSet[t] = appMask[t]
    /\ pc[t] \in {"raise", "wait", "unswap"} => oldSs[t] = "app"
    /\ Installed(t) => oldSa[t] # "unset"

(* Who owns which struct and stack: two threads never create one coroutine. *)
MemoryInv ==
  /\ NoLeak
  /\ created \subseteq stacks
  /\ \A t \in Threads :
       /\ pc[t] # "idle" => new[t] \in blocks \ created
       /\ pc[t] = "map" => new[t] \notin stacks
       /\ pc[t] \notin {"idle", "map"} => new[t] \in stacks
  /\ \A t, u \in Threads : pc[t] # "idle" /\ pc[u] # "idle" /\ new[t] = new[u] => t = u

(* When creates are serialised: the one thread that creates owns the       *)
(* handler, and what its trampoline saved stays until it is used.          *)
SerialInv ==
  /\ \A t, u \in Threads : pc[t] # "idle" /\ pc[u] # "idle" => t = u
  /\ handler = IF \E t \in Threads : Installed(t) THEN "trampoline" ELSE appHandler
  /\ \A t \in Threads :
       /\ Installed(t) => oldSa[t] = appHandler
       /\ pc[t] = "wait" /\ called[t] => trampoline[t] = new[t]
       /\ pc[t] \in {"unswap", "reinstall", "unblock", "jump"} => trampoline[t] = new[t]
       /\ pc[t] = "return" => env[new[t]] = new[t]
  /\ Ready

IndInv == TypeOK /\ ThreadInv /\ MemoryInv /\ (Serial => SerialInv)

(* xcp_coroutine_create returns: the wait of step 4 ends.                  *)
CreateReturns == \A t \in Threads : pc[t] # "idle" ~> pc[t] = "idle"
=============================================================================
