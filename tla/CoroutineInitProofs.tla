------------------------ MODULE CoroutineInitProofs -------------------------
(***************************************************************************)
(* Proofs about CoroutineInit, for any number of threads, of coroutines    *)
(* and of signals.  IndInv is inductive.  Its thread and memory parts hold *)
(* whoever creates coroutines at the same time; its third part, and with   *)
(* it ActionRestored and Ready, when creates are serialised.               *)
(***************************************************************************)
EXTENDS CoroutineInit, TLAPS

(* The invariant holds when the program starts.                            *)
LEMMA InitInd == Init => IndInv
<1> SUFFICES ASSUME Init PROVE IndInv
  OBVIOUS
<1>1. TypeOK
  <2>1. raised \in [Threads -> BOOLEAN] /\ called \in [Threads -> BOOLEAN] /\ killed \in BOOLEAN
    BY Zenon DEF Init
  <2> QED
    BY <2>1, InitAssumption DEF Init, TypeOK, Stacks, Masks, Steps, Dispositions
<1>2. ThreadInv
  BY DEF Init, ThreadInv, Masked, Installed
<1>3. MemoryInv
  BY DEF Init, MemoryInv, NoLeak
<1>4. SerialInv
  BY DEF Init, SerialInv, Installed, Ready
<1> QED
  BY <1>1, <1>2, <1>3, <1>4 DEF IndInv

(* The delivery of a signal keeps the types.                               *)
LEMMA DeliverType ==
  ASSUME TypeOK, NEW t \in Threads, Deliver(t)
  PROVE  TypeOK'
<1>1. killed' \in BOOLEAN
  BY Zenon DEF Deliver, TypeOK
<1>2. /\ raised' = [raised EXCEPT ![t] = FALSE]
      /\ called' = [called EXCEPT ![t] = TRUE] \/ called' = called
  BY Zenon DEF Deliver
<1>3. raised' \in [Threads -> BOOLEAN]
  BY <1>2 DEF TypeOK
<1>4. called' \in [Threads -> BOOLEAN]
  BY <1>2 DEF TypeOK
<1>5. trampoline' \in [Threads -> Stacks \cup {"unset"}]
  BY DEF Deliver, TypeOK
<1> QED
  BY <1>1, <1>3, <1>4, <1>5 DEF Deliver, memory, saved, TypeOK

(* Every step keeps the types.                                             *)
LEMMA TypeKept == IndInv /\ [Next]_vars => TypeOK'
<1> SUFFICES ASSUME IndInv, [Next]_vars PROVE TypeOK'
  OBVIOUS
<1> USE InitAssumption DEF IndInv, ThreadInv, MemoryInv, Installed, Masked, Goes,
        memory, kernel, saved, envs, world, TypeOK, Stacks, Masks, Steps, Dispositions
<1>1. CASE UNCHANGED vars
  BY <1>1 DEF vars
<1>2. ASSUME NEW t \in Threads, NEW c \in Coroutines, Create(t, c) PROVE TypeOK'
  BY <1>2 DEF Create
<1>3. ASSUME NEW t \in Threads, MapStack(t) PROVE TypeOK'
  BY <1>3 DEF MapStack, GiveUp
<1>4. ASSUME NEW t \in Threads, ProtectStack(t) PROVE TypeOK'
  BY <1>4 DEF ProtectStack, GiveUp
<1>5. ASSUME NEW t \in Threads, Block(t) PROVE TypeOK'
  BY <1>5 DEF Block
<1>6. ASSUME NEW t \in Threads, Install(t) PROVE TypeOK'
  BY <1>6 DEF Install
<1>7. ASSUME NEW t \in Threads, SwapStack(t) PROVE TypeOK'
  BY <1>7 DEF SwapStack
<1>8. ASSUME NEW t \in Threads, Raise(t) PROVE TypeOK'
  BY <1>8 DEF Raise
<1>9. ASSUME NEW t \in Threads, Awake(t) PROVE TypeOK'
  BY <1>9 DEF Awake
<1>10. ASSUME NEW t \in Threads, RestoreStack(t) PROVE TypeOK'
  BY <1>10 DEF RestoreStack
<1>11. ASSUME NEW t \in Threads, RestoreAction(t) PROVE TypeOK'
  BY <1>11 DEF RestoreAction
<1>12. ASSUME NEW t \in Threads, RestoreMask(t) PROVE TypeOK'
  BY <1>12 DEF RestoreMask
<1>13. ASSUME NEW t \in Threads, Jump(t) PROVE TypeOK'
  BY <1>13 DEF Jump
<1>14. ASSUME NEW t \in Threads, Return(t) PROVE TypeOK'
  BY <1>14 DEF Return
<1>15. ASSUME NEW t \in Threads, Deliver(t) PROVE TypeOK'
  BY <1>15, DeliverType
<1>16. ASSUME NEW t \in Threads, Send(t) PROVE TypeOK'
  BY <1>16 DEF Send
<1> QED
  BY <1>1, <1>2, <1>3, <1>4, <1>5, <1>6, <1>7, <1>8, <1>9, <1>10, <1>11, <1>12, <1>13, <1>14, <1>15, <1>16 DEF Next, Step

(* Every step keeps the thread part: no step of a thread touches the mask, *)
(* the alternate stack or the locals of another.                           *)
LEMMA ThreadKept == IndInv /\ [Next]_vars => ThreadInv'
<1> SUFFICES ASSUME IndInv, [Next]_vars PROVE ThreadInv'
  OBVIOUS
<1> USE InitAssumption DEF IndInv, ThreadInv, Installed, Masked, Goes,
        memory, kernel, saved, envs, world, TypeOK, Stacks, Masks, Steps, Dispositions
<1>1. CASE UNCHANGED vars
  BY <1>1 DEF vars
<1>2. ASSUME NEW t \in Threads, NEW c \in Coroutines, Create(t, c) PROVE ThreadInv'
  BY <1>2 DEF Create
<1>3. ASSUME NEW t \in Threads, MapStack(t) PROVE ThreadInv'
  BY <1>3 DEF MapStack, GiveUp
<1>4. ASSUME NEW t \in Threads, ProtectStack(t) PROVE ThreadInv'
  BY <1>4 DEF ProtectStack, GiveUp
<1>5. ASSUME NEW t \in Threads, Block(t) PROVE ThreadInv'
  BY <1>5 DEF Block
<1>6. ASSUME NEW t \in Threads, Install(t) PROVE ThreadInv'
  BY <1>6 DEF Install
<1>7. ASSUME NEW t \in Threads, SwapStack(t) PROVE ThreadInv'
  BY <1>7 DEF SwapStack
<1>8. ASSUME NEW t \in Threads, Raise(t) PROVE ThreadInv'
  BY <1>8 DEF Raise
<1>9. ASSUME NEW t \in Threads, Awake(t) PROVE ThreadInv'
  BY <1>9 DEF Awake
<1>10. ASSUME NEW t \in Threads, RestoreStack(t) PROVE ThreadInv'
  BY <1>10 DEF RestoreStack
<1>11. ASSUME NEW t \in Threads, RestoreAction(t) PROVE ThreadInv'
  BY <1>11 DEF RestoreAction
<1>12. ASSUME NEW t \in Threads, RestoreMask(t) PROVE ThreadInv'
  BY <1>12 DEF RestoreMask
<1>13. ASSUME NEW t \in Threads, Jump(t) PROVE ThreadInv'
  BY <1>13 DEF Jump
<1>14. ASSUME NEW t \in Threads, Return(t) PROVE ThreadInv'
  BY <1>14 DEF Return
<1>15. ASSUME NEW t \in Threads, Deliver(t) PROVE ThreadInv'
  BY <1>15 DEF Deliver, Suspended
<1>16. ASSUME NEW t \in Threads, Send(t) PROVE ThreadInv'
  BY <1>16 DEF Send
<1> QED
  BY <1>1, <1>2, <1>3, <1>4, <1>5, <1>6, <1>7, <1>8, <1>9, <1>10, <1>11, <1>12, <1>13, <1>14, <1>15, <1>16 DEF Next, Step

(* Every step keeps the memory part.                                       *)
LEMMA MemoryKept == IndInv /\ [Next]_vars => MemoryInv'
<1> SUFFICES ASSUME IndInv, [Next]_vars PROVE MemoryInv'
  OBVIOUS
<1> USE InitAssumption DEF IndInv, MemoryInv, NoLeak, Goes,
        memory, kernel, saved, envs, world, TypeOK, Stacks, Masks, Steps, Dispositions
<1>1. CASE UNCHANGED vars
  BY <1>1 DEF vars
<1>2. ASSUME NEW t \in Threads, NEW c \in Coroutines, Create(t, c) PROVE MemoryInv'
  BY <1>2 DEF Create
<1>3. ASSUME NEW t \in Threads, MapStack(t) PROVE MemoryInv'
  BY <1>3 DEF MapStack, GiveUp
<1>4. ASSUME NEW t \in Threads, ProtectStack(t) PROVE MemoryInv'
  BY <1>4 DEF ProtectStack, GiveUp
<1>5. ASSUME NEW t \in Threads, Block(t) PROVE MemoryInv'
  BY <1>5 DEF Block
<1>6. ASSUME NEW t \in Threads, Install(t) PROVE MemoryInv'
  BY <1>6 DEF Install
<1>7. ASSUME NEW t \in Threads, SwapStack(t) PROVE MemoryInv'
  BY <1>7 DEF SwapStack
<1>8. ASSUME NEW t \in Threads, Raise(t) PROVE MemoryInv'
  BY <1>8 DEF Raise
<1>9. ASSUME NEW t \in Threads, Awake(t) PROVE MemoryInv'
  BY <1>9 DEF Awake
<1>10. ASSUME NEW t \in Threads, RestoreStack(t) PROVE MemoryInv'
  BY <1>10 DEF RestoreStack
<1>11. ASSUME NEW t \in Threads, RestoreAction(t) PROVE MemoryInv'
  BY <1>11 DEF RestoreAction
<1>12. ASSUME NEW t \in Threads, RestoreMask(t) PROVE MemoryInv'
  BY <1>12 DEF RestoreMask
<1>13. ASSUME NEW t \in Threads, Jump(t) PROVE MemoryInv'
  BY <1>13 DEF Jump
<1>14. ASSUME NEW t \in Threads, Return(t) PROVE MemoryInv'
  BY <1>14 DEF Return
<1>15. ASSUME NEW t \in Threads, Deliver(t) PROVE MemoryInv'
  BY <1>15 DEF Deliver, Suspended
<1>16. ASSUME NEW t \in Threads, Send(t) PROVE MemoryInv'
  BY <1>16 DEF Send
<1> QED
  BY <1>1, <1>2, <1>3, <1>4, <1>5, <1>6, <1>7, <1>8, <1>9, <1>10, <1>11, <1>12, <1>13, <1>14, <1>15, <1>16 DEF Next, Step

(* Every step keeps the serial part.                                       *)
LEMMA SerialKept == Serial /\ IndInv /\ [Next]_vars => SerialInv'
<1> SUFFICES ASSUME Serial, IndInv, [Next]_vars PROVE SerialInv'
  OBVIOUS
<1> USE InitAssumption DEF IndInv, SerialInv, Ready, Installed, ThreadInv, MemoryInv, Masked, Goes,
        memory, kernel, saved, envs, world, TypeOK, Stacks, Masks, Steps, Dispositions
<1>1. CASE UNCHANGED vars
  BY <1>1 DEF vars
<1>2. ASSUME NEW t \in Threads, NEW c \in Coroutines, Create(t, c) PROVE SerialInv'
  BY <1>2 DEF Create
<1>3. ASSUME NEW t \in Threads, MapStack(t) PROVE SerialInv'
  BY <1>3 DEF MapStack, GiveUp
<1>4. ASSUME NEW t \in Threads, ProtectStack(t) PROVE SerialInv'
  BY <1>4 DEF ProtectStack, GiveUp
<1>5. ASSUME NEW t \in Threads, Block(t) PROVE SerialInv'
  BY <1>5 DEF Block
<1>6. ASSUME NEW t \in Threads, Install(t) PROVE SerialInv'
  BY <1>6 DEF Install
<1>7. ASSUME NEW t \in Threads, SwapStack(t) PROVE SerialInv'
  BY <1>7 DEF SwapStack
<1>8. ASSUME NEW t \in Threads, Raise(t) PROVE SerialInv'
  BY <1>8 DEF Raise
<1>9. ASSUME NEW t \in Threads, Awake(t) PROVE SerialInv'
  BY <1>9 DEF Awake
<1>10. ASSUME NEW t \in Threads, RestoreStack(t) PROVE SerialInv'
  BY <1>10 DEF RestoreStack
<1>11. ASSUME NEW t \in Threads, RestoreAction(t) PROVE SerialInv'
  BY <1>11 DEF RestoreAction
<1>12. ASSUME NEW t \in Threads, RestoreMask(t) PROVE SerialInv'
  BY <1>12 DEF RestoreMask
<1>13. ASSUME NEW t \in Threads, Jump(t) PROVE SerialInv'
  BY <1>13 DEF Jump
<1>14. ASSUME NEW t \in Threads, Return(t) PROVE SerialInv'
  BY <1>14 DEF Return
<1>15. ASSUME NEW t \in Threads, Deliver(t) PROVE SerialInv'
  BY <1>15 DEF Deliver, Suspended
<1>16. ASSUME NEW t \in Threads, Send(t) PROVE SerialInv'
  BY <1>16 DEF Send
<1> QED
  BY <1>1, <1>2, <1>3, <1>4, <1>5, <1>6, <1>7, <1>8, <1>9, <1>10, <1>11, <1>12, <1>13, <1>14, <1>15, <1>16 DEF Next, Step
-----------------------------------------------------------------------------
(* IndInv holds in every reachable state.                                  *)
THEOREM Inductive == Spec => []IndInv
<1>1. Init => IndInv
  BY InitInd
<1>2. IndInv /\ [Next]_vars => IndInv'
  BY TypeKept, ThreadKept, MemoryKept, SerialKept DEF IndInv
<1> QED
  BY <1>1, <1>2, PTL DEF Spec

(* Every variable has its type: what a thread has saved is a handler, a    *)
(* mask and a stack at each step that puts them back.                      *)
THEOREM TypeCorrect == Spec => []TypeOK
<1>1. IndInv => TypeOK
  BY DEF IndInv
<1> QED
  BY <1>1, Inductive, PTL

(* However many threads create coroutines at once, each finds its signal   *)
(* mask and its alternate stack as they were.                              *)
THEOREM ThreadsRestored == Spec => []ThreadRestored
<1>1. IndInv => ThreadRestored
  BY DEF IndInv, ThreadInv, ThreadRestored, Masked, Installed, TypeOK
<1> QED
  BY <1>1, Inductive, PTL

(* No failing path of xcp_coroutine_create leaks.                          *)
THEOREM FailuresDoNotLeak == Spec => []NoLeak
<1>1. IndInv => NoLeak
  BY DEF IndInv, MemoryInv
<1> QED
  BY <1>1, Inductive, PTL

(* When creates are serialised, the program gets its disposition of        *)
(* SIGUSR1 back.                                                           *)
THEOREM SerialRestores == ASSUME Serial PROVE Spec => []ActionRestored
<1>1. IndInv => ActionRestored
  BY DEF IndInv, SerialInv, ActionRestored, Installed
<1> QED
  BY <1>1, Inductive, PTL

(* When creates are serialised, every coroutine starts on its own stack    *)
(* with the user's data, however many signals the program sends and        *)
(* whenever they arrive.                                                   *)
THEOREM SerialIsReady == ASSUME Serial PROVE Spec => []Ready
<1>1. IndInv => Ready
  BY DEF IndInv, SerialInv
<1> QED
  BY <1>1, Inductive, PTL
=============================================================================
