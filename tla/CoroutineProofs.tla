-------------------------- MODULE CoroutineProofs ---------------------------
(***************************************************************************)
(* Proofs about Coroutine, for every set of coroutines.                    *)
(*                                                                         *)
(* First, for every use of the library and both builds: IndInv is          *)
(* inductive; the type invariant, the call chain, NotReachable and         *)
(* ActiveIsAllocated follow from it.                                       *)
(*                                                                         *)
(* Then about the intrusive queues and the memory.  A queue is described   *)
(* by the sequence that its links spell out; Queues says that there are    *)
(* such sequences, one for each pending list and each local queue of a     *)
(* _resume, and that no coroutine is in two places.                        *)
(***************************************************************************)
EXTENDS Coroutine, TLAPS, FiniteSetTheorems, SequenceTheorems, WellFoundedInduction

-----------------------------------------------------------------------------
(* What the queue operations return.                                       *)

(* The empty queue is a queue head.                                        *)
LEMMA EmptyType == Q!Empty \in Heads
BY DEF Q!Empty, Heads

(* STAILQ_INSERT_TAIL yields links and a head of the right type.           *)
LEMMA InsertType ==
  ASSUME NEW n \in [All -> All \cup {NULL}], NEW h \in Heads, NEW c \in All
  PROVE  /\ Q!InsertLinks(n, h, c) \in [All -> All \cup {NULL}]
         /\ Q!InsertHead(h, c) \in Heads
BY DEF Q!InsertLinks, Q!InsertHead, Heads

(* STAILQ_REMOVE_HEAD of a queue that is not empty yields a head.          *)
LEMMA RemoveType ==
  ASSUME NEW n \in [All -> All \cup {NULL}], NEW h \in Heads, h.first # NULL
  PROVE  Q!RemoveHead(n, h) \in Heads
BY EmptyType DEF Q!RemoveHead, Heads

(* The splice in front yields links and a head of the right type.          *)
LEMMA SplicedType ==
  ASSUME TypeOK, NEW h \in Heads, NEW g \in Heads
  PROVE  /\ Spliced(h, g).links \in [All -> All \cup {NULL}]
         /\ Spliced(h, g).head \in Heads
BY EmptyType DEF TypeOK, Spliced, Q!ConcatLinks, Q!ConcatHead, Heads

-----------------------------------------------------------------------------
(* Stopping changes nothing the invariant speaks of but `fault'.           *)
LEMMA StopInd ==
  ASSUME IndInv, NEW kind \in Faults, Stop(kind)
  PROVE  IndInv'
BY DEF IndInv, Stop, locals, TypeOK, NotReachable, ActiveIsAllocated, Active, Misdirected,
       Standing, Pointers, Known, CallChain, ArgumentOutside, Closed

(* The initial state: only Dummy is active, and it is current.             *)
LEMMA InitInd == Init => IndInv
<1> SUFFICES ASSUME Init PROVE IndInv
  OBVIOUS
<1>1. TypeOK
  BY ConstantsAssumption, EmptyType DEF Init, TypeOK, Points, Statuses, Faults, All
<1>2. Active = {Dummy}
  BY ConstantsAssumption DEF Init, Active, All
<1>3. NotReachable /\ ActiveIsAllocated
  BY <1>2 DEF Init, NotReachable, ActiveIsAllocated, All
<1>4. Standing /\ Pointers
  BY ConstantsAssumption DEF Init, Standing, Pointers, Known, All, Q!Empty
<1>5. CallChain
  BY <1>2 DEF Init, CallChain
<1>6. ArgumentOutside
  BY DEF Init, ArgumentOutside
<1> QED
  BY <1>1, <1>3, <1>4, <1>5, <1>6 DEF IndInv
-----------------------------------------------------------------------------
(* Steps that leave `current' and the call chain as they are.              *)

(* The chain part of the invariant depends only on the caller links, on    *)
(* what waits in a _resume and on the locals of those _resumes.            *)
LEMMA ChainKept ==
  ASSUME TypeOK, CallChain, ArgumentOutside, ~Misdirected,
         UNCHANGED <<current, caller>>, Active' = Active,
         \A c \in All : point[c] = "resume" => point'[c] = "resume" /\ callee'[c] = callee[c],
         \A s \in All : callee'[s] # NULL => callee'[s] = callee[s] /\ argument'[s] = argument[s]
  PROVE  CallChain' /\ ArgumentOutside'
<1>1. \A B : Closed(B)' <=> Closed(B)
  BY DEF Closed
<1>2. \A c \in Active \ {Dummy} : caller[c] \in All
  BY ConstantsAssumption DEF TypeOK, Active, All
<1>3. CallChain'
  BY <1>1, <1>2 DEF CallChain
<1>4. ArgumentOutside'
  BY <1>1 DEF ArgumentOutside
<1> QED
  BY <1>3, <1>4

(* While a coroutine runs user code or the loop of a _resume no misdirected *)
(* jump is under way.                                                      *)
LEMMA NotMisdirected ==
  ASSUME IndInv, point[current] \in {"body", "loop"}
  PROVE  ~Misdirected /\ Standing /\ Pointers /\ CallChain /\ ArgumentOutside
BY DEF IndInv, Misdirected

(* xcp_coroutine_create keeps the invariant: it touches only a coroutine   *)
(* that nothing leads to yet.                                              *)
LEMMA CreateInd ==
  ASSUME IndInv, NEW c \in Coroutines, Create(c)
  PROVE  IndInv'
<1>1. ~Misdirected /\ Standing /\ Pointers /\ CallChain /\ ArgumentOutside
  BY NotMisdirected DEF Create, InUserCode
<1>2. TypeOK'
  BY EmptyType DEF IndInv, Create, TypeOK, All, Points, locals
<1>3. caller' = caller
  BY <1>1 DEF IndInv, TypeOK, Create, Standing, All
<1>4. Active' = Active
  BY <1>1 DEF IndInv, TypeOK, Create, Active, Standing, All, InUserCode
<1>5. NotReachable' /\ ActiveIsAllocated'
  BY <1>4, <1>1 DEF IndInv, TypeOK, Create, NotReachable, ActiveIsAllocated, All, Active
<1>6. Standing'
  BY <1>1, ConstantsAssumption DEF IndInv, TypeOK, Create, Standing, All, InUserCode, locals
<1>7. Pointers'
  BY <1>1 DEF IndInv, TypeOK, Create, Pointers, Known, All, locals, Q!Empty
<1>8. CallChain' /\ ArgumentOutside'
  BY <1>1, <1>3, <1>4, ChainKept DEF IndInv, TypeOK, Create, All, locals
<1> QED
  BY <1>2, <1>5, <1>6, <1>7, <1>8 DEF IndInv

(* The entry of xcp_coroutine_resume keeps the invariant.                  *)
LEMMA ResumeInd ==
  ASSUME IndInv, NEW c \in All, Resume(c)
  PROVE  IndInv'
<1>1. ~Misdirected /\ Standing /\ Pointers /\ CallChain /\ ArgumentOutside
  BY NotMisdirected DEF Resume, InUserCode
<1>2. CASE Stop("use_after_free")
  BY <1>2, StopInd DEF Faults
<1>3. CASE ~Stop("use_after_free")
  <2>1. /\ point[current] = "body" /\ point[c] # "none"
        /\ next'     = Q!InsertLinks(next, Q!Empty, c)
        /\ argument' = [argument EXCEPT ![current] = c]
        /\ callee'   = [callee EXCEPT ![current] = NULL]
        /\ batch'    = [batch EXCEPT ![current] = Q!InsertHead(Q!Empty, c)]
        /\ point'    = [point EXCEPT ![current] = "loop"]
        /\ UNCHANGED <<current, caller, heap, pendings, ret, owed, fault>>
    BY <1>3 DEF Resume, InUserCode, Handles
  <2>2. TypeOK'
    BY <2>1, EmptyType, InsertType DEF IndInv, TypeOK, Points
  <2>3. Active' = Active
    BY <2>1 DEF IndInv, TypeOK, Active, All
  <2>4. NotReachable' /\ ActiveIsAllocated'
    BY <2>1, <2>3 DEF IndInv, TypeOK, NotReachable, ActiveIsAllocated
  <2>5. Standing'
    BY <2>1, <1>1, ConstantsAssumption DEF IndInv, TypeOK, Standing, All, Q!InsertHead, Q!Empty
  <2>6. Pointers'
    BY <2>1, <1>1 DEF IndInv, TypeOK, Pointers, Known, Q!InsertHead, Q!InsertLinks, Q!Empty
  <2>7. CallChain' /\ ArgumentOutside'
    BY <2>1, <1>1, <2>3, ChainKept DEF IndInv, TypeOK
  <2> QED
    BY <2>2, <2>4, <2>5, <2>6, <2>7 DEF IndInv
<1> QED
  BY <1>2, <1>3

(* The return of xcp_coroutine_resume keeps the invariant.                 *)
LEMMA LeaveInd ==
  ASSUME IndInv, Leave
  PROVE  IndInv'
<1>1. ~Misdirected /\ Standing /\ Pointers /\ CallChain /\ ArgumentOutside
  BY NotMisdirected DEF Leave
<1>2. TypeOK'
  BY EmptyType DEF IndInv, Leave, TypeOK, Points
<1>3. Active' = Active
  BY DEF IndInv, TypeOK, Leave, Active, All
<1>4. NotReachable' /\ ActiveIsAllocated'
  BY <1>3 DEF IndInv, TypeOK, Leave, NotReachable, ActiveIsAllocated
<1>5. Standing'
  BY <1>1, ConstantsAssumption DEF IndInv, TypeOK, Leave, Standing, All
<1>6. Pointers'
  BY <1>1 DEF IndInv, TypeOK, Leave, Pointers, Known, Q!Empty
<1>7. CallChain' /\ ArgumentOutside'
  BY <1>1, <1>3, ChainKept DEF IndInv, TypeOK, Leave, All
<1> QED
  BY <1>2, <1>4, <1>5, <1>6, <1>7 DEF IndInv

(* xcp_coroutine_process inside a coroutine keeps the invariant.           *)
LEMMA EnqueueInd ==
  ASSUME IndInv, NEW c \in All, Enqueue(c)
  PROVE  IndInv'
<1>1. ~Misdirected /\ Standing /\ Pointers /\ CallChain /\ ArgumentOutside
  BY NotMisdirected DEF Enqueue, InUserCode
<1>2. CASE \E kind \in Faults : Stop(kind)
  BY <1>2, StopInd
<1>3. CASE ~\E kind \in Faults : Stop(kind)
  <2>1. /\ point[c] # "none"
        /\ next'     = Q!InsertLinks(next, pendings[current], c)
        /\ pendings' = [pendings EXCEPT ![current] = Q!InsertHead(pendings[current], c)]
        /\ owed'     = owed \cup {c}
        /\ UNCHANGED <<current, caller, point, heap, argument, callee, batch, ret, fault>>
    BY <1>3 DEF Enqueue, Faults, locals, Handles
  <2>2. TypeOK'
    BY <2>1, InsertType DEF IndInv, TypeOK
  <2>3. /\ NotReachable' /\ ActiveIsAllocated' /\ Standing'
        /\ Active' = Active
    BY <2>1, <1>1 DEF IndInv, NotReachable, ActiveIsAllocated, Active, Standing
  <2>4. Pointers'
    BY <2>1, <1>1 DEF IndInv, TypeOK, Heads, Pointers, Known, Q!InsertHead, Q!InsertLinks
  <2>5. CallChain' /\ ArgumentOutside'
    BY <2>1, <2>3, <1>1, ChainKept DEF IndInv
  <2> QED
    BY <2>2, <2>3, <2>4, <2>5 DEF IndInv
<1> QED
  BY <1>2, <1>3

(* The splice leaves the links and the head inside what is known.          *)
LEMMA SplicedKnown ==
  ASSUME TypeOK, Pointers, NEW h \in Heads, NEW g \in Heads,
         h.first \in Known, g.first \in Known
  PROVE  /\ Spliced(h, g).head.first \in Known
         /\ \A c \in All : Spliced(h, g).links[c] \in Known
BY DEF TypeOK, Pointers, Known, Heads, Spliced, Q!ConcatLinks, Q!ConcatHead, Q!Empty

(* The end of a pass of _resume keeps the invariant.  What line 296 frees  *)
(* is the argument of the _resume that runs, which is not on the chain.    *)
LEMMA SettleInd ==
  ASSUME IndInv, Settle
  PROVE  IndInv'
<1>1. CASE \E kind \in Faults : Stop(kind)
  BY <1>1, StopInd
<1>2. CASE ~\E kind \in Faults : Stop(kind)
  <2> DEFINE from == pendings[callee[current]]
  <2>1. /\ point[current] = "woken" /\ ret # "Running"
        /\ next'     = Spliced(from, batch[current]).links
        /\ batch'    = [batch EXCEPT ![current] = Spliced(from, batch[current]).head]
        /\ pendings' = [pendings EXCEPT ![callee[current]] = Q!Empty]
        /\ heap'     = IF Destroys(ret) THEN [heap EXCEPT ![Destroyed] = "freed"] ELSE heap
        /\ point'    = [point EXCEPT ![current] = "loop"]
        /\ UNCHANGED <<current, caller, argument, callee, ret, owed, fault>>
    BY <1>2 DEF Settle, Destroy, Faults
  <2>2. ~Misdirected /\ Standing /\ Pointers /\ CallChain /\ ArgumentOutside
    BY <2>1 DEF IndInv, Misdirected
  <2>3. callee[current] \in All /\ argument[current] \in All
    BY <2>1, <2>2 DEF Standing, IndInv, TypeOK
  <2>4. from \in Heads /\ batch[current] \in Heads
    BY <2>3 DEF IndInv, TypeOK
  <2>5. TypeOK'
    <3>1. next' \in [All -> All \cup {NULL}] /\ batch' \in [All -> Heads]
      BY <2>1, <2>4, SplicedType DEF IndInv, TypeOK
    <3>2. heap' \in [All -> {"none", "live", "freed"}]
      BY <2>1, <2>3 DEF Destroyed, IndInv, TypeOK
    <3>3. pendings' \in [All -> Heads] /\ point' \in [All -> Points]
      BY <2>1, EmptyType DEF IndInv, TypeOK, Points
    <3> QED
      BY <2>1, <3>1, <3>2, <3>3 DEF IndInv, TypeOK
  <2>6. Active' = Active
    BY <2>1 DEF IndInv, TypeOK, Active, All
  <2>7. argument[current] \notin Active
    <3>1. PICK B \in SUBSET Active : current \in B /\ Closed(B) /\ argument[current] \notin B
      BY <2>1, <2>2 DEF ArgumentOutside, Standing, IndInv, TypeOK
    <3> QED
      BY <3>1, <2>2 DEF CallChain
  <2>8. NotReachable' /\ ActiveIsAllocated'
    BY <2>1, <2>6, <2>7, <2>3
       DEF IndInv, TypeOK, NotReachable, ActiveIsAllocated, Destroyed, Active, All
  <2>9. Standing'
    BY <2>1, <2>2, <2>3, ConstantsAssumption DEF IndInv, TypeOK, Standing, All
  <2>10. Pointers'
    <3>1. /\ Spliced(from, batch[current]).head.first \in Known
          /\ \A c \in All : Spliced(from, batch[current]).links[c] \in Known
      BY <2>2, <2>3, <2>4, SplicedKnown DEF IndInv, Pointers, TypeOK
    <3>2. Known' = Known
      BY <2>1 DEF IndInv, TypeOK, Known
    <3>3. \A c \in All : heap'[c] = "none" <=> point'[c] = "none"
      <4>1. heap[argument[current]] # "none"
        BY <2>2, <2>3, ConstantsAssumption DEF Pointers, Known, IndInv, TypeOK
      <4> QED
        BY <4>1, <2>1, <2>2, <2>3 DEF IndInv, TypeOK, Pointers, Destroyed
    <3>4. \A c \in All : /\ next'[c] \in Known /\ argument'[c] \in Known
                         /\ pendings'[c].first \in Known /\ batch'[c].first \in Known
      BY <2>1, <2>2, <3>1 DEF IndInv, TypeOK, Pointers, Q!Empty, Known
    <3> QED
      BY <3>2, <3>3, <3>4 DEF Pointers
  <2>11. CallChain' /\ ArgumentOutside'
    BY <2>1, <2>2, <2>6, ChainKept DEF IndInv, TypeOK
  <2> QED
    BY <2>5, <2>8, <2>9, <2>10, <2>11 DEF IndInv
<1> QED
  BY <1>1, <1>2
-----------------------------------------------------------------------------
(* Steps that lengthen or shorten the call chain.                          *)

(* The caller of an active coroutine is active.                            *)
LEMMA ActiveClosed ==
  ASSUME TypeOK, Standing, CallChain, ~Misdirected
  PROVE  Closed(Active)
<1> SUFFICES ASSUME NEW c \in Active \ {Dummy} PROVE caller[c] \in Active
  BY DEF Closed
<1>1. caller[c] \in All /\ point[caller[c]] = "resume"
  BY ConstantsAssumption DEF TypeOK, Active, All, CallChain
<1> QED
  BY <1>1 DEF Standing, Active, All

(* Where the jump of a pass of _resume lands.                              *)
LEMMA FetchLands ==
  ASSUME IndInv, Fetch, ~\E kind \in Faults : Stop(kind),
         NEW first, first = batch[current].first
  PROVE  /\ point[current] = "loop" /\ current \in All /\ first \in All
         /\ heap[first] = "live" /\ point[first] # "none" /\ caller[first] = NULL
         /\ first # Dummy => point[first] \in {"entry", "yield"} /\ first # current
         /\ current' = first /\ ret' = "Running"
         /\ point' = [c \in All |-> IF c = first THEN IF first = Dummy THEN "woken" ELSE "body"
                                    ELSE IF c = current THEN "resume" ELSE point[c]]
         /\ batch'  = [batch EXCEPT ![current] = Q!RemoveHead(next, batch[current])]
         /\ callee' = [callee EXCEPT ![current] = first]
         /\ caller' = [caller EXCEPT ![first] = current]
         /\ owed'   = owed \ {first}
         /\ Active' = Active \cup {first}
         /\ UNCHANGED <<heap, next, pendings, argument, fault>>
<1>1. ~Misdirected /\ Standing /\ Pointers
  BY NotMisdirected DEF Fetch
<1>2. /\ point[current] = "loop" /\ first # NULL
      /\ ~Freed(first) /\ caller[first] = NULL
      /\ batch'  = [batch EXCEPT ![current] = Q!RemoveHead(next, batch[current])]
      /\ callee' = [callee EXCEPT ![current] = first]
      /\ caller' = [caller EXCEPT ![first] = current]
      /\ owed'   = owed \ {first}
      /\ Exec(current, first, "Running", "resume")
      /\ UNCHANGED <<heap, next, pendings, argument, fault>>
  BY DEF Fetch, Faults
<1>3. current \in All /\ first \in All /\ batch[current] \in Heads
  BY <1>2 DEF IndInv, TypeOK, Heads
<1>4. heap[first] = "live" /\ point[first] # "none"
  BY <1>1, <1>2, <1>3 DEF IndInv, TypeOK, Pointers, Known, Freed
<1>5. first = Dummy => first = current \/ point[first] = "resume"
  BY <1>1, <1>3 DEF Standing
<1>6. first # Dummy => point[first] \in {"entry", "yield"} /\ first # current
  BY <1>1, <1>2, <1>3, <1>4 DEF Standing, All
<1>7. /\ current' = first /\ ret' = "Running"
      /\ point' = [c \in All |-> IF c = first THEN IF first = Dummy THEN "woken" ELSE "body"
                                 ELSE IF c = current THEN "resume" ELSE point[c]]
  <2> DEFINE left == [point EXCEPT ![current] = "resume"]
  <2>1. left[first] \in IF first = Dummy THEN {"resume"} ELSE {"entry", "yield"}
    BY <1>3, <1>5, <1>6 DEF IndInv, TypeOK
  <2>2. Landing[left[first]] = IF first = Dummy THEN "woken" ELSE "body"
    BY <2>1 DEF Landing
  <2>3. point' = [left EXCEPT ![first] = Landing[left[first]]]
    BY <1>2 DEF Exec
  <2> QED
    BY <1>2, <1>3, <2>2, <2>3 DEF Exec, IndInv, TypeOK
<1>8. Active' = Active \cup {first}
  BY <1>2, <1>3, <1>6, <1>7, ConstantsAssumption DEF IndInv, TypeOK, Active, All
<1> QED
  BY <1>2, <1>3, <1>4, <1>6, <1>7, <1>8

(* A pass of _resume that enters a coroutine keeps the invariant: the      *)
(* chain grows by that coroutine, which line 283 found to be off it.       *)
LEMMA FetchInd ==
  ASSUME IndInv, Fetch
  PROVE  IndInv'
<1> DEFINE self  == current
           first == batch[self].first
<1>1. ~Misdirected /\ Standing /\ Pointers /\ CallChain /\ ArgumentOutside
  BY NotMisdirected DEF Fetch
<1>2. CASE \E kind \in Faults : Stop(kind)
  BY <1>2, StopInd
<1>3. CASE ~\E kind \in Faults : Stop(kind)
  <2>1. /\ point[self] = "loop" /\ first # NULL /\ caller[first] = NULL
        /\ batch'  = [batch EXCEPT ![self] = Q!RemoveHead(next, batch[self])]
        /\ callee' = [callee EXCEPT ![self] = first]
        /\ caller' = [caller EXCEPT ![first] = self]
        /\ UNCHANGED <<heap, next, pendings, argument, fault>>
    BY <1>3, FetchLands DEF Fetch
  <2>2. self \in All /\ first \in All /\ batch[self] \in Heads
    BY <1>3, FetchLands DEF IndInv, TypeOK
  <2>3. heap[first] = "live" /\ point[first] # "none"
    BY <1>3, FetchLands
  <2>5. first # Dummy => point[first] \in {"entry", "yield"} /\ first # self
    BY <1>3, FetchLands
  <2>6. /\ current' = first /\ ret' = "Running" /\ owed' = owed \ {first}
        /\ point' = [c \in All |-> IF c = first THEN IF first = Dummy THEN "woken" ELSE "body"
                                   ELSE IF c = self THEN "resume" ELSE point[c]]
    BY <1>3, FetchLands
  <2>7. TypeOK'
    <3>1. batch' \in [All -> Heads]
      BY <2>1, <2>2, RemoveType DEF IndInv, TypeOK
    <3> QED
      BY <2>1, <2>2, <2>6, <3>1 DEF IndInv, TypeOK, Points, Statuses
  <2>8. NotReachable'
    BY <2>6 DEF IndInv, NotReachable
  <2>9. Active' = Active \cup {first}
    BY <1>3, FetchLands
  <2>10. ActiveIsAllocated'
    BY <2>9, <2>3, <2>1 DEF IndInv, ActiveIsAllocated
  <2>11. CASE first = Dummy
    BY <2>11, <2>2, <2>6, <2>7, <2>8, <2>10 DEF IndInv, Misdirected
  <2>12. CASE first # Dummy
    <3>1. first \notin Active /\ first \in Coroutines
      BY <2>12, <2>1, <2>2 DEF Active, All
    <3>2. Standing'
      BY <2>1, <2>2, <2>5, <2>6, <2>12, <1>1, ConstantsAssumption
         DEF IndInv, TypeOK, Standing, All
    <3>3. Pointers'
      <4>1. Known' = Known
        BY <2>6, <2>3, <2>1, <2>2 DEF Known
      <4>2. \A c \in All : batch'[c].first \in Known
        BY <2>1, <2>2, <1>1 DEF IndInv, TypeOK, Pointers, Known, Heads, Q!RemoveHead, Q!Empty
      <4> QED
        BY <4>1, <4>2, <2>1, <2>3, <2>6, <1>1 DEF Pointers
    <3>4. \A c \in Active \ {Dummy} :
            /\ caller[c] \in All /\ point[caller[c]] = "resume" /\ callee[caller[c]] = c
            /\ caller[c] # first /\ caller[c] # self /\ caller'[c] = caller[c]
      BY <1>1, <2>1, <2>2, <2>3, <2>5, <2>12, <3>1, ConstantsAssumption
         DEF CallChain, Active, All, IndInv, TypeOK
    <3>5. \A B \in SUBSET Active : Closed(B)' <=> Closed(B)
      BY <3>4 DEF Closed
    <3>6. CallChain'
      <4>1. \A c \in Active' \ {Dummy} : point'[caller'[c]] = "resume" /\ callee'[caller'[c]] = c
        BY <3>4, <2>1, <2>2, <2>5, <2>6, <2>9, <2>12 DEF IndInv, TypeOK
      <4>2. ASSUME NEW B \in SUBSET Active', first \in B, Closed(B)'
            PROVE  B = Active'
        <5>1. self \in B \ {first}
          BY <4>2, <2>1, <2>2, <2>5, <2>12 DEF Closed, IndInv, TypeOK
        <5>2. B \ {first} \in SUBSET Active
          BY <2>9
        <5>3. Closed(B \ {first})
          BY <4>2, <5>2, <3>4 DEF Closed
        <5>4. B \ {first} = Active
          BY <5>1, <5>2, <5>3, <1>1 DEF CallChain
        <5> QED
          BY <5>4, <4>2, <2>9
      <4> QED
        BY <4>1, <4>2, <2>6, <2>9 DEF CallChain
    <3>7. ArgumentOutside'
      <4> SUFFICES ASSUME NEW s \in All, callee'[s] # NULL
                   PROVE  \E B \in SUBSET Active' : s \in B /\ Closed(B)' /\ argument[s] \notin B
        BY <2>1 DEF ArgumentOutside
      <4>1. CASE callee[s] # NULL
        BY <4>1, <1>1, <3>5, <2>9 DEF ArgumentOutside
      <4>2. CASE callee[s] = NULL
        <5>1. s = self /\ argument[s] = first
          BY <4>2, <2>1, <2>2, <1>1 DEF Standing, IndInv, TypeOK
        <5>2. PICK B \in SUBSET Active : B = Active /\ Closed(B)'
          BY <3>5, <1>1, ActiveClosed DEF IndInv
        <5> QED
          BY <5>1, <5>2, <3>1, <2>9, <1>1 DEF CallChain
      <4> QED
        BY <4>1, <4>2
    <3> QED
      BY <2>7, <2>8, <2>10, <3>2, <3>3, <3>6, <3>7 DEF IndInv
  <2> QED
    BY <2>11, <2>12
<1> QED
  BY <1>2, <1>3

(* Where the jump of a yield or of the end of a callback lands.            *)
LEMMA ReturnLands ==
  ASSUME IndInv, InUserCode, caller[current] # NULL,
         NEW status, NEW saved, Exec(current, caller[current], status, saved),
         NEW to, to = caller[current]
  PROVE  /\ point[current] = "body" /\ current \in Active \ {Dummy} /\ current \in Coroutines
         /\ to \in All /\ point[to] = "resume" /\ callee[to] = current /\ to # current
         /\ current' = to /\ ret' = status
         /\ point' = [c \in All |-> IF c = to THEN "woken"
                                    ELSE IF c = current THEN saved ELSE point[c]]
<1>1. ~Misdirected /\ Standing /\ CallChain
  BY NotMisdirected DEF InUserCode
<1>2. point[current] = "body" /\ current \in Active \ {Dummy} /\ current \in Coroutines
  BY <1>1 DEF InUserCode, Standing, CallChain, IndInv, TypeOK, All
<1>3. to \in All /\ point[to] = "resume" /\ callee[to] = current /\ to # current
  BY <1>1, <1>2 DEF CallChain, IndInv, TypeOK
<1>4. [point EXCEPT ![current] = saved][to] = "resume"
  BY <1>3 DEF IndInv, TypeOK
<1>5. point' = [[point EXCEPT ![current] = saved] EXCEPT ![to] = "woken"]
  <2>1. point' = [[point EXCEPT ![current] = saved]
                    EXCEPT ![to] = Landing[[point EXCEPT ![current] = saved][to]]]
    BY DEF Exec
  <2>2. Landing["resume"] = "woken"
    BY DEF Landing
  <2> QED
    BY <1>4, <2>1, <2>2
<1> QED
  BY <1>2, <1>3, <1>5 DEF Exec, IndInv, TypeOK

(* The coroutine that returns leaves the call chain to the others.         *)
LEMMA ReturnLeaves ==
  ASSUME IndInv, InUserCode, caller[current] # NULL,
         NEW status, NEW saved \in {"yield", "done"},
         caller' = IF saved = "yield" THEN [caller EXCEPT ![current] = NULL] ELSE caller,
         Exec(current, caller[current], status, saved)
  PROVE  /\ Active' = Active \ {current}
         /\ \A c \in Active \ {Dummy, current} :
              /\ caller[c] \in All /\ point[caller[c]] = "resume" /\ callee[caller[c]] = c
              /\ caller[c] # current /\ caller[c] # caller[current] /\ caller'[c] = caller[c]
<1>1. ~Misdirected /\ CallChain
  BY NotMisdirected DEF InUserCode
<1>2. PICK self \in Coroutines, to \in All :
        /\ self = current /\ point[self] = "body" /\ self \in Active \ {Dummy}
        /\ to = caller[self] /\ point[to] = "resume" /\ callee[to] = self /\ to # self
        /\ point' = [c \in All |-> IF c = to THEN "woken" ELSE IF c = self THEN saved ELSE point[c]]
  BY ReturnLands
<1>3. Active' = Active \ {self}
  BY <1>2 DEF IndInv, TypeOK, Active, All
<1>4. \A c \in Active \ {Dummy, self} :
        /\ caller[c] \in All /\ point[caller[c]] = "resume" /\ callee[caller[c]] = c
        /\ caller[c] # self /\ caller[c] # to /\ caller'[c] = caller[c]
  BY <1>1, <1>2, ConstantsAssumption DEF CallChain, Active, All, IndInv, TypeOK
<1> QED
  BY <1>2, <1>3, <1>4

(* A yield or the end of a callback keeps the invariant: the chain loses   *)
(* its last coroutine and the one that waits for it goes on.               *)
LEMMA ReturnInd ==
  ASSUME IndInv, InUserCode, caller[current] # NULL,
         NEW status \in {"Suspend", "Terminated"}, NEW saved \in {"yield", "done"},
         caller' = IF saved = "yield" THEN [caller EXCEPT ![current] = NULL] ELSE caller,
         Exec(current, caller[current], status, saved),
         UNCHANGED <<heap, next, pendings, argument, callee, batch, owed, fault>>
  PROVE  IndInv'
<1> DEFINE self == current
           to   == caller[self]
<1>1. ~Misdirected /\ Standing /\ Pointers /\ CallChain /\ ArgumentOutside
  BY NotMisdirected DEF InUserCode
<1>2. point[self] = "body" /\ self \in Active \ {Dummy} /\ self \in Coroutines
  BY ReturnLands
<1>3. to \in All /\ point[to] = "resume" /\ callee[to] = self /\ to # self
  BY ReturnLands
<1>4. /\ current' = to /\ ret' = status
      /\ point' = [c \in All |-> IF c = to THEN "woken" ELSE IF c = self THEN saved ELSE point[c]]
  BY ReturnLands
<1>5. TypeOK'
  BY <1>3, <1>4 DEF IndInv, TypeOK, Points, Statuses
<1>6. Active' = Active \ {self}
  BY ReturnLeaves
<1>7. NotReachable' /\ ActiveIsAllocated'
  BY <1>4, <1>6 DEF IndInv, NotReachable, ActiveIsAllocated
<1>8. Standing'
  BY <1>1, <1>2, <1>3, <1>4, ConstantsAssumption DEF IndInv, TypeOK, Standing, All
<1>9. Pointers'
  <2>1. Known' = Known
    BY <1>2, <1>3, <1>4 DEF Known, All
  <2> QED
    BY <2>1, <1>1, <1>2, <1>3, <1>4 DEF Pointers, All
<1>10. \A c \in Active \ {Dummy, self} :
         /\ caller[c] \in All /\ point[caller[c]] = "resume" /\ callee[caller[c]] = c
         /\ caller[c] # self /\ caller[c] # to /\ caller'[c] = caller[c]
  BY ReturnLeaves
<1>11. CallChain'
  <2>1. \A c \in Active' \ {Dummy} : point'[caller'[c]] = "resume" /\ callee'[caller'[c]] = c
    BY <1>4, <1>6, <1>10
  <2>2. to \in Active'
    BY <1>1, <1>2, <1>3, <1>6, ActiveClosed DEF Closed, IndInv
  <2>3. ASSUME NEW B \in SUBSET Active', to \in B, Closed(B)'
        PROVE  B = Active'
    <3>1. Closed(B \cup {self})
      BY <2>3, <1>6, <1>10 DEF Closed
    <3>2. B \cup {self} = Active
      BY <3>1, <1>1, <1>2, <1>6 DEF CallChain
    <3> QED
      BY <3>2, <1>6
  <2> QED
    BY <2>1, <2>2, <2>3, <1>4 DEF CallChain
<1>12. ArgumentOutside'
  <2> SUFFICES ASSUME NEW s \in All, callee[s] # NULL
               PROVE  \E B \in SUBSET Active' : s \in B /\ Closed(B)' /\ argument[s] \notin B
    BY DEF ArgumentOutside
  <2>1. PICK B \in SUBSET Active : s \in B /\ Closed(B) /\ argument[s] \notin B
    BY <1>1 DEF ArgumentOutside
  <2>2. s # self
    BY <1>1, <1>2 DEF Standing
  <2>3. PICK A \in SUBSET Active : A = B \ {self}
    OBVIOUS
  <2>4. Closed(A)'
    BY <2>1, <2>3, <1>10 DEF Closed
  <2> QED
    BY <2>1, <2>2, <2>3, <2>4, <1>6
<1> QED
  BY <1>5, <1>7, <1>8, <1>9, <1>11, <1>12 DEF IndInv

(* xcp_coroutine_yield keeps the invariant.                                *)
LEMMA YieldInd ==
  ASSUME IndInv, Yield
  PROVE  IndInv'
<1>1. CASE Stop("abort")
  BY <1>1, StopInd DEF Faults
<1>2. CASE ~Stop("abort")
  BY <1>2, ReturnInd DEF Yield, locals
<1> QED
  BY <1>1, <1>2

(* The end of a callback keeps the invariant.                              *)
LEMMA FinishInd ==
  ASSUME IndInv, Finish
  PROVE  IndInv'
<1>1. caller[current] # NULL
  BY NotMisdirected DEF Finish, InUserCode, Standing, IndInv, TypeOK, All
<1> QED
  BY <1>1, ReturnInd DEF Finish, locals

-----------------------------------------------------------------------------
(* Every step keeps the invariant.                                         *)
LEMMA NextInd == IndInv /\ [Next]_vars => IndInv'
<1> SUFFICES ASSUME IndInv, [Next]_vars PROVE IndInv'
  OBVIOUS
<1>1. ASSUME NEW c \in Coroutines, Create(c) PROVE IndInv'
  BY <1>1, CreateInd
<1>2. ASSUME NEW c \in All, Resume(c) PROVE IndInv'
  BY <1>2, ResumeInd
<1>3. ASSUME NEW c \in All, Process(c) PROVE IndInv'
  BY <1>3, ResumeInd, EnqueueInd DEF Process
<1>4. CASE Fetch
  BY <1>4, FetchInd
<1>5. CASE Settle
  BY <1>5, SettleInd
<1>6. CASE Leave
  BY <1>6, LeaveInd
<1>7. CASE Yield
  BY <1>7, YieldInd
<1>8. CASE Finish
  BY <1>8, FinishInd
<1>9. CASE UNCHANGED vars
  <2>1. UNCHANGED <<current, caller, point, heap, next, pendings, argument, callee, batch,
                    ret, owed, fault>>
    BY <1>9 DEF vars, locals
  <2>2. Active' = Active /\ Known' = Known /\ Misdirected' = Misdirected
    BY <2>1 DEF Active, Known, Misdirected
  <2>3. \A B : Closed(B)' <=> Closed(B)
    BY <2>1 DEF Closed
  <2>4. TypeOK' /\ NotReachable' /\ ActiveIsAllocated'
    BY <2>1, <2>2 DEF IndInv, TypeOK, NotReachable, ActiveIsAllocated
  <2>5. ASSUME ~Misdirected PROVE Standing' /\ Pointers' /\ CallChain' /\ ArgumentOutside'
    BY <2>5, <2>1, <2>2, <2>3 DEF IndInv, Standing, Pointers, CallChain, ArgumentOutside
  <2> QED
    BY <2>2, <2>4, <2>5 DEF IndInv
<1> QED
  BY <1>1, <1>2, <1>3, <1>4, <1>5, <1>6, <1>7, <1>8, <1>9 DEF Next

(* IndInv holds in every reachable state: however the user code nests and  *)
(* orders its calls, for any number of coroutines.                         *)
THEOREM Inductive == Spec => []IndInv
<1>1. Init => IndInv
  BY InitInd
<1>2. IndInv /\ [Next]_vars => IndInv'
  BY NextInd
<1> QED
  BY <1>1, <1>2, PTL DEF Spec

(* The variables keep their types; each may be NULL where that allows it.  *)
THEOREM TypeCorrect == Spec => []TypeOK
<1>1. IndInv => TypeOK
  BY DEF IndInv
<1> QED
  BY <1>1, Inductive, PTL

(* What is used as a pointer without a test: the caller that the end of a  *)
(* callback jumps to (line 150), and the callee whose list is spliced and  *)
(* the argument that is destroyed when a _resume runs again (lines 291-296,*)
(* also after a misdirected jump).                                         *)
NoNullUsed ==
  /\ current # Dummy /\ point[current] = "body" => caller[current] # NULL
  /\ point[current] = "woken" => callee[current] # NULL /\ argument[current] # NULL

(* A jump that is misdirected lands where the _resume has its locals.      *)
LEMMA NoNullNext ==
  ASSUME IndInv, IndInv', NoNullUsed, [Next]_vars
  PROVE  NoNullUsed'
<1>1. CASE ~Misdirected'
  <2>1. Standing' /\ (TypeOK)' /\ NULL \notin All
    BY <1>1, ConstantsAssumption DEF IndInv
  <2> QED
    BY <2>1 DEF NoNullUsed, Standing, TypeOK, All
<1>2. CASE Misdirected'
  <2>1. point'[current'] = "woken" /\ ret' = "Running"
    BY <1>2 DEF Misdirected
  <2>2. CASE UNCHANGED <<current, point, caller, callee, argument>>
    BY <2>2 DEF NoNullUsed
  <2>3. CASE Fetch /\ fault' = fault
    <3>1. ~Misdirected /\ Standing
      BY <2>3, NotMisdirected DEF Fetch
    <3> DEFINE first == batch[current].first
               left  == [point EXCEPT ![current] = "resume"]
    <3>2. /\ current \in All /\ first \in All
          /\ point \in [All -> Points]
          /\ callee \in [All -> All \cup {NULL}] /\ argument \in [All -> All \cup {NULL}]
      BY <2>3 DEF Fetch, IndInv, TypeOK, Heads
    <3>3. /\ point[current] = "loop" /\ current' = first /\ argument' = argument
          /\ callee' = [callee EXCEPT ![current] = first]
          /\ point' = [left EXCEPT ![first] = Landing[left[first]]]
      BY <2>3 DEF Fetch, Exec, Stop
    <3>4. left[first] = "resume"
      BY <2>1, <3>2, <3>3 DEF Landing, Points
    <3>5. first # current => point[first] = "resume"
      BY <3>2, <3>4
    <3>6. argument[first] \in All /\ callee'[first] # NULL
      BY <3>1, <3>2, <3>3, <3>5, ConstantsAssumption DEF Standing
    <3> QED
      BY <2>1, <3>3, <3>6, ConstantsAssumption DEF NoNullUsed
  <2>4. CASE \E c \in All : Create(c) \/ Resume(c) \/ Enqueue(c)
    <3>1. PICK c \in All : Create(c) \/ Resume(c) \/ Enqueue(c)
      BY <2>4
    <3>2. current' = current /\ current \in All /\ point \in [All -> Points]
      BY <3>1 DEF Create, Resume, Enqueue, Stop, IndInv, TypeOK
    <3>3. CASE Stop("use_after_free") \/ Stop("abort")
      BY <2>2, <3>3 DEF Stop, locals
    <3>4. CASE ~(Stop("use_after_free") \/ Stop("abort"))
      <4>1. point'[current] \in {"body", "loop"}
        BY <3>1, <3>2, <3>4 DEF Create, Resume, Enqueue, InUserCode
      <4> QED
        BY <2>1, <3>2, <4>1
    <3> QED
      BY <3>3, <3>4
  <2>5. CASE Settle \/ Leave
    <3>1. current \in All /\ point \in [All -> Points]
      BY DEF IndInv, TypeOK
    <3>2. CASE \E kind \in Faults : Stop(kind)
      BY <2>2, <3>2 DEF Stop, locals
    <3>3. CASE point' \in {[point EXCEPT ![current] = "loop"], [point EXCEPT ![current] = "body"]}
               /\ current' = current
      BY <2>1, <3>1, <3>3
    <3> QED
      BY <2>5, <3>2, <3>3 DEF Settle, Leave, Faults
  <2>6. CASE Yield \/ Finish
    <3>1. CASE Stop("abort")
      BY <2>2, <3>1 DEF Stop, locals
    <3>2. CASE ret' \in {"Suspend", "Terminated"}
      BY <2>1, <3>2
    <3> QED
      BY <2>6, <3>1, <3>2 DEF Yield, Finish, Exec
  <2>7. CASE Fetch /\ fault' # fault
    BY <2>2, <2>7 DEF Fetch, Stop, locals
  <2>8. Coroutines \subseteq All
    BY DEF All
  <2>9. CASE UNCHANGED vars
    BY <2>2, <2>9 DEF vars, locals
  <2> QED
    BY <2>3, <2>4, <2>5, <2>6, <2>7, <2>8, <2>9 DEF Next, Process
<1> QED
  BY <1>1, <1>2

(* No NULL caller, callee or argument is used for a jump, a splice or a    *)
(* free: yield tests its caller, and nothing else needs to.                *)
THEOREM NoNullIsUsed == Spec => []NoNullUsed
<1>1. Init => NoNullUsed
  BY ConstantsAssumption DEF Init, NoNullUsed, All
<1>2. IndInv /\ IndInv' /\ NoNullUsed /\ [Next]_vars => NoNullUsed'
  BY NoNullNext
<1> QED
  BY <1>1, <1>2, Inductive, PTL DEF Spec

(* Every yield and every end of a callback returns to the _resume waiting  *)
(* for that very coroutine.                                                *)
THEOREM ChainCorrect == Spec => []CallChain
<1>1. IndInv => CallChain
  BY DEF IndInv, CallChain
<1> QED
  BY <1>1, Inductive, PTL

(* The abort marked "Not reachable." is never reached, and no jump lands   *)
(* on an env that was never saved.                                         *)
THEOREM StrayUnreachable == Spec => []NotReachable
<1>1. IndInv => NotReachable
  BY DEF IndInv
<1> QED
  BY <1>1, Inductive, PTL

(* No stack in use is ever unmapped by the destroy of line 296, even where *)
(* it frees the wrong coroutine.                                           *)
THEOREM ActiveStacksKept == Spec => []ActiveIsAllocated
<1>1. IndInv => ActiveIsAllocated
  BY DEF IndInv
<1> QED
  BY <1>1, Inductive, PTL

-----------------------------------------------------------------------------
(* The queues as sequences.                                                *)

(* From the head h, the links n lead through s and end at its last.        *)
Spells(n, h, s) ==
  /\ Len(s) = 0 => h.first = NULL /\ h.last = NULL
  /\ Len(s) > 0 => h.first = s[1] /\ h.last = s[Len(s)] /\ n[s[Len(s)]] = NULL
  /\ \A i \in 1 .. Len(s) - 1 : n[s[i]] = s[i + 1]

Lists == [All -> Seq(All)]

Listed(f) == {e \in All : \E d \in All : \E i \in DOMAIN f[d] : f[d][i] = e}

(* No coroutine is twice in f.                                             *)
Once(f) ==
  \A c, d \in All : \A i \in DOMAIN f[c], j \in DOMAIN f[d] :
    f[c][i] = f[d][j] => c = d /\ i = j

(* The argument of a _resume that has just been called: the only coroutine *)
(* on a queue that nobody has put on a pending list.                       *)
Direct(d, i) ==
  d = current /\ i = 1 /\ point[current] = "loop" /\ callee[current] = NULL

(* No coroutine is in two places.                                          *)
Separate(posts, todo) ==
  Once(posts) /\ Once(todo) /\ Listed(posts) \cap Listed(todo) = {}

(* The links and the heads are those of the lists.                         *)
Linked(posts, todo) ==
  \A c \in All : Spells(next, pendings[c], posts[c]) /\ Spells(next, batch[c], todo[c])

(* Listed is what is owed, and the argument of a _resume just called.      *)
Accounted(posts, todo) ==
  /\ Listed(posts) \subseteq owed /\ owed \subseteq Listed(posts) \cup Listed(todo)
  /\ \A d \in All : \A i \in DOMAIN todo[d] : todo[d][i] \in owed \/ Direct(d, i)

(* A list that cannot be in use is empty.                                  *)
Unused(posts, todo) ==
  \A c \in All : /\ point[c] = "none" => Len(posts[c]) = 0
                 /\ point[c] \notin {"resume", "woken", "loop"} => Len(todo[c]) = 0

(* `posts' are the pending lists, `todo' the local queues.                 *)
Queues(posts, todo) ==
  Linked(posts, todo) /\ Separate(posts, todo) /\ Accounted(posts, todo) /\ Unused(posts, todo)

-----------------------------------------------------------------------------
(* What the queue operations do to the sequences.                          *)

(* A link that is written elsewhere does not disturb a queue.              *)
LEMMA SpellsKept ==
  ASSUME NEW n, NEW m, NEW h, NEW s \in Seq(All), Spells(n, h, s),
         \A i \in DOMAIN s : m[s[i]] = n[s[i]]
  PROVE  Spells(m, h, s)
BY DEF Spells

(* STAILQ_INSERT_TAIL appends, and writes no link but the new element's    *)
(* and the last one's.                                                     *)
LEMMA InsertSpells ==
  ASSUME NEW n \in [All -> All \cup {NULL}], NEW h \in Heads, NEW s \in Seq(All),
         Spells(n, h, s), NEW c \in All, \A i \in DOMAIN s : s[i] # c,
         \A i, j \in DOMAIN s : s[i] = s[j] => i = j
  PROVE  /\ Spells(Q!InsertLinks(n, h, c), Q!InsertHead(h, c), Append(s, c))
         /\ \A e \in All :
              e # c /\ (\A i \in DOMAIN s : s[i] # e) => Q!InsertLinks(n, h, c)[e] = n[e]
<1>1. PICK r \in Seq(All) : r = Append(s, c)
  BY AppendProperties
<1>2. /\ Len(r) = Len(s) + 1 /\ r[Len(s) + 1] = c /\ \A i \in 1 .. Len(s) : r[i] = s[i]
  BY <1>1, AppendProperties
<1>3. /\ Len(s) \in Nat /\ DOMAIN s = 1 .. Len(s) /\ \A i \in 1 .. Len(s) : s[i] \in All
  BY LenProperties
<1>4. PICK m, g : m = Q!InsertLinks(n, h, c) /\ g = Q!InsertHead(h, c)
  OBVIOUS
<1>5. NULL \notin All
  BY ConstantsAssumption
<1>6. CASE Len(s) = 0
  <2>1. m = [n EXCEPT ![c] = NULL] /\ g = [first |-> c, last |-> c]
    BY <1>4, <1>6 DEF Q!InsertLinks, Q!InsertHead, Spells
  <2>2. Spells(m, g, r)
    BY <1>2, <1>6, <2>1 DEF Spells
  <2>3. \A e \in All : e # c => m[e] = n[e]
    BY <2>1
  <2> QED
    BY <1>1, <1>4, <2>2, <2>3
<1>7. CASE Len(s) > 0
  <2>1. h.last = s[Len(s)] /\ h.first = s[1] /\ h.last \in All /\ h.last # c /\ h.last # NULL
    BY <1>3, <1>5, <1>7 DEF Spells
  <2>2. /\ m = [[n EXCEPT ![c] = NULL] EXCEPT ![h.last] = c]
        /\ g = [first |-> h.first, last |-> c]
    BY <1>4, <2>1 DEF Q!InsertLinks, Q!InsertHead
  <2>3. /\ m[c] = NULL /\ m[s[Len(s)]] = c
        /\ \A e \in All : e # c /\ e # s[Len(s)] => m[e] = n[e]
    BY <2>1, <2>2
  <2>4. ASSUME NEW i \in 1 .. Len(r) - 1 PROVE m[r[i]] = r[i + 1]
    <3>1. CASE i = Len(s)
      BY <1>2, <1>3, <1>7, <2>3, <3>1
    <3>2. CASE i # Len(s)
      <4>1. i \in 1 .. Len(s) - 1 /\ i + 1 \in 1 .. Len(s) /\ Len(s) \in DOMAIN s /\ i \in DOMAIN s
        BY <1>2, <1>3, <1>7, <3>2
      <4>2. s[i] # s[Len(s)] /\ s[i] # c /\ n[s[i]] = s[i + 1]
        BY <4>1, <3>2 DEF Spells
      <4> QED
        BY <1>2, <1>3, <2>3, <4>1, <4>2
    <3> QED
      BY <3>1, <3>2
  <2>5. Spells(m, g, r)
    BY <1>2, <1>3, <1>7, <2>1, <2>2, <2>3, <2>4 DEF Spells
  <2>6. ASSUME NEW e \in All, e # c, \A i \in DOMAIN s : s[i] # e
        PROVE  m[e] = n[e]
    BY <1>3, <1>7, <2>3, <2>6
  <2> QED
    BY <1>1, <1>4, <2>5, <2>6
<1> QED
  BY <1>3, <1>6, <1>7

(* STAILQ_REMOVE_HEAD takes the first element off.                         *)
LEMMA RemoveSpells ==
  ASSUME NEW n, NEW h, NEW s \in Seq(All), Spells(n, h, s), Len(s) > 0
  PROVE  Spells(n, Q!RemoveHead(n, h), Tail(s))
<1>1. s # << >>
  BY EmptySeq
<1>2. PICK r \in Seq(All) : r = Tail(s)
  BY <1>1, HeadTailProperties
<1>3. Len(r) = Len(s) - 1 /\ \A i \in 1 .. Len(r) : r[i] = s[i + 1]
  BY <1>1, <1>2, HeadTailProperties
<1>4. Len(s) \in Nat /\ \A i \in 1 .. Len(s) : s[i] \in All
  BY LenProperties
<1>5. NULL \notin All
  BY ConstantsAssumption
<1>6. CASE Len(s) = 1
  <2>1. n[h.first] = NULL /\ Len(r) = 0
    BY <1>3, <1>6 DEF Spells
  <2>2. Q!RemoveHead(n, h) = [first |-> NULL, last |-> NULL]
    BY <2>1 DEF Q!RemoveHead, Q!Empty
  <2> QED
    BY <1>2, <2>1, <2>2 DEF Spells
<1>7. CASE Len(s) > 1
  <2>1. h.first = s[1] /\ h.last = s[Len(s)] /\ n[s[Len(s)]] = NULL /\ n[s[1]] = s[2]
    BY <1>4, <1>7 DEF Spells
  <2>2. s[2] \in All /\ r[1] = s[2] /\ r[Len(r)] = s[Len(s)] /\ Len(r) > 0
    BY <1>3, <1>4, <1>7
  <2>3. PICK g : g = Q!RemoveHead(n, h) /\ g = [first |-> s[2], last |-> h.last]
    BY <1>5, <2>1, <2>2 DEF Q!RemoveHead
  <2>4. ASSUME NEW i \in 1 .. Len(r) - 1 PROVE n[r[i]] = r[i + 1]
    <3>1. i + 1 \in 1 .. Len(s) - 1 /\ i \in 1 .. Len(r) /\ i + 1 \in 1 .. Len(r)
      BY <1>3, <1>4
    <3>2. n[s[i + 1]] = s[(i + 1) + 1]
      BY <3>1 DEF Spells
    <3> QED
      BY <1>3, <3>1, <3>2
  <2>5. Spells(n, g, r)
    BY <1>3, <2>1, <2>2, <2>3, <2>4 DEF Spells
  <2> QED
    BY <1>2, <2>3, <2>5
<1>8. PICK a \in Nat : a = Len(s)
  BY <1>4
<1>9. a = 1 \/ a > 1
  BY <1>8
<1> QED
  BY <1>6, <1>7, <1>8, <1>9, Zenon

(* The splice in front concatenates, and writes at most the last link of   *)
(* the queue that is put in front.                                         *)
LEMMA SplicedSpells ==
  ASSUME next \in [All -> All \cup {NULL}], NEW f \in Heads, NEW g \in Heads,
         NEW s \in Seq(All), NEW t \in Seq(All),
         Spells(next, f, s), Spells(next, g, t),
         \A i, j \in DOMAIN s : s[i] = s[j] => i = j,
         \A i \in DOMAIN s, j \in DOMAIN t : s[i] # t[j]
  PROVE  /\ Spells(Spliced(f, g).links, Spliced(f, g).head, s \o t)
         /\ \A e \in All : (\A i \in DOMAIN s : s[i] # e) => Spliced(f, g).links[e] = next[e]
<1>1. PICK r \in Seq(All) : r = s \o t
  BY ConcatProperties
<1>2. /\ Len(r) = Len(s) + Len(t)
      /\ \A i \in 1 .. Len(s) + Len(t) : r[i] = IF i <= Len(s) THEN s[i] ELSE t[i - Len(s)]
  BY <1>1, ConcatProperties
<1>3. /\ Len(s) \in Nat /\ DOMAIN s = 1 .. Len(s) /\ \A i \in 1 .. Len(s) : s[i] \in All
      /\ Len(t) \in Nat /\ DOMAIN t = 1 .. Len(t) /\ \A i \in 1 .. Len(t) : t[i] \in All
  BY LenProperties
<1>10. PICK a \in Nat, b \in Nat : a = Len(s) /\ b = Len(t)
  BY <1>3
<1>4. PICK m, h : m = Spliced(f, g).links /\ h = Spliced(f, g).head
  OBVIOUS
<1>5. /\ m = Q!ConcatLinks(next, f, g) /\ h = Q!ConcatHead(Q!Empty, Q!ConcatHead(f, g))
  BY <1>4 DEF Spliced
<1>6. NULL \notin All
  BY ConstantsAssumption
<1>7. CASE Len(t) = 0
  <2>1. g.first = NULL
    BY <1>7 DEF Spells
  <2>2. m = next /\ h = IF f.first = NULL THEN [first |-> NULL, last |-> NULL]
                        ELSE [first |-> f.first, last |-> f.last]
    BY <1>5, <2>1 DEF Q!ConcatLinks, Q!ConcatHead, Q!Empty
  <2>3. h.first = f.first /\ h.last = f.last
    <3>1. f.first = NULL => Len(s) = 0
      BY <1>3, <1>6 DEF Spells
    <3> QED
      BY <2>2, <3>1 DEF Spells
  <2>4. Len(r) = Len(s) /\ \A i \in 1 .. Len(s) : r[i] = s[i]
    BY <1>2, <1>3, <1>7
  <2>5. Spells(m, h, r)
    <3>1. \A i \in 1 .. Len(s) : i <= Len(s) - 1 => i + 1 \in 1 .. Len(s)
      BY <1>3
    <3> QED
      BY <1>3, <2>2, <2>3, <2>4, <3>1 DEF Spells
  <2> QED
    BY <1>1, <1>4, <2>2, <2>5
<1>8. CASE Len(t) > 0 /\ Len(s) = 0
  <2>1. f.last = NULL /\ g.first = t[1] /\ g.first # NULL
    BY <1>3, <1>6, <1>8 DEF Spells
  <2>2. m = next /\ h = [first |-> g.first, last |-> g.last]
    BY <1>5, <2>1 DEF Q!ConcatLinks, Q!ConcatHead, Q!Empty
  <2>3. Len(r) = Len(t) /\ \A i \in 1 .. Len(t) : r[i] = t[i]
    BY <1>2, <1>3, <1>8
  <2>4. Spells(m, h, r)
    <3>1. \A i \in 1 .. Len(t) : i <= Len(t) - 1 => i + 1 \in 1 .. Len(t)
      BY <1>3
    <3> QED
      BY <1>3, <2>2, <2>3, <3>1 DEF Spells
  <2> QED
    BY <1>1, <1>4, <2>2, <2>4
<1>9. CASE Len(t) > 0 /\ Len(s) > 0
  <2>1. /\ f.last = s[Len(s)] /\ f.first = s[1] /\ f.last # NULL /\ f.first # NULL
        /\ g.first = t[1] /\ g.last = t[Len(t)] /\ g.first # NULL /\ next[t[Len(t)]] = NULL
        /\ s[Len(s)] \in All
    BY <1>3, <1>6, <1>9 DEF Spells
  <2>2. m = [next EXCEPT ![s[Len(s)]] = t[1]] /\ h = [first |-> s[1], last |-> t[Len(t)]]
    BY <1>5, <2>1 DEF Q!ConcatLinks, Q!ConcatHead, Q!Empty
  <2>3. /\ m[s[Len(s)]] = t[1]
        /\ \A e \in All : e # s[Len(s)] => m[e] = next[e]
    BY <2>1, <2>2
  <2>4. r[1] = s[1] /\ r[Len(r)] = t[Len(t)]
    BY <1>2, <1>3, <1>9
  <2>5. m[t[Len(t)]] = NULL
    BY <1>3, <1>9, <2>1, <2>3
  <2>6. ASSUME NEW i \in 1 .. Len(r) - 1 PROVE m[r[i]] = r[i + 1]
    <3>1. i \in 1 .. a + b - 1 /\ a > 0 /\ b > 0
      BY <1>2, <1>9, <1>10
    <3>2. \A k \in 1 .. a + b : r[k] = IF k <= a THEN s[k] ELSE t[k - a]
      BY <1>2, <1>10
    <3>3. /\ \A k \in 1 .. a : s[k] \in All /\ (k # a => s[k] # s[a])
          /\ \A k \in 1 .. a, l \in 1 .. b : s[k] # t[l]
          /\ \A l \in 1 .. b : t[l] \in All
      <4>1. DOMAIN s = 1 .. a /\ DOMAIN t = 1 .. b /\ a \in 1 .. a
        BY <1>3, <1>10, <3>1
      <4>2. \A k \in 1 .. a : s[k] \in All /\ (k # a => s[k] # s[a])
        BY <4>1, <1>3, <1>10
      <4>3. \A k \in 1 .. a, l \in 1 .. b : s[k] # t[l]
        BY <4>1
      <4>4. \A l \in 1 .. b : t[l] \in All
        BY <1>3, <1>10
      <4> QED
        BY <4>2, <4>3, <4>4, Zenon
    <3>4. /\ \A k \in 1 .. a - 1 : next[s[k]] = s[k + 1]
          /\ \A k \in 1 .. b - 1 : next[t[k]] = t[k + 1]
      BY <1>10 DEF Spells
    <3>5. m[s[a]] = t[1] /\ \A e \in All : e # s[a] => m[e] = next[e]
      BY <1>10, <2>3
    <3>6. CASE i < a
      <4>1. r[i] = s[i] /\ r[i + 1] = s[i + 1] /\ next[s[i]] = s[i + 1]
        BY <3>1, <3>2, <3>4, <3>6
      <4>2. s[i] \in All /\ s[i] # s[a]
        BY <3>1, <3>3, <3>6
      <4> QED
        BY <3>5, <4>1, <4>2
    <3>7. CASE i = a
      BY <3>1, <3>2, <3>5, <3>7
    <3>8. CASE i > a
      <4>1. PICK k \in 1 .. b - 1 : i = k + a
        BY <3>1, <3>8
      <4>2. r[i] = t[k] /\ r[i + 1] = t[k + 1] /\ next[t[k]] = t[k + 1]
        BY <3>1, <3>2, <3>4, <4>1
      <4>3. t[k] \in All /\ t[k] # s[a]
        BY <3>1, <3>3, <4>1
      <4> QED
        BY <3>5, <4>2, <4>3
    <3> QED
      BY <3>1, <3>6, <3>7, <3>8
  <2>7. Spells(m, h, r)
    BY <1>2, <1>3, <1>9, <2>2, <2>4, <2>5, <2>6 DEF Spells
  <2>8. ASSUME NEW e \in All, \A i \in DOMAIN s : s[i] # e
        PROVE  m[e] = next[e]
    BY <1>3, <1>9, <2>3, <2>8
  <2> QED
    BY <1>1, <1>4, <2>7, <2>8
<1> QED
  BY <1>3, <1>7, <1>8, <1>9
-----------------------------------------------------------------------------
(* What the operations do to the lists.                                    *)

(* What is on g was on the same list of f, or is the c added to f[d].      *)
Added(f, d, c, g) ==
  \A e \in All : \A i \in DOMAIN g[e] :
    (e = d /\ g[e][i] = c) \/ \E j \in DOMAIN f[e] : g[e][i] = f[e][j]

(* One list becomes longer by an element that was nowhere.                 *)
LEMMA AppendedList ==
  ASSUME NEW f \in Lists, NEW d \in All, NEW c \in All, Once(f), c \notin Listed(f),
         NEW g, g = [f EXCEPT ![d] = Append(f[d], c)]
  PROVE  g \in Lists /\ Once(g) /\ Listed(g) = Listed(f) \cup {c} /\ Added(f, d, c, g)
<1>1. PICK s \in Seq(All), r \in Seq(All) : s = f[d] /\ r = Append(s, c)
  BY AppendProperties DEF Lists
<1>9. PICK a \in Nat : a = Len(s) /\ DOMAIN s = 1 .. a
  BY LenProperties
<1>2. DOMAIN r = 1 .. a + 1 /\ r[a + 1] = c /\ \A i \in 1 .. a : r[i] = s[i]
  <2>1. Len(r) = a + 1 /\ r[a + 1] = c /\ \A i \in 1 .. a : r[i] = s[i]
    BY <1>1, <1>9, AppendProperties
  <2> QED
    BY <2>1, LenProperties
<1>3. g \in Lists /\ \A e \in All : g[e] = IF e = d THEN r ELSE f[e]
  BY <1>1 DEF Lists
<1>4. \A e \in All : \A i \in DOMAIN g[e] :
        \/ i \in DOMAIN f[e] /\ g[e][i] = f[e][i]
        \/ e = d /\ i = a + 1 /\ g[e][i] = c
  BY <1>1, <1>2, <1>3, <1>9
<1>5. \A e \in All : \A i \in DOMAIN f[e] : i \in DOMAIN g[e] /\ g[e][i] = f[e][i]
  BY <1>1, <1>2, <1>3, <1>9
<1>6. \A e \in All : \A i \in DOMAIN f[e] : f[e][i] \in Listed(f)
  <2>1. \A e \in All : \A i \in DOMAIN f[e] : f[e][i] \in All
    BY ElementOfSeq, LenProperties DEF Lists
  <2> QED
    BY <2>1 DEF Listed
<1>7. Once(g)
  BY <1>4, <1>6 DEF Once
<1>8. Listed(g) = Listed(f) \cup {c}
  <2>1. a + 1 \in DOMAIN g[d] /\ g[d][a + 1] = c
    <3>1. a + 1 \in 1 .. a + 1
      OBVIOUS
    <3> QED
      BY <3>1, <1>2, <1>3
  <2>2. Listed(g) \subseteq Listed(f) \cup {c}
    BY <1>4 DEF Listed
  <2>3. Listed(f) \subseteq Listed(g)
    BY <1>5 DEF Listed
  <2>4. c \in Listed(g)
    BY <2>1 DEF Listed
  <2> QED
    BY <2>2, <2>3, <2>4
<1>10. Added(f, d, c, g)
  BY <1>4 DEF Added
<1> QED
  BY <1>3, <1>7, <1>8, <1>10

(* What is on g was on the same list of f, but not as the first of f[d].   *)
Remains(f, d, g) ==
  \A e \in All : \A i \in DOMAIN g[e] :
    \E j \in DOMAIN f[e] : g[e][i] = f[e][j] /\ (e = d => j # 1)

(* One list loses its first element.                                       *)
LEMMA ShortenedList ==
  ASSUME NEW f \in Lists, NEW d \in All, Once(f), Len(f[d]) > 0,
         NEW g, g = [f EXCEPT ![d] = Tail(f[d])]
  PROVE  /\ g \in Lists /\ Once(g) /\ Listed(g) = Listed(f) \ {f[d][1]}
         /\ 1 \in DOMAIN f[d] /\ f[d][1] \in Listed(f)
         /\ Remains(f, d, g)
<1>1. PICK s \in Seq(All) : s = f[d] /\ s # << >>
  BY EmptySeq DEF Lists
<1>2. PICK r \in Seq(All) : r = Tail(s)
  BY <1>1, HeadTailProperties
<1>3. PICK a \in Nat : /\ a = Len(r) /\ DOMAIN s = 1 .. a + 1 /\ DOMAIN r = 1 .. a
                       /\ \A i \in 1 .. a : r[i] = s[i + 1]
  BY <1>1, <1>2, HeadTailProperties, LenProperties
<1>4. g \in Lists /\ \A e \in All : g[e] = IF e = d THEN r ELSE f[e]
  BY <1>1, <1>2 DEF Lists
<1>5. \A e \in All : \A i \in DOMAIN g[e] :
        \/ e # d /\ i \in DOMAIN f[e] /\ g[e][i] = f[e][i]
        \/ e = d /\ i \in 1 .. a /\ i + 1 \in DOMAIN f[e] /\ g[e][i] = f[e][i + 1]
  BY <1>1, <1>3, <1>4
<1>6. \A e \in All : \A i \in DOMAIN f[e] : f[e][i] \in All
  BY ElementOfSeq, LenProperties DEF Lists
<1>7. 1 \in DOMAIN f[d] /\ f[d][1] \in Listed(f)
  BY <1>1, <1>3, <1>6 DEF Listed
<1>8. \A e \in All : \A i \in DOMAIN g[e] :
        \E j \in DOMAIN f[e] : g[e][i] = f[e][j] /\ (e = d => j # 1)
  <2>1. \A i \in 1 .. a : i + 1 # 1
    OBVIOUS
  <2> QED
    BY <2>1, <1>5
<1>9. Once(g)
  <2> SUFFICES ASSUME NEW c \in All, NEW e \in All, NEW i \in DOMAIN g[c], NEW j \in DOMAIN g[e],
                      g[c][i] = g[e][j]
               PROVE  c = e /\ i = j
    BY DEF Once
  <2> QED
    BY <1>5 DEF Once
<1>10. Listed(g) = Listed(f) \ {f[d][1]}
  <2>1. ASSUME NEW e \in All, NEW i \in DOMAIN g[e]
        PROVE  g[e][i] \in Listed(f) \ {f[d][1]}
    <3>1. PICK j \in DOMAIN f[e] : g[e][i] = f[e][j] /\ (e = d => j # 1)
      BY <1>8
    <3> QED
      BY <3>1, <1>6, <1>7 DEF Once, Listed
  <2>2. ASSUME NEW e \in All, NEW i \in DOMAIN f[e], f[e][i] # f[d][1]
        PROVE  \E j \in DOMAIN g[e] : g[e][j] = f[e][i]
    <3>1. CASE e # d
      BY <1>4, <3>1
    <3>2. CASE e = d
      <4>1. i \in 1 .. a + 1 /\ i # 1
        BY <1>1, <1>3, <2>2, <3>2
      <4>2. PICK j \in 1 .. a : j + 1 = i
        <5>1. i - 1 \in 1 .. a /\ (i - 1) + 1 = i
          BY <4>1
        <5> QED
          BY <5>1
      <4> QED
        BY <1>1, <1>3, <1>4, <3>2, <4>2
    <3> QED
      BY <3>1, <3>2
  <2> QED
    BY <1>6, <2>1, <2>2 DEF Listed
<1> QED
  BY <1>4, <1>7, <1>8, <1>9, <1>10 DEF Remains

(* What is on a list is listed.                                            *)
LEMMA OnAList ==
  ASSUME NEW f \in Lists, NEW c \in All, NEW i \in DOMAIN f[c]
  PROVE  f[c][i] \in All /\ f[c][i] \in Listed(f)
<1>1. f[c][i] \in All
  BY ElementOfSeq, LenProperties DEF Lists
<1> QED
  BY <1>1 DEF Listed

(* Separate lists have no element in common.                               *)
LEMMA ApartLists ==
  ASSUME NEW f \in Lists, NEW g \in Lists, Separate(f, g)
  PROVE  \A c, d \in All : \A i \in DOMAIN f[c], j \in DOMAIN g[d] : f[c][i] # g[d][j]
<1> SUFFICES ASSUME NEW c \in All, NEW d \in All, NEW i \in DOMAIN f[c], NEW j \in DOMAIN g[d],
                    f[c][i] = g[d][j]
             PROVE  FALSE
  OBVIOUS
<1>1. f[c][i] \in Listed(f) /\ g[d][j] \in Listed(g)
  BY OnAList
<1> QED
  BY <1>1 DEF Separate

(* h and k are f and g after f[e] has been put in front of g[d].           *)
Joined(f, g, e, d, h, k) ==
  \E a, b \in Nat :
    /\ DOMAIN f[e] = 1 .. a /\ DOMAIN g[d] = 1 .. b
    /\ DOMAIN h[e] = {} /\ \A c \in All \ {e} : h[c] = f[c]
    /\ DOMAIN k[d] = 1 .. a + b /\ \A c \in All \ {d} : k[c] = g[c]
    /\ \A i \in 1 .. a : k[d][i] = f[e][i]
    /\ \A j \in 1 .. b : k[d][j + a] = g[d][j]

(* What is on k was on the same list of g, or on f[e] and is now on k[d].  *)
Drawn(f, g, e, d, k) ==
  \A c \in All : \A i \in DOMAIN k[c] :
    \/ \E j \in DOMAIN g[c] : k[c][i] = g[c][j]
    \/ c = d /\ \E j \in DOMAIN f[e] : k[c][i] = f[e][j]

(* Then the lists are as separate as before.                               *)
LEMMA JoinedApart ==
  ASSUME NEW f \in Lists, NEW g \in Lists, Separate(f, g), NEW e \in All, NEW d \in All,
         NEW h \in Lists, NEW k \in Lists, Joined(f, g, e, d, h, k)
  PROVE  /\ Separate(h, k)
         /\ Listed(h) \subseteq Listed(f) /\ Listed(g) \subseteq Listed(k)
         /\ Listed(h) \cup Listed(k) = Listed(f) \cup Listed(g)
         /\ \A c \in All : \A i \in DOMAIN h[c] :
              c # e /\ i \in DOMAIN f[c] /\ h[c][i] = f[c][i]
         /\ Drawn(f, g, e, d, k)
<1>17. PICK a \in Nat, b \in Nat :
         /\ DOMAIN f[e] = 1 .. a /\ DOMAIN g[d] = 1 .. b
         /\ DOMAIN h[e] = {} /\ \A c \in All \ {e} : h[c] = f[c]
         /\ DOMAIN k[d] = 1 .. a + b /\ \A c \in All \ {d} : k[c] = g[c]
         /\ \A i \in 1 .. a : k[d][i] = f[e][i]
         /\ \A j \in 1 .. b : k[d][j + a] = g[d][j]
  BY DEF Joined
<1> USE <1>17
<1>1. \A c \in All : /\ \A i \in DOMAIN f[c] : f[c][i] \in All
                     /\ \A i \in DOMAIN g[c] : g[c][i] \in All
                     /\ \A i \in DOMAIN h[c] : h[c][i] \in All
                     /\ \A i \in DOMAIN k[c] : k[c][i] \in All
  BY ElementOfSeq, LenProperties DEF Lists
<1>16. \A u, v \in All : \A i \in DOMAIN f[u], j \in DOMAIN g[v] : f[u][i] # g[v][j]
  BY ApartLists
<1>2. \A i \in DOMAIN k[d] : \/ i \in DOMAIN f[e] /\ k[d][i] = f[e][i]
                             \/ \E j \in DOMAIN g[d] : i = j + a /\ k[d][i] = g[d][j]
  <2> SUFFICES ASSUME NEW i \in 1 .. a + b
               PROVE  \/ i \in 1 .. a /\ k[d][i] = f[e][i]
                      \/ \E j \in 1 .. b : i = j + a /\ k[d][i] = g[d][j]
    OBVIOUS
  <2>1. CASE i <= a
    BY <2>1
  <2>2. CASE i > a
    <3>1. i - a \in 1 .. b /\ i = (i - a) + a
      BY <2>2
    <3>2. k[d][(i - a) + a] = g[d][i - a]
      BY <3>1
    <3> QED
      BY <3>1, <3>2
  <2> QED
    BY <2>1, <2>2
<1>3. /\ \A i \in DOMAIN f[e] : i \in DOMAIN k[d] /\ k[d][i] = f[e][i]
      /\ \A j \in DOMAIN g[d] : j + a \in DOMAIN k[d] /\ k[d][j + a] = g[d][j]
  <2>1. \A i \in 1 .. a : i \in 1 .. a + b
    OBVIOUS
  <2>2. \A j \in 1 .. b : j + a \in 1 .. a + b
    OBVIOUS
  <2> QED
    BY <2>1, <2>2
<1>4. \A c \in All : \A i \in DOMAIN h[c] : c # e /\ i \in DOMAIN f[c] /\ h[c][i] = f[c][i]
  OBVIOUS
<1>5. \A c \in All : \A i \in DOMAIN k[c] :
         \/ \E j \in DOMAIN g[c] : k[c][i] = g[c][j]
         \/ c = d /\ \E j \in DOMAIN f[e] : k[c][i] = f[e][j]
  <2> SUFFICES ASSUME NEW c \in All, NEW i \in DOMAIN k[c]
               PROVE  \/ \E j \in DOMAIN g[c] : k[c][i] = g[c][j]
                      \/ c = d /\ \E j \in DOMAIN f[e] : k[c][i] = f[e][j]
    OBVIOUS
  <2>1. CASE c = d
    <3>1. CASE i \in DOMAIN f[e] /\ k[d][i] = f[e][i]
      BY <2>1, <3>1
    <3>2. CASE \E j \in DOMAIN g[d] : i = j + a /\ k[d][i] = g[d][j]
      BY <2>1, <3>2
    <3> QED
      BY <1>2, <2>1, <3>1, <3>2
  <2>2. CASE c # d
    BY <2>2
  <2> QED
    BY <2>1, <2>2
<1>6. Once(h)
  BY <1>4 DEF Separate, Once
<1>7. ASSUME NEW i \in DOMAIN k[d], NEW j \in DOMAIN k[d], k[d][i] = k[d][j] PROVE i = j
  <2>1. \A x, y \in DOMAIN f[e] : f[e][x] = f[e][y] => x = y
    BY DEF Separate, Once
  <2>2. \A x, y \in DOMAIN g[d] : g[d][x] = g[d][y] => x = y
    BY DEF Separate, Once
  <2>3. \A x \in DOMAIN f[e], y \in DOMAIN g[d] : f[e][x] # g[d][y]
    BY <1>16
  <2>4. CASE i \in DOMAIN f[e] /\ k[d][i] = f[e][i]
    <3>1. j \in DOMAIN f[e] /\ k[d][j] = f[e][j]
      BY <1>2, <1>7, <2>3, <2>4
    <3> QED
      BY <1>7, <2>1, <2>4, <3>1
  <2>5. CASE \E y \in DOMAIN g[d] : i = y + a /\ k[d][i] = g[d][y]
    <3>1. PICK y \in DOMAIN g[d] : i = y + a /\ k[d][i] = g[d][y]
      BY <2>5
    <3>2. ~(j \in DOMAIN f[e] /\ k[d][j] = f[e][j])
      BY <1>7, <2>3, <3>1
    <3>3. PICK x \in DOMAIN g[d] : j = x + a /\ k[d][j] = g[d][x]
      BY <1>2, <3>2
    <3> QED
      BY <1>7, <2>2, <3>1, <3>3
  <2> QED
    BY <1>2, <2>4, <2>5
<1>8. ASSUME NEW c \in All, c # d, NEW i \in DOMAIN g[c], NEW j \in DOMAIN k[d] PROVE g[c][i] # k[d][j]
  <2>1. \A y \in DOMAIN g[d] : g[c][i] # g[d][y]
    BY <1>8 DEF Separate, Once
  <2>2. \A x \in DOMAIN f[e] : g[c][i] # f[e][x]
    BY <1>16
  <2> QED
    BY <1>2, <2>1, <2>2
<1>9. Once(k)
  <2> SUFFICES ASSUME NEW x \in All, NEW y \in All, NEW i \in DOMAIN k[x], NEW j \in DOMAIN k[y],
                      k[x][i] = k[y][j]
               PROVE  x = y /\ i = j
    BY DEF Once
  <2>1. CASE x = d /\ y = d
    BY <1>7, <2>1
  <2>2. CASE x # d /\ y # d
    BY <2>2 DEF Separate, Once
  <2>3. CASE x = d /\ y # d
    BY <1>8, <2>3
  <2>4. CASE x # d /\ y = d
    <3>1. i \in DOMAIN g[x] /\ j \in DOMAIN k[d] /\ g[x][i] = k[d][j]
      BY <2>4
    <3> QED
      BY <1>8, <2>4, <3>1
  <2> QED
    BY <2>1, <2>2, <2>3, <2>4
<1>10. Listed(h) \cap Listed(k) = {}
  <2> SUFFICES ASSUME NEW x \in All, NEW y \in All, NEW i \in DOMAIN h[x], NEW j \in DOMAIN k[y],
                      h[x][i] = k[y][j]
               PROVE  FALSE
    BY DEF Listed
  <2>1. x # e /\ i \in DOMAIN f[x] /\ h[x][i] = f[x][i] /\ f[x][i] \in All
    BY <1>1, <1>4
  <2>2. \A u \in DOMAIN g[y] : g[y][u] # f[x][i]
    BY <2>1 DEF Separate, Listed
  <2>3. \A u \in DOMAIN f[e] : f[e][u] # f[x][i]
    BY <2>1 DEF Separate, Once
  <2>4. (\E u \in DOMAIN g[y] : k[y][j] = g[y][u]) \/ \E u \in DOMAIN f[e] : k[y][j] = f[e][u]
    BY <1>5
  <2> QED
    BY <2>1, <2>2, <2>3, <2>4
<1>11. Listed(h) \subseteq Listed(f)
  BY <1>4 DEF Listed
<1>12. \A c \in All : \A i \in DOMAIN g[c] : \E j \in DOMAIN k[c] : k[c][j] = g[c][i]
  BY <1>3
<1>13. Listed(g) \subseteq Listed(k)
  BY <1>12 DEF Listed
<1>14. Listed(k) \subseteq Listed(f) \cup Listed(g)
  <2> SUFFICES ASSUME NEW x \in Listed(k) PROVE x \in Listed(f) \cup Listed(g)
    OBVIOUS
  <2>1. PICK c \in All : \E i \in DOMAIN k[c] : k[c][i] = x
    BY DEF Listed
  <2>2. PICK i \in DOMAIN k[c] : k[c][i] = x
    BY <2>1
  <2>3. CASE \E j \in DOMAIN g[c] : k[c][i] = g[c][j]
    BY <2>2, <2>3, OnAList
  <2>4. CASE \E j \in DOMAIN f[e] : k[c][i] = f[e][j]
    BY <2>2, <2>4, OnAList
  <2> QED
    BY <1>5, <2>3, <2>4
<1>15. Listed(f) \subseteq Listed(h) \cup Listed(k)
  <2> SUFFICES ASSUME NEW x \in Listed(f) PROVE x \in Listed(h) \cup Listed(k)
    OBVIOUS
  <2>1. PICK c \in All : \E i \in DOMAIN f[c] : f[c][i] = x
    BY DEF Listed
  <2>2. PICK i \in DOMAIN f[c] : f[c][i] = x
    BY <2>1
  <2>3. CASE c # e
    <3>1. i \in DOMAIN h[c] /\ h[c][i] = x
      BY <2>2, <2>3
    <3> QED
      BY <3>1, OnAList
  <2>4. CASE c = e
    <3>1. i \in DOMAIN k[d] /\ k[d][i] = x
      BY <1>3, <2>2, <2>4
    <3> QED
      BY <3>1, OnAList
  <2> QED
    BY <2>3, <2>4
<1> QED
  BY <1>4, <1>5, <1>6, <1>9, <1>10, <1>11, <1>13, <1>14, <1>15, Zenon DEF Separate, Drawn

(* The lists after STAILQ_INIT of f[e], and after f[e] has been put in     *)
(* front of g[d].                                                          *)
Emptied(f, e) == [f EXCEPT ![e] = << >>]

Prefixed(f, g, e, d) == [g EXCEPT ![d] = f[e] \o g[d]]

(* They are as separate as before.                                         *)
LEMMA JoinedLists ==
  ASSUME NEW f \in Lists, NEW g \in Lists, Separate(f, g), NEW e \in All, NEW d \in All
  PROVE  /\ Emptied(f, e) \in Lists /\ Prefixed(f, g, e, d) \in Lists
         /\ Separate(Emptied(f, e), Prefixed(f, g, e, d))
         /\ Listed(Emptied(f, e)) \subseteq Listed(f)
         /\ Listed(g) \subseteq Listed(Prefixed(f, g, e, d))
         /\ Listed(Emptied(f, e)) \cup Listed(Prefixed(f, g, e, d)) = Listed(f) \cup Listed(g)
         /\ Drawn(f, g, e, d, Prefixed(f, g, e, d))
         /\ \A c \in All : Emptied(f, e)[c] = IF c = e THEN << >> ELSE f[c]
         /\ \A c \in All :
              Prefixed(f, g, e, d)[c] = IF c = d THEN f[e] \o g[d] ELSE g[c]
<1>1. PICK s \in Seq(All), t \in Seq(All), r \in Seq(All) : s = f[e] /\ t = g[d] /\ r = s \o t
  BY ConcatProperties DEF Lists
<1>2. PICK a \in Nat, b \in Nat : a = Len(s) /\ b = Len(t) /\ DOMAIN s = 1 .. a /\ DOMAIN t = 1 .. b
  BY LenProperties
<1>3. Len(r) = Len(s) + Len(t) /\ DOMAIN r = 1 .. Len(r)
  BY <1>1, ConcatProperties, LenProperties
<1>4. DOMAIN r = 1 .. a + b
  BY <1>2, <1>3
<1>5. \A i \in 1 .. Len(s) + Len(t) : r[i] = IF i <= Len(s) THEN s[i] ELSE t[i - Len(s)]
  BY <1>1, ConcatProperties
<1>6. \A i \in 1 .. a + b : r[i] = IF i <= a THEN s[i] ELSE t[i - a]
  BY <1>2, <1>5
<1>7. \A i \in 1 .. a : r[i] = s[i]
  <2>1. \A i \in 1 .. a : i \in 1 .. a + b /\ i <= a
    OBVIOUS
  <2> QED
    BY <1>6, <2>1
<1>8. \A j \in 1 .. b : r[j + a] = t[j]
  <2>1. \A j \in 1 .. b : j + a \in 1 .. a + b /\ ~(j + a <= a) /\ (j + a) - a = j
    OBVIOUS
  <2> QED
    BY <1>6, <2>1
<1>9. << >> \in Seq(All) /\ DOMAIN << >> = {}
  BY EmptySeq
<1>15. PICK h \in Lists : h = Emptied(f, e) /\ \A c \in All : h[c] = IF c = e THEN << >> ELSE f[c]
  <2>1. Emptied(f, e) \in Lists
    BY <1>9 DEF Lists, Emptied
  <2>2. \A c \in All : Emptied(f, e)[c] = IF c = e THEN << >> ELSE f[c]
    BY DEF Lists, Emptied
  <2> QED
    BY <2>1, <2>2
<1>16. PICK k \in Lists : k = Prefixed(f, g, e, d) /\ \A c \in All : k[c] = IF c = d THEN r ELSE g[c]
  <2>1. Prefixed(f, g, e, d) = [g EXCEPT ![d] = r]
    BY <1>1 DEF Prefixed
  <2>2. Prefixed(f, g, e, d) \in Lists
    BY <2>1 DEF Lists
  <2>3. \A c \in All : Prefixed(f, g, e, d)[c] = IF c = d THEN r ELSE g[c]
    BY <2>1 DEF Lists
  <2> QED
    BY <2>2, <2>3
<1>10. /\ DOMAIN h[e] = {} /\ k[d] = r
       /\ \A c \in All \ {e} : h[c] = f[c]
       /\ \A c \in All \ {d} : k[c] = g[c]
  BY <1>9, <1>15, <1>16
<1>11. DOMAIN f[e] = 1 .. a /\ DOMAIN g[d] = 1 .. b /\ DOMAIN k[d] = 1 .. a + b
  BY <1>1, <1>2, <1>4, <1>10
<1>12. \A i \in 1 .. a : k[d][i] = f[e][i]
  BY <1>1, <1>7, <1>10
<1>13. \A j \in 1 .. b : k[d][j + a] = g[d][j]
  BY <1>1, <1>8, <1>10
<1>14. Joined(f, g, e, d, h, k)
  BY <1>2, <1>10, <1>11, <1>12, <1>13, Zenon DEF Joined
<1>17. /\ Separate(h, k) /\ Listed(h) \subseteq Listed(f) /\ Listed(g) \subseteq Listed(k)
       /\ Listed(h) \cup Listed(k) = Listed(f) \cup Listed(g) /\ Drawn(f, g, e, d, k)
  BY <1>14, JoinedApart
<1> QED
  BY <1>1, <1>15, <1>16, <1>17
-----------------------------------------------------------------------------
(* Every step that does not stop the program moves the lists as the code   *)
(* moves the queues.                                                       *)

Resuming == {"resume", "woken", "loop"}

(* A step that moves nothing keeps the lists.                              *)
LEMMA QueuesKept ==
  ASSUME NEW posts \in Lists, NEW todo \in Lists, Queues(posts, todo),
         Linked(posts, todo)', owed' = owed,
         \A c \in All : point'[c] = "none" => point[c] = "none",
         \A c \in All : point'[c] \notin Resuming => Len(todo[c]) = 0,
         \A d \in All : Direct(d, 1) => Direct(d, 1)'
  PROVE  Queues(posts, todo)'
<1>1. Accounted(posts, todo)'
  BY DEF Queues, Accounted, Direct
<1>2. Unused(posts, todo)'
  BY DEF Queues, Unused, Resuming
<1> QED
  BY <1>1, <1>2 DEF Queues

(* Stopping moves nothing.                                                 *)
LEMMA StopQueues ==
  ASSUME NEW posts \in Lists, NEW todo \in Lists, Queues(posts, todo), NEW kind, Stop(kind)
  PROVE  Queues(posts, todo)'
<1>1. UNCHANGED <<current, caller, point, heap, next, pendings, callee, batch, owed>>
  BY DEF Stop, locals
<1>2. Linked(posts, todo)'
  BY <1>1 DEF Queues, Linked
<1> QED
  BY <1>1, <1>2, QueuesKept DEF Direct, Queues, Unused, Resuming

(* Nor does doing nothing.                                                 *)
LEMMA StutterQueues ==
  ASSUME NEW posts \in Lists, NEW todo \in Lists, Queues(posts, todo), UNCHANGED vars
  PROVE  Queues(posts, todo)'
<1>1. UNCHANGED <<current, caller, point, heap, next, pendings, callee, batch, owed>>
  BY DEF vars, locals
<1>2. Linked(posts, todo)'
  BY <1>1 DEF Queues, Linked
<1> QED
  BY <1>1, <1>2, QueuesKept DEF Direct, Queues, Unused, Resuming

(* A new coroutine has an empty pending list.                              *)
LEMMA CreateQueues ==
  ASSUME TypeOK, NEW posts \in Lists, NEW todo \in Lists, Queues(posts, todo),
         NEW c \in Coroutines, Create(c)
  PROVE  Queues(posts, todo)'
<1>1. /\ point[c] = "none" /\ point[current] = "body" /\ c \in All
      /\ point' = [point EXCEPT ![c] = "entry"]
      /\ pendings' = [pendings EXCEPT ![c] = Q!Empty]
      /\ UNCHANGED <<current, next, callee, batch, owed>>
  BY DEF Create, InUserCode, locals, All
<1>2. Len(posts[c]) = 0 /\ Len(todo[c]) = 0
  BY <1>1 DEF Queues, Unused
<1>3. Linked(posts, todo)'
  <2>1. \A i \in 1 .. 0 - 1 : FALSE
    OBVIOUS
  <2>2. Spells(next, Q!Empty, posts[c])
    BY <1>2, <2>1 DEF Spells, Q!Empty
  <2> QED
    BY <1>1, <2>2 DEF Queues, Linked, TypeOK
<1> QED
  BY <1>1, <1>2, <1>3, QueuesKept DEF Direct, Queues, Unused, Resuming, TypeOK

(* A _resume that returns leaves an empty queue.                           *)
LEMMA LeaveQueues ==
  ASSUME TypeOK, NEW posts \in Lists, NEW todo \in Lists, Queues(posts, todo), Leave
  PROVE  Queues(posts, todo)'
<1>1. /\ point[current] = "loop" /\ batch[current].first = NULL /\ current \in All
      /\ point' = [point EXCEPT ![current] = "body"]
      /\ callee' = [callee EXCEPT ![current] = NULL]
      /\ batch' = [batch EXCEPT ![current] = Q!Empty]
      /\ UNCHANGED <<current, next, pendings, owed>>
  BY DEF Leave, TypeOK
<1>2. Len(todo[current]) = 0
  <2>1. PICK s \in Seq(All) : s = todo[current]
    BY <1>1 DEF Lists
  <2>2. Spells(next, batch[current], s)
    BY <1>1, <2>1 DEF Queues, Linked
  <2>3. PICK a \in Nat : a = Len(s) /\ DOMAIN s = 1 .. a
    BY LenProperties
  <2>4. a > 0 => 1 \in DOMAIN s
    BY <2>3
  <2>5. a > 0 => s[1] \in All
    BY <2>3, <2>4, ElementOfSeq
  <2>6. ~(a > 0)
    BY <1>1, <2>2, <2>3, <2>5, ConstantsAssumption DEF Spells
  <2> QED
    BY <2>1, <2>3, <2>6
<1>3. Linked(posts, todo)'
  <2>1. \A i \in 1 .. 0 - 1 : FALSE
    OBVIOUS
  <2>2. Spells(next, Q!Empty, todo[current])
    BY <1>2, <2>1 DEF Spells, Q!Empty
  <2> QED
    BY <1>1, <2>2 DEF Queues, Linked, TypeOK
<1>4. \A c \in All : point'[c] \notin Resuming => Len(todo[c]) = 0
  BY <1>1, <1>2 DEF Queues, Unused, Resuming, TypeOK
<1>5. \A c \in All : point'[c] = "none" => point[c] = "none"
  BY <1>1 DEF TypeOK
<1>6. \A i \in DOMAIN todo[current] : FALSE
  BY <1>1, <1>2, LenProperties DEF Lists
<1>7. Accounted(posts, todo)'
  BY <1>1, <1>6 DEF Queues, Accounted, Direct
<1> QED
  BY <1>3, <1>4, <1>5, <1>7 DEF Queues, Unused, Resuming

(* A yield or an end of a callback moves no queue.                         *)
LEMMA ReturnQueues ==
  ASSUME TypeOK, NEW posts \in Lists, NEW todo \in Lists, Queues(posts, todo),
         point[current] = "body", point[caller[current]] = "resume", caller[current] \in All,
         NEW status, NEW saved \in {"yield", "done"},
         Exec(current, caller[current], status, saved),
         UNCHANGED <<next, pendings, callee, batch, owed>>
  PROVE  Queues(posts, todo)'
<1>1. Linked(posts, todo)'
  BY DEF Queues, Linked
<1>2. point' = [c \in All |-> IF c = caller[current] THEN "woken"
                              ELSE IF c = current THEN saved ELSE point[c]]
  <2>1. [point EXCEPT ![current] = saved][caller[current]] = "resume"
    BY DEF TypeOK
  <2>2. Landing["resume"] = "woken"
    BY DEF Landing
  <2> QED
    BY <2>1, <2>2 DEF Exec, TypeOK
<1>3. \A c \in All : point'[c] \notin Resuming => Len(todo[c]) = 0
  BY <1>2 DEF Queues, Unused, Resuming, TypeOK
<1>4. \A c \in All : point'[c] = "none" => point[c] = "none"
  BY <1>2 DEF TypeOK
<1>5. \A d \in All : ~Direct(d, 1)
  BY DEF Direct
<1> QED
  BY <1>1, <1>3, <1>4, <1>5, QueuesKept

(* An element of a list is not c when c is listed nowhere.                 *)
LEMMA NotListed ==
  ASSUME NEW f \in Lists, NEW c \in All, c \notin Listed(f)
  PROVE  \A d \in All : \A i \in DOMAIN f[d] : f[d][i] # c
BY OnAList

(* Only the argument of a _resume that has just been called may be handed  *)
(* over when it is on no list.                                             *)
LEMMA UnlistedInBody ==
  ASSUME NEW posts \in Lists, NEW todo \in Lists, Queues(posts, todo),
         point[current] = "body", NEW c \in All, c \notin owed
  PROVE  c \notin Listed(posts) /\ c \notin Listed(todo)
BY DEF Queues, Accounted, Direct, Listed

(* The call of _resume makes a local queue of its argument.                *)
LEMMA ResumeQueues ==
  ASSUME TypeOK, NEW posts \in Lists, NEW todo \in Lists, Queues(posts, todo),
         "relink" \notin Uses, NEW c \in All, Resume(c), ~Stop("use_after_free"),
         NEW more, more = [todo EXCEPT ![current] = Append(todo[current], c)]
  PROVE  more \in Lists /\ Queues(posts, more)' /\ Added(todo, current, c, more)
<1>1. /\ point[current] = "body" /\ c \notin owed /\ current \in All
      /\ next'     = Q!InsertLinks(next, Q!Empty, c)
      /\ callee'   = [callee EXCEPT ![current] = NULL]
      /\ batch'    = [batch EXCEPT ![current] = Q!InsertHead(Q!Empty, c)]
      /\ point'    = [point EXCEPT ![current] = "loop"]
      /\ UNCHANGED <<current, pendings, owed>>
  BY DEF Resume, InUserCode, MayHandOver, TypeOK
<1>2. c \notin Listed(posts) /\ c \notin Listed(todo)
  BY <1>1, UnlistedInBody
<1>3. Len(todo[current]) = 0
  BY <1>1 DEF Queues, Unused
<1>4. PICK s \in Seq(All) : s = todo[current] /\ Len(s) = 0 /\ DOMAIN s = {}
  <2>1. todo[current] \in Seq(All) /\ DOMAIN todo[current] = 1 .. 0
    BY <1>1, <1>3, LenProperties DEF Lists
  <2> QED
    BY <1>3, <2>1
<1>5. Spells(next, Q!Empty, s)
  <2>1. \A i \in 1 .. 0 - 1 : FALSE
    OBVIOUS
  <2> QED
    BY <1>4, <2>1 DEF Spells, Q!Empty
<1>6. /\ Spells(next', batch'[current], Append(s, c))
      /\ \A e \in All : e # c => next'[e] = next[e]
  <2>1. next \in [All -> All \cup {NULL}] /\ Q!Empty \in Heads
    BY EmptyType DEF TypeOK
  <2>2. /\ Spells(Q!InsertLinks(next, Q!Empty, c), Q!InsertHead(Q!Empty, c), Append(s, c))
        /\ \A e \in All : e # c => Q!InsertLinks(next, Q!Empty, c)[e] = next[e]
    BY <1>4, <1>5, <2>1, InsertSpells
  <2> QED
    BY <1>1, <2>2 DEF TypeOK
<1>7. Separate(posts, todo)
  BY DEF Queues
<1>8. PICK list \in Lists : /\ list = more /\ Once(list) /\ Listed(list) = Listed(todo) \cup {c}
                            /\ list[current] = Append(s, c) /\ Added(todo, current, c, list)
                            /\ \A d \in All \ {current} : list[d] = todo[d]
  <2>1. PICK self \in All : self = current
    BY <1>1
  <2>2. more = [todo EXCEPT ![self] = Append(todo[self], c)] /\ Once(todo)
    BY <1>7, <2>1 DEF Separate
  <2>3. /\ more \in Lists /\ Once(more) /\ Listed(more) = Listed(todo) \cup {c}
        /\ Added(todo, self, c, more)
    BY <1>2, <2>2, AppendedList
  <2> QED
    BY <1>1, <1>4, <2>1, <2>3 DEF Lists
<1>9. Linked(posts, list)'
  <2> SUFFICES ASSUME NEW d \in All
               PROVE  Spells(next', pendings'[d], posts[d]) /\ Spells(next', batch'[d], list[d])
    BY DEF Linked
  <2>1. posts[d] \in Seq(All) /\ todo[d] \in Seq(All)
    BY DEF Lists
  <2>2. /\ \A i \in DOMAIN posts[d] : posts[d][i] \in All /\ posts[d][i] # c
        /\ \A i \in DOMAIN todo[d] : todo[d][i] \in All /\ todo[d][i] # c
    BY <1>2, OnAList
  <2>3. Spells(next, pendings[d], posts[d]) /\ Spells(next, batch[d], todo[d])
    BY DEF Queues, Linked
  <2>4. Spells(next', pendings[d], posts[d]) /\ Spells(next', batch[d], todo[d])
    BY <1>6, <2>1, <2>2, <2>3, SpellsKept
  <2>5. CASE d = current
    BY <1>1, <1>6, <1>8, <2>4, <2>5
  <2>6. CASE d # current
    BY <1>1, <1>8, <2>4, <2>6 DEF TypeOK
  <2> QED
    BY <2>5, <2>6
<1>10. Separate(posts, list)
  BY <1>2, <1>7, <1>8 DEF Separate
<1>11. DOMAIN list[current] = {1} /\ list[current][1] = c
  <2>1. Len(list[current]) = 1 /\ list[current][1] = c
    BY <1>4, <1>8, AppendProperties
  <2>2. DOMAIN list[current] = 1 .. 1
    BY <1>1, <2>1, LenProperties DEF Lists
  <2> QED
    BY <2>1, <2>2
<1>12. Accounted(posts, list)'
  <2>1. \A d \in All : \A i \in DOMAIN list[d] : list[d][i] \in owed \/ (d = current /\ i = 1)
    BY <1>1, <1>8, <1>11 DEF Queues, Accounted, Direct
  <2>2. Direct(current, 1)'
    BY <1>1 DEF Direct, TypeOK
  <2>3. owed \subseteq Listed(posts) \cup Listed(list) /\ Listed(posts) \subseteq owed
    BY <1>8 DEF Queues, Accounted
  <2> QED
    BY <1>1, <2>1, <2>2, <2>3 DEF Accounted
<1>13. Unused(posts, list)'
  BY <1>1, <1>8 DEF Queues, Unused, TypeOK
<1> QED
  BY <1>8, <1>9, <1>10, <1>12, <1>13, Zenon DEF Queues

(* xcp_coroutine_process in a coroutine appends to its pending list.       *)
LEMMA EnqueueQueues ==
  ASSUME TypeOK, NEW posts \in Lists, NEW todo \in Lists, Queues(posts, todo),
         "relink" \notin Uses, NEW c \in All, Enqueue(c), ~\E kind \in Faults : Stop(kind),
         NEW more, more = [posts EXCEPT ![current] = Append(posts[current], c)]
  PROVE  more \in Lists /\ Queues(more, todo)' /\ Added(posts, current, c, more)
<1>1. /\ point[current] = "body" /\ c \notin owed /\ current \in All
      /\ next'     = Q!InsertLinks(next, pendings[current], c)
      /\ pendings' = [pendings EXCEPT ![current] = Q!InsertHead(pendings[current], c)]
      /\ owed'     = owed \cup {c}
      /\ UNCHANGED <<current, point, callee, batch>>
  BY DEF Enqueue, InUserCode, MayHandOver, TypeOK, Faults, locals
<1>2. c \notin Listed(posts) /\ c \notin Listed(todo)
  BY <1>1, UnlistedInBody
<1>3. Separate(posts, todo)
  BY DEF Queues
<1>4. PICK s \in Seq(All) : s = posts[current]
  BY <1>1 DEF Lists
<1>5. /\ Spells(next', pendings'[current], Append(s, c))
      /\ \A e \in All : e # c /\ (\A i \in DOMAIN s : s[i] # e) => next'[e] = next[e]
  <2>1. next \in [All -> All \cup {NULL}] /\ pendings[current] \in Heads
    BY <1>1 DEF TypeOK
  <2>2. Spells(next, pendings[current], s)
    BY <1>1, <1>4 DEF Queues, Linked
  <2>3. (\A i \in DOMAIN s : s[i] # c) /\ \A i, j \in DOMAIN s : s[i] = s[j] => i = j
    BY <1>1, <1>2, <1>3, <1>4, NotListed DEF Separate, Once
  <2>4. /\ Spells(Q!InsertLinks(next, pendings[current], c), Q!InsertHead(pendings[current], c),
                  Append(s, c))
        /\ \A e \in All : e # c /\ (\A i \in DOMAIN s : s[i] # e)
                            => Q!InsertLinks(next, pendings[current], c)[e] = next[e]
    BY <1>4, <2>1, <2>2, <2>3, InsertSpells
  <2> QED
    BY <1>1, <2>4 DEF TypeOK
<1>6. PICK list \in Lists : /\ list = more /\ Once(list) /\ Listed(list) = Listed(posts) \cup {c}
                            /\ list[current] = Append(s, c) /\ Added(posts, current, c, list)
                            /\ \A d \in All \ {current} : list[d] = posts[d]
  <2>2. Once(posts)
    BY <1>3 DEF Separate
  <2>3. PICK self \in All : self = current
    BY <1>1
  <2>4. more = [posts EXCEPT ![self] = Append(posts[self], c)]
    BY <2>3
  <2>1. /\ more \in Lists /\ Once(more) /\ Listed(more) = Listed(posts) \cup {c}
        /\ Added(posts, self, c, more)
    BY <1>2, <2>2, <2>4, AppendedList
  <2> QED
    BY <1>1, <1>4, <2>1, <2>3 DEF Lists
<1>7. Linked(list, todo)'
  <2> SUFFICES ASSUME NEW d \in All
               PROVE  Spells(next', pendings'[d], list[d]) /\ Spells(next', batch'[d], todo[d])
    BY DEF Linked
  <2>1. posts[d] \in Seq(All) /\ todo[d] \in Seq(All)
    BY DEF Lists
  <2>2. /\ \A i \in DOMAIN posts[d] : posts[d][i] \in All /\ posts[d][i] # c
        /\ \A i \in DOMAIN todo[d] : todo[d][i] \in All /\ todo[d][i] # c
    BY <1>2, OnAList
  <2>3. Spells(next, pendings[d], posts[d]) /\ Spells(next, batch[d], todo[d])
    BY DEF Queues, Linked
  <2>4. Spells(next', batch[d], todo[d])
    <3>1. \A i \in DOMAIN todo[d], j \in DOMAIN s : s[j] # todo[d][i]
      BY <1>1, <1>3, <1>4, ApartLists
    <3> QED
      BY <1>5, <2>1, <2>2, <2>3, <3>1, SpellsKept
  <2>5. CASE d = current
    BY <1>1, <1>5, <1>6, <2>4, <2>5
  <2>6. CASE d # current
    <3>1. \A i \in DOMAIN posts[d], j \in DOMAIN s : s[j] # posts[d][i]
      BY <1>1, <1>3, <1>4, <2>6 DEF Separate, Once
    <3>2. Spells(next', pendings[d], posts[d])
      BY <1>5, <2>1, <2>2, <2>3, <3>1, SpellsKept
    <3> QED
      BY <1>1, <1>6, <2>4, <2>6, <3>2 DEF TypeOK
  <2> QED
    BY <2>5, <2>6
<1>8. Separate(list, todo)
  BY <1>2, <1>3, <1>6 DEF Separate
<1>9. Accounted(list, todo)'
  BY <1>1, <1>6 DEF Queues, Accounted, Direct
<1>10. Unused(list, todo)'
  BY <1>1, <1>6 DEF Queues, Unused, TypeOK
<1> QED
  BY <1>6, <1>7, <1>8, <1>9, <1>10, Zenon DEF Queues

(* A pass of _resume takes the first coroutine off its local queue.        *)
LEMMA FetchQueues ==
  ASSUME TypeOK, Standing, NEW posts \in Lists, NEW todo \in Lists, Queues(posts, todo),
         Fetch, ~\E kind \in Faults : Stop(kind),
         NEW less, less = [todo EXCEPT ![current] = Tail(todo[current])]
  PROVE  /\ less \in Lists /\ Queues(posts, less)' /\ Remains(todo, current, less)
         /\ Len(todo[current]) > 0 /\ batch[current].first = todo[current][1]
<1>1. PICK first \in All : first = batch[current].first
  BY DEF Fetch, TypeOK, Heads
<1>2. /\ point[current] = "loop" /\ first # NULL /\ current \in All /\ caller[first] = NULL
      /\ batch'  = [batch EXCEPT ![current] = Q!RemoveHead(next, batch[current])]
      /\ callee' = [callee EXCEPT ![current] = first]
      /\ owed'   = owed \ {first}
      /\ Exec(current, first, "Running", "resume")
      /\ UNCHANGED <<next, pendings>>
  BY <1>1, ConstantsAssumption DEF Fetch, TypeOK, Faults
<1>3. PICK s \in Seq(All) : s = todo[current]
  BY <1>2 DEF Lists
<1>4. Len(s) > 0 /\ first = s[1]
  <2>1. Spells(next, batch[current], s) /\ Len(s) \in Nat
    BY <1>2, <1>3, LenProperties DEF Queues, Linked
  <2>2. Len(s) = 0 \/ Len(s) > 0
    BY <2>1
  <2> QED
    BY <1>1, <1>2, <2>1, <2>2 DEF Spells
<1>5. Spells(next, batch'[current], Tail(s))
  <2>1. Spells(next, batch[current], s)
    BY <1>2, <1>3 DEF Queues, Linked
  <2>2. Spells(next, Q!RemoveHead(next, batch[current]), Tail(s))
    BY <1>4, <2>1, RemoveSpells
  <2> QED
    BY <1>2, <2>2 DEF TypeOK
<1>6. Separate(posts, todo)
  BY DEF Queues
<1>7. PICK list \in Lists :
        /\ list = less /\ Once(list) /\ Listed(list) = Listed(todo) \ {first}
        /\ first \in Listed(todo) /\ list[current] = Tail(s)
        /\ \A d \in All \ {current} : list[d] = todo[d]
        /\ Remains(todo, current, list)
  <2>3. Once(todo) /\ Len(todo[current]) > 0
    BY <1>3, <1>4, <1>6 DEF Separate
  <2>4. PICK self \in All : self = current
    BY <1>2
  <2>5. less = [todo EXCEPT ![self] = Tail(todo[self])] /\ Len(todo[self]) > 0
    BY <2>3, <2>4
  <2>6. /\ less \in Lists /\ Once(less) /\ Listed(less) = Listed(todo) \ {todo[self][1]}
        /\ todo[self][1] \in Listed(todo)
        /\ Remains(todo, self, less)
    BY <2>3, <2>5, ShortenedList
  <2>1. /\ less \in Lists /\ Once(less) /\ Listed(less) = Listed(todo) \ {first}
        /\ first \in Listed(todo)
    BY <1>3, <1>4, <2>4, <2>6
  <2>2. Remains(todo, current, less)
    BY <2>4, <2>6
  <2> QED
    BY <1>2, <1>3, <2>1, <2>2 DEF Lists
<1>8. Linked(posts, list)'
  BY <1>2, <1>5, <1>7 DEF Queues, Linked, TypeOK
<1>9. Separate(posts, list)
  BY <1>6, <1>7 DEF Separate
<1>10. Accounted(posts, list)'
  <2>1. first \notin Listed(posts)
    BY <1>6, <1>7 DEF Separate
  <2>2. Listed(posts) \subseteq owed' /\ owed' \subseteq Listed(posts) \cup Listed(list)
    BY <1>2, <1>7, <2>1 DEF Queues, Accounted
  <2>3. ASSUME NEW e \in All, NEW i \in DOMAIN list[e]
        PROVE  list[e][i] \in owed'
    <3>1. PICK j \in DOMAIN todo[e] : list[e][i] = todo[e][j] /\ (e = current => j # 1)
      BY <1>7 DEF Remains
    <3>2. todo[e][j] \in owed
      BY <3>1 DEF Queues, Accounted, Direct
    <3>3. list[e][i] \in Listed(list)
      BY OnAList
    <3>4. list[e][i] # first
      BY <1>7, <3>3
    <3>5. list[e][i] \in owed
      BY <3>1, <3>2
    <3> QED
      BY <1>2, <3>4, <3>5
  <2> QED
    BY <2>2, <2>3 DEF Accounted
<1>11. \A d \in All : /\ point'[d] = "none" => point[d] = "none"
                      /\ point'[d] \notin Resuming => point[d] \notin Resuming
  <2>1. \A p \in Points \ {"none", "resume"} : Landing[p] # "none"
    BY DEF Landing, Points
  <2>2. Landing["resume"] = "woken" /\ Landing["none"] = "stray"
    BY DEF Landing
  <2>3. Resuming = {"resume", "woken", "loop"}
    BY DEF Resuming
  <2>4. first # Dummy => point[first] \notin Resuming
    BY <1>2, <2>3 DEF Standing, All, TypeOK
  <2> DEFINE left == [point EXCEPT ![current] = "resume"]
  <2>5. point' = [left EXCEPT ![first] = Landing[left[first]]] /\ left \in [All -> Points]
    BY <1>2 DEF Exec, TypeOK, Points
  <2>6. first = Dummy => left[first] = "resume"
    BY <1>2, <2>5 DEF Standing, TypeOK
  <2> QED
    BY <1>2, <2>1, <2>2, <2>3, <2>4, <2>5, <2>6 DEF TypeOK
<1>12. Unused(posts, list)'
  <2>1. point'[current] \in Resuming
    BY <1>2, <1>11 DEF Resuming
  <2> QED
    BY <1>2, <1>7, <1>11 DEF Queues, Unused, Resuming
<1> QED
  BY <1>1, <1>3, <1>4, <1>7, <1>8, <1>9, <1>10, <1>12, Zenon DEF Queues

(* The end of a pass of _resume puts the callee's pending list in front of *)
(* the local queue.                                                        *)
LEMMA SettleQueues ==
  ASSUME TypeOK, Standing, NEW posts \in Lists, NEW todo \in Lists, Queues(posts, todo),
         Settle, ~\E kind \in Faults : Stop(kind),
         NEW less, less = Emptied(posts, callee[current]),
         NEW more, more = Prefixed(posts, todo, callee[current], current)
  PROVE  /\ less \in Lists /\ more \in Lists /\ Queues(less, more)'
         /\ Drawn(posts, todo, callee[current], current, more)
         /\ \A d \in All : less[d] = IF d = callee[current] THEN << >> ELSE posts[d]
<1>1. PICK self \in All, from \in All : self = current /\ from = callee[current]
  BY ConstantsAssumption DEF Settle, TypeOK, Standing, Faults
<1>2. /\ point[self] = "woken"
      /\ next'     = Spliced(pendings[from], batch[self]).links
      /\ batch'    = [batch EXCEPT ![self] = Spliced(pendings[from], batch[self]).head]
      /\ pendings' = [pendings EXCEPT ![from] = Q!Empty]
      /\ point'    = [point EXCEPT ![self] = "loop"]
      /\ UNCHANGED <<current, callee, owed>>
  BY <1>1 DEF Settle, Faults
<1>3. PICK s \in Seq(All), t \in Seq(All) : s = posts[from] /\ t = todo[self]
  BY <1>1 DEF Lists
<1>4. Separate(posts, todo)
  BY DEF Queues
<1>5. \A c, d \in All : \A i \in DOMAIN posts[c], j \in DOMAIN todo[d] : posts[c][i] # todo[d][j]
  BY <1>4, ApartLists
<1>6. /\ Spells(Spliced(pendings[from], batch[self]).links,
                Spliced(pendings[from], batch[self]).head, s \o t)
      /\ \A e \in All : (\A i \in DOMAIN s : s[i] # e)
           => Spliced(pendings[from], batch[self]).links[e] = next[e]
  <2>1. PICK f \in Heads, g \in Heads : f = pendings[from] /\ g = batch[self]
    BY <1>1 DEF TypeOK
  <2>2. Spells(next, f, s) /\ Spells(next, g, t)
    BY <1>1, <1>3, <2>1 DEF Queues, Linked
  <2>3. \A i, j \in DOMAIN s : s[i] = s[j] => i = j
    BY <1>1, <1>3, <1>4 DEF Separate, Once
  <2>4. \A i \in DOMAIN s, j \in DOMAIN t : s[i] # t[j]
    BY <1>1, <1>3, <1>5
  <2>5. next \in [All -> All \cup {NULL}]
    BY DEF TypeOK
  <2>6. /\ Spells(Spliced(f, g).links, Spliced(f, g).head, s \o t)
        /\ \A e \in All : (\A i \in DOMAIN s : s[i] # e) => Spliced(f, g).links[e] = next[e]
    BY <2>2, <2>3, <2>4, <2>5, SplicedSpells
  <2> QED
    BY <2>1, <2>6
<1>7. PICK h \in Lists, k \in Lists :
        /\ h = Emptied(posts, from) /\ k = Prefixed(posts, todo, from, self)
        /\ \A c \in All : h[c] = IF c = from THEN << >> ELSE posts[c]
        /\ \A c \in All : k[c] = IF c = self THEN posts[from] \o todo[self] ELSE todo[c]
  BY <1>4, JoinedLists
<1>8. h = less /\ k = more
  BY <1>1, <1>7
<1>9. /\ Separate(h, k)
      /\ Listed(h) \subseteq Listed(posts) /\ Listed(todo) \subseteq Listed(k)
      /\ Listed(h) \cup Listed(k) = Listed(posts) \cup Listed(todo)
      /\ Drawn(posts, todo, from, self, k)
  BY <1>4, <1>7, JoinedLists
<1>10. Linked(h, k)'
  <2> SUFFICES ASSUME NEW d \in All
               PROVE  Spells(next', pendings'[d], h[d]) /\ Spells(next', batch'[d], k[d])
    BY DEF Linked
  <2>1. posts[d] \in Seq(All) /\ todo[d] \in Seq(All)
    BY DEF Lists
  <2>2. /\ \A i \in DOMAIN posts[d] : posts[d][i] \in All
        /\ \A i \in DOMAIN todo[d] : todo[d][i] \in All
    BY OnAList
  <2>3. Spells(next, pendings[d], posts[d]) /\ Spells(next, batch[d], todo[d])
    BY DEF Queues, Linked
  <2>4. \A e \in All : (\A i \in DOMAIN s : s[i] # e) => next'[e] = next[e]
    BY <1>2, <1>6
  <2>5. Spells(next', pendings'[d], h[d])
    <3>1. CASE d = from
      <4>1. Len(h[d]) = 0 /\ h[d] = << >>
        BY <1>7, <3>1, EmptySeq
      <4>2. \A i \in 1 .. 0 - 1 : FALSE
        OBVIOUS
      <4>3. pendings'[d] = Q!Empty
        BY <1>1, <1>2, <3>1 DEF TypeOK
      <4> QED
        BY <4>1, <4>2, <4>3 DEF Spells, Q!Empty
    <3>2. CASE d # from
      <4>1. \A i \in DOMAIN posts[d], j \in DOMAIN s : s[j] # posts[d][i]
        BY <1>1, <1>3, <1>4, <3>2 DEF Separate, Once
      <4>2. Spells(next', pendings[d], posts[d])
        BY <2>1, <2>2, <2>3, <2>4, <4>1, SpellsKept
      <4> QED
        BY <1>2, <1>7, <3>2, <4>2 DEF TypeOK
    <3> QED
      BY <3>1, <3>2
  <2>6. Spells(next', batch'[d], k[d])
    <3>1. CASE d = self
      BY <1>1, <1>2, <1>3, <1>6, <1>7, <3>1 DEF TypeOK
    <3>2. CASE d # self
      <4>1. \A i \in DOMAIN todo[d], j \in DOMAIN s : s[j] # todo[d][i]
        BY <1>1, <1>3, <1>5
      <4>2. Spells(next', batch[d], todo[d])
        BY <2>1, <2>2, <2>3, <2>4, <4>1, SpellsKept
      <4> QED
        BY <1>2, <1>7, <3>2, <4>2 DEF TypeOK
    <3> QED
      BY <3>1, <3>2
  <2> QED
    BY <2>5, <2>6
<1>11. \A d \in All : ~Direct(d, 1)
  BY <1>1, <1>2 DEF Direct
<1>12. Listed(posts) \subseteq owed /\ Listed(todo) \subseteq owed
       /\ owed \subseteq Listed(posts) \cup Listed(todo)
  BY <1>11 DEF Queues, Accounted, Direct, Listed
<1>13. Accounted(h, k)'
  <2>1. Listed(h) \subseteq owed /\ owed \subseteq Listed(h) \cup Listed(k)
    BY <1>9, <1>12
  <2>2. Listed(k) \subseteq owed
    BY <1>9, <1>12
  <2>3. \A d \in All : \A i \in DOMAIN k[d] : k[d][i] \in owed
    BY <2>2, OnAList
  <2> QED
    BY <1>2, <2>1, <2>3 DEF Accounted
<1>14. Unused(h, k)'
  <2>1. Len(<< >>) = 0
    BY EmptySeq
  <2>2. \A c \in All : point[c] = "none" => Len(h[c]) = 0
    BY <1>7, <2>1 DEF Queues, Unused
  <2>3. \A c \in All \ {self} : point[c] \notin Resuming => Len(k[c]) = 0
    BY <1>7 DEF Queues, Unused, Resuming
  <2> QED
    BY <1>1, <1>2, <2>2, <2>3 DEF Unused, Resuming, TypeOK
<1>15. Queues(h, k)'
  BY <1>9, <1>10, <1>13, <1>14 DEF Queues
<1> QED
  BY <1>1, <1>7, <1>8, <1>9, <1>15, Zenon

-----------------------------------------------------------------------------
(* There are always such lists.                                            *)
Listable == \E posts, todo \in Lists : Queues(posts, todo)

(* In the initial state they are all empty.                                *)
LEMMA InitListable == Init => Listable
<1> SUFFICES ASSUME Init PROVE Listable
  OBVIOUS
<1>1. PICK f \in Lists : f = [c \in All |-> << >>]
  BY EmptySeq DEF Lists
<1>2. \A c \in All : f[c] = << >> /\ Len(f[c]) = 0 /\ DOMAIN f[c] = {}
  BY <1>1, EmptySeq
<1>3. \A i \in 1 .. 0 - 1 : FALSE
  OBVIOUS
<1>4. Linked(f, f)
  BY <1>2, <1>3 DEF Linked, Spells, Init, Q!Empty
<1>5. Listed(f) = {} /\ Once(f)
  BY <1>2 DEF Listed, Once
<1>6. Separate(f, f)
  BY <1>5 DEF Separate
<1>7. Accounted(f, f)
  BY <1>2, <1>5 DEF Accounted, Init
<1>8. Unused(f, f)
  BY <1>2 DEF Unused
<1>9. Queues(f, f)
  BY <1>4, <1>6, <1>7, <1>8 DEF Queues
<1> QED
  BY <1>9 DEF Listable

(* A step that does not stop is taken by a callback or a _resume that the  *)
(* call chain leads to.                                                    *)
LEMMA BodyReturns ==
  ASSUME IndInv, InUserCode, caller[current] # NULL
  PROVE  /\ point[current] = "body" /\ caller[current] \in All
         /\ point[caller[current]] = "resume" /\ callee[caller[current]] = current
         /\ current \in Coroutines /\ current \in Active
<1>1. ~Misdirected /\ Standing /\ CallChain /\ point[current] = "body"
  BY NotMisdirected DEF InUserCode
<1>2. current \in Active \ {Dummy} /\ current \in Coroutines
  BY <1>1 DEF Standing, CallChain, IndInv, TypeOK, All
<1> QED
  BY <1>1, <1>2 DEF CallChain, IndInv, TypeOK

(* A coroutine in its callback, other than the thread itself, has a caller. *)
LEMMA FinishHasCaller ==
  ASSUME IndInv, InUserCode, current # Dummy
  PROVE  caller[current] # NULL
BY NotMisdirected DEF InUserCode, Standing, IndInv, TypeOK, All

(* Every step moves the lists.                                             *)
LEMMA NextListable ==
  ASSUME IndInv, Listable, "relink" \notin Uses, [Next]_vars
  PROVE  Listable'
<1>1. PICK posts \in Lists, todo \in Lists : Queues(posts, todo)
  BY DEF Listable
<1>2. TypeOK
  BY DEF IndInv
<1>3. ASSUME \E kind \in Faults : Stop(kind) PROVE Listable'
  BY <1>1, <1>3, StopQueues DEF Listable
<1>4. ASSUME NEW c \in Coroutines, Create(c) PROVE Listable'
  BY <1>1, <1>2, <1>4, CreateQueues DEF Listable
<1>5. ASSUME NEW c \in All, Resume(c) PROVE Listable'
  <2>1. CASE Stop("use_after_free")
    BY <1>3, <2>1 DEF Faults
  <2>2. CASE ~Stop("use_after_free")
    <3>1. PICK more : more = [todo EXCEPT ![current] = Append(todo[current], c)]
      OBVIOUS
    <3>2. more \in Lists /\ Queues(posts, more)'
      BY <1>1, <1>2, <1>5, <2>2, <3>1, ResumeQueues
    <3> QED
      BY <1>1, <3>2 DEF Listable
  <2> QED
    BY <2>1, <2>2
<1>6. ASSUME NEW c \in All, Enqueue(c) PROVE Listable'
  <2>1. CASE ~\E kind \in Faults : Stop(kind)
    <3>1. PICK more : more = [posts EXCEPT ![current] = Append(posts[current], c)]
      OBVIOUS
    <3>2. more \in Lists /\ Queues(more, todo)'
      BY <1>1, <1>2, <1>6, <2>1, <3>1, EnqueueQueues
    <3> QED
      BY <1>1, <3>2 DEF Listable
  <2> QED
    BY <1>3, <2>1
<1>7. ASSUME NEW c \in All, Process(c) PROVE Listable'
  BY <1>5, <1>6, <1>7 DEF Process
<1>8. CASE Fetch
  <2>1. CASE ~\E kind \in Faults : Stop(kind)
    <3>1. PICK less : less = [todo EXCEPT ![current] = Tail(todo[current])]
      OBVIOUS
    <3>2. Standing
      BY <1>8, NotMisdirected DEF Fetch
    <3>3. less \in Lists /\ Queues(posts, less)'
      BY <1>1, <1>2, <1>8, <2>1, <3>1, <3>2, FetchQueues
    <3> QED
      BY <1>1, <3>3 DEF Listable
  <2> QED
    BY <1>3, <2>1
<1>9. CASE Settle
  <2>1. CASE ~\E kind \in Faults : Stop(kind)
    <3>1. PICK less, more : /\ less = Emptied(posts, callee[current])
                            /\ more = Prefixed(posts, todo, callee[current], current)
      OBVIOUS
    <3>2. Standing
      BY <1>9, <2>1 DEF Settle, Faults, IndInv, Misdirected
    <3>3. less \in Lists /\ more \in Lists /\ Queues(less, more)'
      BY <1>1, <1>2, <1>9, <2>1, <3>1, <3>2, SettleQueues
    <3> QED
      BY <3>3 DEF Listable
  <2> QED
    BY <1>3, <2>1
<1>10. CASE Leave
  BY <1>1, <1>2, <1>10, LeaveQueues DEF Listable
<1>11. CASE Yield
  <2>1. CASE Stop("abort")
    BY <1>3, <2>1 DEF Faults
  <2>2. CASE ~Stop("abort")
    <3>1. InUserCode /\ caller[current] # NULL
      BY <1>11, <2>2 DEF Yield
    <3>2. Queues(posts, todo)'
      BY <1>1, <1>2, <1>11, <2>2, <3>1, BodyReturns, ReturnQueues DEF Yield, locals
    <3> QED
      BY <1>1, <3>2 DEF Listable
  <2> QED
    BY <2>1, <2>2
<1>12. CASE Finish
  <2>1. InUserCode /\ caller[current] # NULL
    BY <1>12, FinishHasCaller DEF Finish
  <2>2. Queues(posts, todo)'
    BY <1>1, <1>2, <1>12, <2>1, BodyReturns, ReturnQueues DEF Finish, locals
  <2> QED
    BY <1>1, <2>2 DEF Listable
<1>13. CASE UNCHANGED vars
  BY <1>1, <1>13, StutterQueues DEF Listable
<1> QED
  BY <1>4, <1>5, <1>7, <1>8, <1>9, <1>10, <1>11, <1>12, <1>13 DEF Next

(* Whoever does not hand over a coroutine that is pending keeps every      *)
(* queue well formed.                                                      *)
THEOREM QueuesFormed ==
  ASSUME "relink" \notin Uses
  PROVE  Spec => []Listable
<1>1. Init => Listable
  BY InitListable
<1>2. IndInv /\ Listable /\ [Next]_vars => Listable'
  BY NextListable
<1> QED
  BY <1>1, <1>2, Inductive, PTL DEF Spec

-----------------------------------------------------------------------------
(* What a traversal of a queue meets.                                      *)

(* A set of natural numbers that is not empty has a least element.         *)
LEMMA LeastNumber ==
  ASSUME NEW T \in SUBSET Nat, T # {}
  PROVE  \E m \in T : \A k \in T : m <= k
<1>1. PICK m \in T : \A k \in T : <<k, m>> \notin OpToRel(<, Nat)
  BY NatLessThanWellFounded, WFMin
<1>2. \A k \in T : ~(k < m)
  BY <1>1 DEF OpToRel
<1> QED
  BY <1>2

(* Walk meets a queue's elements, when it follows enough links.            *)
LEMMA WalkSpelled ==
  ASSUME NEW n \in [All -> All \cup {NULL}], NEW h \in Heads, NEW s \in Seq(All),
         Spells(n, h, s), NEW bound \in Nat, Len(s) <= bound
  PROVE  DOMAIN Q!Walk(n, h, bound) = DOMAIN s
         /\ \A i \in DOMAIN s : Q!Walk(n, h, bound)[i] = s[i]
<1>1. PICK a \in Nat : a = Len(s) /\ DOMAIN s = 1 .. a /\ a <= bound
  BY LenProperties
<1>2. \A i \in 1 .. a : s[i] \in All
  BY <1>1, ElementOfSeq
<1>3. NULL \notin All
  BY ConstantsAssumption
<1> DEFINE after == [elm \in DOMAIN n \cup {NULL} |-> IF elm = NULL THEN NULL ELSE n[elm]]
           node[i \in 0 .. bound] == IF i = 0 THEN h.first ELSE after[node[i - 1]]
           met == [i \in 0 .. bound |-> IF i < a THEN s[i + 1] ELSE NULL]
<1>4. /\ a = 0 => h.first = NULL
      /\ a > 0 => h.first = s[1] /\ n[s[a]] = NULL
      /\ \A i \in 1 .. a - 1 : n[s[i]] = s[i + 1]
  BY <1>1 DEF Spells
<1>5. \A e \in All : after[e] = n[e]
  BY <1>3
<1>6. after[NULL] = NULL
  OBVIOUS
<1> HIDE DEF after
<1>7. met = [i \in 0 .. bound |-> IF i = 0 THEN h.first ELSE after[met[i - 1]]]
  <2> SUFFICES ASSUME NEW i \in 0 .. bound
               PROVE  met[i] = IF i = 0 THEN h.first ELSE after[met[i - 1]]
    OBVIOUS
  <2>1. CASE i = 0
    <3>1. met[i] = IF 0 < a THEN s[1] ELSE NULL
      BY <2>1
    <3> QED
      BY <1>1, <1>4, <2>1, <3>1
  <2>2. CASE i > 0 /\ i < a
    <3>1. i \in 1 .. a - 1 /\ i - 1 \in 0 .. bound /\ i - 1 < a /\ (i - 1) + 1 = i
      BY <1>1, <2>2
    <3>2. met[i] = s[i + 1] /\ met[i - 1] = s[i] /\ s[i] \in All
      BY <1>2, <2>2, <3>1
    <3> QED
      BY <1>4, <1>5, <2>2, <3>1, <3>2
  <2>3. CASE i > 0 /\ i = a
    <3>1. i - 1 \in 0 .. bound /\ i - 1 < a /\ (i - 1) + 1 = a /\ a \in 1 .. a
      BY <1>1, <2>3
    <3>2. met[i] = NULL /\ met[i - 1] = s[a] /\ s[a] \in All
      BY <1>2, <2>3, <3>1
    <3> QED
      BY <1>4, <1>5, <2>3, <3>2
  <2>4. CASE i > a
    <3>1. i - 1 \in 0 .. bound /\ ~(i - 1 < a) /\ ~(i < a)
      BY <1>1, <2>4
    <3>2. met[i] = NULL /\ met[i - 1] = NULL
      BY <3>1
    <3> QED
      BY <1>1, <1>6, <2>4, <3>2
  <2> QED
    BY <1>1, <2>1, <2>2, <2>3, <2>4
<1> HIDE DEF met
<1>8. node = [i \in 0 .. bound |-> IF i = 0 THEN h.first ELSE after[node[i - 1]]]
  BY <1>7
<1> HIDE DEF node
<1>9. \A i \in 0 .. bound : node[i] = met[i]
  <2> DEFINE T == {i \in 0 .. bound : node[i] # met[i]}
  <2> SUFFICES ASSUME T # {} PROVE FALSE
    OBVIOUS
  <2>1. PICK m \in T : \A k \in T : m <= k
    <3>1. T \in SUBSET Nat
      OBVIOUS
    <3> HIDE DEF T
    <3> QED
      BY <3>1, LeastNumber
  <2>2. m \in 0 .. bound /\ node[m] # met[m]
    BY <2>1
  <2>3. CASE m = 0
    BY <1>7, <1>8, <2>2, <2>3
  <2>4. CASE m # 0
    <3>1. m - 1 \in 0 .. bound /\ ~(m <= m - 1)
      BY <2>2, <2>4
    <3>2. node[m - 1] = met[m - 1]
      BY <2>1, <3>1
    <3>3. node[m] = after[node[m - 1]]
      BY <1>8, <2>2, <2>4
    <3>4. met[m] = after[met[m - 1]]
      BY <1>7, <2>2, <2>4
    <3> QED
      BY <2>2, <3>2, <3>3, <3>4
  <2> QED
    BY <2>3, <2>4
<1>10. {k \in 0 .. bound : node[k] # NULL} = 0 .. a - 1
  <2>1. \A k \in 0 .. bound : k < a => met[k] = s[k + 1] /\ k + 1 \in 1 .. a
    BY <1>1 DEF met
  <2>2. \A k \in 0 .. bound : ~(k < a) => met[k] = NULL
    BY DEF met
  <2>3. \A k \in 0 .. bound : node[k] # NULL <=> k < a
    BY <1>2, <1>3, <1>9, <2>1, <2>2
  <2>4. \A k : k \in 0 .. a - 1 <=> k \in 0 .. bound /\ k < a
    BY <1>1
  <2> QED
    BY <2>3, <2>4
<1>11. Cardinality(0 .. a - 1) = a
  <2>1. 0 \in Int /\ a - 1 \in Int
    OBVIOUS
  <2>2. Cardinality(0 .. a - 1) = IF 0 > a - 1 THEN 0 ELSE (a - 1) - 0 + 1
    BY <2>1, FS_Interval
  <2> QED
    BY <2>2
<1>12. Q!Walk(n, h, bound) = [i \in 1 .. a |-> node[i - 1]]
  <2>1. Q!Walk(n, h, bound) =
          [i \in 1 .. Cardinality({k \in 0 .. bound : node[k] # NULL}) |-> node[i - 1]]
    <3>1. ASSUME NEW S PROVE Q!Cardinality(S) = Cardinality(S)
      BY Zenon DEF Q!Cardinality, Cardinality
    <3> QED
      BY <3>1, Zenon DEF Q!Walk, node, after
  <2> QED
    BY <1>10, <1>11, <2>1
<1>13. \A i \in 1 .. a : node[i - 1] = s[i]
  <2>1. \A i \in 1 .. a : i - 1 \in 0 .. bound /\ i - 1 < a /\ (i - 1) + 1 = i
    BY <1>1
  <2>2. \A i \in 1 .. a : met[i - 1] = s[i]
    BY <2>1 DEF met
  <2> QED
    BY <1>9, <2>1, <2>2
<1> QED
  BY <1>1, <1>12, <1>13

(* A list without repetitions is no longer than there are coroutines.      *)
LEMMA ListFits ==
  ASSUME IsFiniteSet(Coroutines), NEW s \in Seq(All),
         \A i, j \in DOMAIN s : s[i] = s[j] => i = j
  PROVE  Cardinality(All) \in Nat /\ Len(s) <= Cardinality(All)
<1>1. IsFiniteSet(All) /\ Cardinality(All) \in Nat
  <2>1. IsFiniteSet(Coroutines \cup {Dummy})
    BY FS_AddElement
  <2>2. Coroutines \cup {Dummy} = All
    BY DEF All
  <2>3. IsFiniteSet(All)
    BY <2>1, <2>2, Zenon
  <2> QED
    BY <2>3, FS_CardinalityType
<1>2. PICK a \in Nat : a = Len(s) /\ DOMAIN s = 1 .. a
  BY LenProperties
<1>3. s \in Injection(1 .. a, All)
  <2>1. s \in [1 .. a -> All]
    BY <1>2, LenProperties
  <2> QED
    BY <1>2, <2>1 DEF Injection, IsInjective
<1>4. Cardinality(1 .. a) <= Cardinality(All)
  BY <1>1, <1>3, FS_Injection
<1>5. Cardinality(1 .. a) = a
  <2>1. Cardinality(1 .. a) = IF 1 > a THEN 0 ELSE a - 1 + 1
    BY FS_Interval
  <2> QED
    BY <2>1
<1> QED
  BY <1>1, <1>2, <1>4, <1>5

(* Wherever there are such lists, what is owed is in exactly one place.    *)
LEMMA OnePlace ==
  ASSUME IsFiniteSet(Coroutines), TypeOK, Listable, NEW c \in owed
  PROVE  Cardinality(Places(c)) = 1
<1> DEFINE bound == Cardinality(All)
<1>1. PICK posts \in Lists, todo \in Lists : Queues(posts, todo)
  BY DEF Listable
<1>2. Separate(posts, todo) /\ Linked(posts, todo) /\ Accounted(posts, todo)
  BY <1>1 DEF Queues
<1>3. next \in [All -> All \cup {NULL}] /\ c \in All
  BY DEF TypeOK
<1>4. ASSUME NEW d \in All
      PROVE  /\ DOMAIN Queue(pendings[d]) = DOMAIN posts[d]
             /\ \A i \in DOMAIN posts[d] :
                  Queue(pendings[d])[i] = posts[d][i] /\ i \in 1 .. bound + 1
             /\ DOMAIN Queue(batch[d]) = DOMAIN todo[d]
             /\ \A i \in DOMAIN todo[d] :
                  Queue(batch[d])[i] = todo[d][i] /\ i \in 1 .. bound + 1
  <2>1. PICK s \in Seq(All), t \in Seq(All) : s = posts[d] /\ t = todo[d]
    BY DEF Lists
  <2>2. Spells(next, pendings[d], s) /\ Spells(next, batch[d], t)
    BY <1>2, <2>1 DEF Linked
  <2>3. (\A i, j \in DOMAIN s : s[i] = s[j] => i = j) /\ (\A i, j \in DOMAIN t : t[i] = t[j] => i = j)
    BY <1>2, <2>1 DEF Separate, Once
  <2>4. bound \in Nat /\ Len(s) <= bound /\ Len(t) <= bound
    BY <2>3, ListFits
  <2>5. pendings[d] \in Heads /\ batch[d] \in Heads
    BY DEF TypeOK
  <2> HIDE DEF bound
  <2>6. /\ DOMAIN Q!Walk(next, pendings[d], bound) = DOMAIN s
        /\ \A i \in DOMAIN s : Q!Walk(next, pendings[d], bound)[i] = s[i]
    BY <1>3, <2>2, <2>4, <2>5, WalkSpelled
  <2>7. /\ DOMAIN Q!Walk(next, batch[d], bound) = DOMAIN t
        /\ \A i \in DOMAIN t : Q!Walk(next, batch[d], bound)[i] = t[i]
    BY <1>3, <2>2, <2>4, <2>5, WalkSpelled
  <2>8. (\A i \in DOMAIN s : i \in 1 .. bound + 1) /\ (\A i \in DOMAIN t : i \in 1 .. bound + 1)
    <3>1. PICK a \in Nat, b \in Nat : /\ a = Len(s) /\ b = Len(t) /\ a <= bound /\ b <= bound
                                      /\ DOMAIN s = 1 .. a /\ DOMAIN t = 1 .. b
      BY <2>4, LenProperties
    <3>2. (\A i \in 1 .. a : i \in 1 .. bound + 1) /\ (\A i \in 1 .. b : i \in 1 .. bound + 1)
      BY <2>4, <3>1
    <3> QED
      BY <3>1, <3>2
  <2> QED
    BY <2>1, <2>6, <2>7, <2>8 DEF Queue, bound
<1> HIDE DEF bound
<1>5. \A p : p \in Places(c) <=>
        \/ \E d \in All : \E i \in DOMAIN posts[d] : p = <<"own", d, i>> /\ posts[d][i] = c
        \/ \E d \in All : \E i \in DOMAIN todo[d] : p = <<"batch", d, i>> /\ todo[d][i] = c
  <2>1. Places(c) = {p \in {"own", "batch"} \X All \X (1 .. bound + 1) :
           LET queue == Queue(IF p[1] = "own" THEN pendings[p[2]] ELSE batch[p[2]])
           IN  p[3] \in DOMAIN queue /\ queue[p[3]] = c}
    BY DEF Places, bound
  <2>2. ASSUME NEW p \in Places(c)
        PROVE \/ \E d \in All : \E i \in DOMAIN posts[d] : p = <<"own", d, i>> /\ posts[d][i] = c
              \/ \E d \in All : \E i \in DOMAIN todo[d] : p = <<"batch", d, i>> /\ todo[d][i] = c
    <3>1. PICK k \in {"own", "batch"}, d \in All, i \in 1 .. bound + 1 : p = <<k, d, i>>
      BY <2>1
    <3>2. /\ k = "own" => i \in DOMAIN Queue(pendings[d]) /\ Queue(pendings[d])[i] = c
          /\ k = "batch" => i \in DOMAIN Queue(batch[d]) /\ Queue(batch[d])[i] = c
      BY <2>1, <3>1
    <3> QED
      BY <1>4, <3>1, <3>2
  <2>3. ASSUME NEW d \in All, NEW i \in DOMAIN posts[d], posts[d][i] = c
        PROVE  <<"own", d, i>> \in Places(c)
    BY <1>4, <2>1, <2>3
  <2>4. ASSUME NEW d \in All, NEW i \in DOMAIN todo[d], todo[d][i] = c
        PROVE  <<"batch", d, i>> \in Places(c)
    BY <1>4, <2>1, <2>4
  <2> QED
    BY <2>2, <2>3, <2>4
<1>6. \E p : Places(c) = {p}
  <2>1. CASE c \in Listed(posts)
    <3>1. PICK d \in All : \E i \in DOMAIN posts[d] : posts[d][i] = c
      BY <2>1 DEF Listed
    <3>2. PICK i \in DOMAIN posts[d] : posts[d][i] = c
      BY <3>1
    <3>3. \A e \in All : \A j \in DOMAIN posts[e] : posts[e][j] = c => e = d /\ j = i
      BY <1>2, <3>2 DEF Separate, Once
    <3>4. \A e \in All : \A j \in DOMAIN todo[e] : todo[e][j] # c
      BY <1>2, <3>2, ApartLists
    <3>5. \A p : p \in Places(c) => p = <<"own", d, i>>
      BY <1>5, <3>3, <3>4
    <3>6. <<"own", d, i>> \in Places(c)
      BY <1>5, <3>2
    <3> QED
      BY <3>5, <3>6
  <2>2. CASE c \in Listed(todo)
    <3>1. PICK d \in All : \E i \in DOMAIN todo[d] : todo[d][i] = c
      BY <2>2 DEF Listed
    <3>2. PICK i \in DOMAIN todo[d] : todo[d][i] = c
      BY <3>1
    <3>3. \A e \in All : \A j \in DOMAIN todo[e] : todo[e][j] = c => e = d /\ j = i
      BY <1>2, <3>2 DEF Separate, Once
    <3>4. \A e \in All : \A j \in DOMAIN posts[e] : posts[e][j] # c
      BY <1>2, <3>2, ApartLists
    <3>5. \A p : p \in Places(c) => p = <<"batch", d, i>>
      BY <1>5, <3>3, <3>4
    <3>6. <<"batch", d, i>> \in Places(c)
      BY <1>5, <3>2
    <3> QED
      BY <3>5, <3>6
  <2> QED
    BY <1>2, <2>1, <2>2 DEF Accounted
<1> QED
  BY <1>6, FS_Singleton

(* A coroutine given to xcp_coroutine_process is in exactly one queue, once, *)
(* until a _resume enters it, if nobody hands over a coroutine that is     *)
(* already pending: its single link could not be on two queues.            *)
THEOREM PendingStays ==
  ASSUME "relink" \notin Uses, IsFiniteSet(Coroutines)
  PROVE  Spec => []PendingKept
<1>1. IndInv /\ Listable => PendingKept
  BY OnePlace DEF IndInv, PendingKept
<1> QED
  BY <1>1, Inductive, QueuesFormed, PTL

-----------------------------------------------------------------------------
(* What xcp_coroutine_destroy is given.                                    *)

(* A callback has returned to the _resume that runs.                       *)
Returned == point[current] = "woken" /\ ret = "Terminated"

(* Only a coroutine whose callback has returned is destroyed, and it is    *)
(* the argument of the _resume it returned to.                             *)
Ended ==
  /\ \A c \in All : point[c] = "done" => heap[c] = "freed" \/ (Returned /\ callee[current] = c)
  /\ Returned => /\ callee[current] \in All /\ argument[current] = callee[current]
                 /\ point[callee[current]] = "done" /\ heap[callee[current]] = "live"
  /\ \A c \in All : heap[c] = "freed" => point[c] = "done"

(* While user code or the loop of a _resume runs, what has ended is freed. *)
LEMMA EndedIsFreed ==
  ASSUME Ended, point[current] \in {"body", "loop"}
  PROVE  \A c \in All : point[c] = "done" <=> heap[c] = "freed"
BY DEF Ended, Returned

(* A step that neither ends nor frees a coroutine.                         *)
LEMMA EndedKept ==
  ASSUME Ended, point[current] \in {"body", "loop"}, heap' = heap, ~Returned',
         \A c \in All : point'[c] = "done" <=> point[c] = "done"
  PROVE  Ended'
BY EndedIsFreed DEF Ended

(* The steps before and after a callback keep it.                          *)
LEMMA CallsEnded ==
  ASSUME IndInv, Ended, NEW c \in All, Resume(c) \/ Enqueue(c) \/ Leave,
         ~\E kind \in Faults : Stop(kind)
  PROVE  Ended'
<1>1. point[current] \in {"body", "loop"} /\ current \in All /\ heap' = heap /\ current' = current
  BY DEF Resume, Enqueue, Leave, InUserCode, Faults, IndInv, TypeOK
<1>2. point' = point \/ point' \in {[point EXCEPT ![current] = "loop"], [point EXCEPT ![current] = "body"]}
  BY DEF Resume, Enqueue, Leave, Faults
<1>3. (\A d \in All : point'[d] = "done" <=> point[d] = "done") /\ point'[current] \in {"body", "loop"}
  BY <1>1, <1>2 DEF IndInv, TypeOK
<1>4. ~Returned'
  BY <1>1, <1>3 DEF Returned
<1> QED
  BY <1>1, <1>3, <1>4, EndedKept

(* A new coroutine has not ended.                                          *)
LEMMA CreateEnded ==
  ASSUME IndInv, Ended, NEW c \in Coroutines, Create(c)
  PROVE  Ended'
<1>1. /\ point[current] = "body" /\ current \in All /\ c \in All /\ point[c] = "none"
      /\ point' = [point EXCEPT ![c] = "entry"] /\ heap' = [heap EXCEPT ![c] = "live"]
      /\ current' = current
  BY DEF Create, InUserCode, IndInv, TypeOK, All
<1>2. \A d \in All : point[d] = "done" <=> heap[d] = "freed"
  BY <1>1, EndedIsFreed
<1>3. \A d \in All : point'[d] = "done" <=> heap'[d] = "freed"
  BY <1>1, <1>2 DEF IndInv, TypeOK
<1>4. ~Returned'
  BY <1>1 DEF Returned, IndInv, TypeOK
<1> QED
  BY <1>3, <1>4 DEF Ended

(* A coroutine that is entered has not ended.                              *)
LEMMA FetchEnded ==
  ASSUME IndInv, Ended, Fetch, ~\E kind \in Faults : Stop(kind)
  PROVE  Ended'
<1>1. PICK first : first = batch[current].first
  OBVIOUS
<1>2. /\ point[current] = "loop" /\ first \in All /\ ret' = "Running" /\ heap' = heap
      /\ first # Dummy => point[first] \in {"entry", "yield"}
      /\ point' = [c \in All |-> IF c = first THEN IF first = Dummy THEN "woken" ELSE "body"
                                 ELSE IF c = current THEN "resume" ELSE point[c]]
  BY <1>1, FetchLands
<1>3. point[Dummy] # "done"
  BY NotMisdirected DEF Fetch, Standing
<1>4. \A c \in All : point'[c] = "done" <=> point[c] = "done"
  BY <1>2, <1>3
<1> QED
  BY <1>2, <1>4, EndedKept DEF Returned

(* A yield ends nothing.                                                   *)
LEMMA YieldEnded ==
  ASSUME IndInv, Ended, Yield, ~\E kind \in Faults : Stop(kind)
  PROVE  Ended'
<1>1. /\ InUserCode /\ caller[current] # NULL /\ heap' = heap
      /\ Exec(current, caller[current], "Suspend", "yield")
  BY DEF Yield, Faults
<1>2. PICK to : to = caller[current]
  OBVIOUS
<1>3. /\ point[current] = "body" /\ ret' = "Suspend" /\ point[to] = "resume"
      /\ point' = [c \in All |-> IF c = to THEN "woken" ELSE IF c = current THEN "yield" ELSE point[c]]
  BY <1>1, <1>2, ReturnLands
<1>4. \A c \in All : point'[c] = "done" <=> point[c] = "done"
  BY <1>3
<1> QED
  BY <1>1, <1>3, <1>4, EndedKept DEF Returned

(* A callback returns only to the _resume it is the argument of.           *)
LEMMA FinishEnded ==
  ASSUME IndInv, Ended, "finish" \notin Uses, Finish
  PROVE  Ended'
<1>1. /\ InUserCode /\ caller[current] # NULL /\ heap' = heap /\ argument[caller[current]] = current
      /\ Exec(current, caller[current], "Terminated", "done")
      /\ UNCHANGED <<argument, callee>>
  BY FinishHasCaller DEF Finish, EnteredDirectly, locals
<1>2. PICK to : to = caller[current]
  OBVIOUS
<1>3. /\ point[current] = "body" /\ ret' = "Terminated" /\ point[to] = "resume"
      /\ to \in All /\ callee[to] = current /\ to # current /\ current' = to
      /\ current \in Active /\ current \in Coroutines
      /\ point' = [c \in All |-> IF c = to THEN "woken" ELSE IF c = current THEN "done" ELSE point[c]]
  BY <1>1, <1>2, ReturnLands
<1>4. heap[current] = "live" /\ current \in All
  BY <1>3 DEF IndInv, ActiveIsAllocated, TypeOK
<1>5. Returned'
  BY <1>3 DEF Returned
<1>6. \A c \in All : point[c] = "done" <=> heap[c] = "freed"
  BY <1>3, EndedIsFreed
<1>7. \A c \in All : point'[c] = "done" => heap'[c] = "freed" \/ c = current
  BY <1>1, <1>3, <1>6
<1>8. \A c \in All : heap'[c] = "freed" => point'[c] = "done"
  BY <1>1, <1>3, <1>6
<1>9. callee'[current'] = current /\ argument'[current'] = current /\ point'[current] = "done"
  BY <1>1, <1>2, <1>3, <1>4
<1> QED
  BY <1>1, <1>4, <1>5, <1>7, <1>8, <1>9 DEF Ended

(* The _resume it returns to frees it.                                     *)
LEMMA SettleEnded ==
  ASSUME IndInv, Ended, Settle, ~\E kind \in Faults : Stop(kind)
  PROVE  Ended'
<1>1. /\ point[current] = "woken" /\ ret # "Running" /\ current \in All
      /\ heap' = IF ret = "Terminated" THEN [heap EXCEPT ![argument[current]] = "freed"] ELSE heap
      /\ point' = [point EXCEPT ![current] = "loop"]
      /\ UNCHANGED <<current, ret, callee>>
  BY DEF Settle, Faults, Destroy, Destroys, Destroyed, IndInv, TypeOK
<1>2. ~Returned'
  BY <1>1 DEF Returned, IndInv, TypeOK
<1>3. \A c \in All : point'[c] = "done" <=> point[c] = "done"
  BY <1>1 DEF IndInv, TypeOK
<1>4. CASE ret = "Terminated"
  <2>1. Returned
    BY <1>1, <1>4 DEF Returned
  <2>2. PICK d \in All : d = callee[current] /\ d = argument[current] /\ point[d] = "done"
    BY <2>1 DEF Ended
  <2>3. \A c \in All : heap'[c] = IF c = d THEN "freed" ELSE heap[c]
    BY <1>1, <1>4, <2>2 DEF IndInv, TypeOK
  <2>4. \A c \in All : point'[c] = "done" <=> heap'[c] = "freed"
    BY <1>3, <2>1, <2>2, <2>3 DEF Ended
  <2> QED
    BY <1>2, <2>4 DEF Ended
<1>5. CASE ret # "Terminated"
  <2>1. heap' = heap /\ ~Returned
    BY <1>1, <1>5 DEF Returned
  <2>2. \A c \in All : point'[c] = "done" <=> heap'[c] = "freed"
    BY <1>3, <2>1 DEF Ended
  <2> QED
    BY <1>2, <2>2 DEF Ended
<1> QED
  BY <1>4, <1>5

(* Every step keeps it.                                                    *)
LEMMA NextEnded ==
  ASSUME IndInv, Ended, "finish" \notin Uses, [Next]_vars
  PROVE  Ended'
<1>1. ASSUME UNCHANGED vars \/ \E kind \in Faults : Stop(kind) PROVE Ended'
  <2>1. UNCHANGED <<current, point, heap, argument, callee, ret>>
    BY <1>1 DEF vars, locals, Stop
  <2> QED
    BY <2>1 DEF Ended, Returned
<1>2. ASSUME NEW c \in All, Resume(c) \/ Process(c) PROVE Ended'
  BY <1>1, <1>2, CallsEnded DEF Process
<1>3. ASSUME Leave PROVE Ended'
  BY <1>1, <1>3, CallsEnded DEF IndInv, TypeOK
<1>4. ASSUME \E c \in Coroutines : Create(c) PROVE Ended'
  BY <1>4, CreateEnded
<1>5. ASSUME Fetch \/ Settle \/ Yield PROVE Ended'
  BY <1>1, <1>5, FetchEnded, SettleEnded, YieldEnded
<1>6. ASSUME Finish PROVE Ended'
  BY <1>6, FinishEnded
<1> QED
  BY <1>1, <1>2, <1>3, <1>4, <1>5, <1>6 DEF Next

(* Nothing has ended initially.                                            *)
LEMMA InitEnded == Init => Ended
BY ConstantsAssumption DEF Init, Ended, Returned, All

(* A callback that returns is always followed by the release of its block, *)
(* as long as callbacks return only in the pass that the caller's _resume  *)
(* was asked for: the block freed by line 296 is then the right one.       *)
THEOREM EndedCorrect ==
  ASSUME "finish" \notin Uses
  PROVE  Spec => []Ended
<1>1. Init => Ended
  BY InitEnded
<1>2. IndInv /\ Ended /\ [Next]_vars => Ended'
  BY NextEnded
<1> QED
  BY <1>1, <1>2, Inductive, PTL DEF Spec

(* No block of a coroutine that has ended leaks.                           *)
THEOREM FinishedFreed ==
  ASSUME "finish" \notin Uses
  PROVE  Spec => []FinishedIsFreed
<1>1. Ended => FinishedIsFreed
  BY DEF Ended, Returned, FinishedIsFreed, All
<1> QED
  BY <1>1, EndedCorrect, PTL

-----------------------------------------------------------------------------
(* What is on a queue exists, and is not the coroutine that runs.          *)

(* The coroutine c is on every part of the call chain from s down.         *)
Upstream(c, s) == \A B \in SUBSET Active : s \in B /\ Closed(B) => c \in B

(* Whose _resume the pending list of d goes to: its own, while d is on the *)
(* call chain, or that of the _resume that d has just returned to.         *)
Owner(d) == IF d \in Active THEN d ELSE current

(* Everything listed is there, neither ended nor destroyed.                *)
Here(c) == c \in Handles /\ heap[c] = "live"

Present(posts, todo) ==
  \A d \in All : /\ \A i \in DOMAIN posts[d] : Here(posts[d][i])
                 /\ \A i \in DOMAIN todo[d] : Here(todo[d][i])

(* No coroutine is on its own pending list; only a coroutine on the call   *)
(* chain has one, or one that has just given control back; and an active   *)
(* coroutine is listed only by those that it leads to.                     *)
Chained(posts, todo) ==
  /\ point[current] = "woken" => callee[current] \notin Active
  /\ \A d \in All : \A i \in DOMAIN posts[d] :
       /\ d \in Active \/ (point[current] = "woken" /\ d = callee[current])
       /\ posts[d][i] \in Active => Upstream(posts[d][i], Owner(d))
  /\ \A d \in All : \A i \in DOMAIN todo[d] : todo[d][i] \in Active => Upstream(todo[d][i], d)

Guarded(posts, todo) ==
  /\ Present(posts, todo)
  /\ \A d \in All : \A i \in DOMAIN posts[d] : posts[d][i] # d
  /\ ~Misdirected => Chained(posts, todo)
  /\ point[current] = "woken" => callee[current] \in All

(* A coroutine with a local queue is on the call chain.                    *)
LEMMA TodoActive ==
  ASSUME IndInv, ~Misdirected, NEW posts \in Lists, NEW todo \in Lists, Queues(posts, todo),
         NEW d \in All, NEW i \in DOMAIN todo[d]
  PROVE  d \in Active /\ point[d] \in Resuming
<1>1. ~(Len(todo[d]) = 0)
  <2>1. DOMAIN todo[d] = 1 .. Len(todo[d])
    BY LenProperties DEF Lists
  <2>2. \A j \in 1 .. 0 : FALSE
    OBVIOUS
  <2> QED
    BY <2>1, <2>2
<1>2. point[d] \in {"resume", "woken", "loop"}
  BY <1>1 DEF Queues, Unused
<1>3. Standing
  BY DEF IndInv
<1> QED
  BY <1>2, <1>3 DEF Standing, Active, All, Resuming

(* A coroutine that runs its callback is on no queue.                      *)
LEMMA BodyUnlisted ==
  ASSUME IndInv, NEW posts \in Lists, NEW todo \in Lists, Queues(posts, todo), Guarded(posts, todo),
         point[current] = "body", current # Dummy
  PROVE  current \notin Listed(posts) /\ current \notin Listed(todo)
<1>1. ~Misdirected /\ Standing /\ CallChain /\ Chained(posts, todo)
  BY NotMisdirected DEF Guarded
<1>2. current \in Active /\ Closed(Active)
  BY <1>1, ActiveClosed DEF CallChain, IndInv
<1>3. \A c \in Active \ {Dummy} : caller[c] # current
  BY <1>1 DEF CallChain
<1>4. PICK B \in SUBSET Active : B = Active \ {current}
  OBVIOUS
<1>5. Closed(B)
  BY <1>2, <1>3, <1>4 DEF Closed
<1>6. \A d \in Active : d # current => ~Upstream(current, d)
  BY <1>4, <1>5 DEF Upstream
<1>7. \A d \in All : \A i \in DOMAIN posts[d] : posts[d][i] # current
  BY <1>1, <1>2, <1>6 DEF Guarded, Chained, Owner
<1>8. \A d \in All : \A i \in DOMAIN todo[d] : todo[d][i] # current
  <2> SUFFICES ASSUME NEW d \in All, NEW i \in DOMAIN todo[d], todo[d][i] = current PROVE FALSE
    OBVIOUS
  <2>1. d \in Active /\ d # current
    BY <1>1, TodoActive DEF Resuming
  <2> QED
    BY <1>1, <1>2, <1>6, <2>1 DEF Chained
<1> QED
  BY <1>7, <1>8 DEF Listed

(* A step that leaves the call chain and the lists as they are.            *)
LEMMA GuardedKept ==
  ASSUME TypeOK, NEW posts \in Lists, NEW todo \in Lists, Guarded(posts, todo),
         ~Misdirected, point[current] # "woken",
         UNCHANGED <<current, caller>>, Active' = Active, point'[current] # "woken",
         \A c : Here(c) => Here(c)'
  PROVE  Guarded(posts, todo)'
<1>1. \A B : Closed(B)' <=> Closed(B)
  BY DEF Closed
<1>2. \A c, s : Upstream(c, s)' <=> Upstream(c, s)
  BY <1>1 DEF Upstream
<1>3. Present(posts, todo)'
  BY DEF Guarded, Present
<1>4. Chained(posts, todo)'
  BY <1>2 DEF Guarded, Chained, Owner
<1> QED
  BY <1>3, <1>4 DEF Guarded

(* Stopping and doing nothing keep everything in place.                    *)
LEMMA StillGuarded ==
  ASSUME NEW posts \in Lists, NEW todo \in Lists, Guarded(posts, todo),
         UNCHANGED <<current, caller, point, heap, callee, ret>>
  PROVE  Guarded(posts, todo)'
<1>1. Misdirected' = Misdirected /\ Active' = Active /\ Handles' = Handles
  BY DEF Misdirected, Active, Handles
<1>2. \A c, s : Upstream(c, s)' <=> Upstream(c, s)
  BY <1>1 DEF Upstream, Closed
<1>3. Present(posts, todo)'
  BY <1>1 DEF Guarded, Present, Here
<1>4. Chained(posts, todo)' <=> Chained(posts, todo)
  BY <1>1, <1>2 DEF Chained, Owner
<1> QED
  BY <1>1, <1>3, <1>4 DEF Guarded

(* A new coroutine is on no list.                                          *)
LEMMA CreateGuarded ==
  ASSUME IndInv, NEW posts \in Lists, NEW todo \in Lists, Guarded(posts, todo),
         NEW c \in Coroutines, Create(c)
  PROVE  Guarded(posts, todo)'
<1>1. ~Misdirected /\ Standing /\ Pointers
  BY NotMisdirected DEF Create, InUserCode
<1>2. /\ point[c] = "none" /\ point[current] = "body" /\ c \in All /\ current \in All
      /\ point' = [point EXCEPT ![c] = "entry"] /\ heap' = [heap EXCEPT ![c] = "live"]
      /\ caller' = [caller EXCEPT ![c] = NULL] /\ current' = current /\ callee' = callee
  BY DEF Create, InUserCode, locals, All, IndInv, TypeOK
<1>3. caller' = caller /\ TypeOK
  BY <1>1, <1>2 DEF IndInv, TypeOK, Standing
<1>4. Active' = Active
  BY <1>1, <1>2, <1>3 DEF Active, IndInv, TypeOK, Standing, All
<1>5. \A e : Here(e) => Here(e)'
  BY <1>2 DEF Here, Handles, IndInv, TypeOK
<1>6. point'[current] # "woken"
  BY <1>2 DEF IndInv, TypeOK
<1> QED
  BY <1>1, <1>2, <1>3, <1>4, <1>5, <1>6, GuardedKept

(* The call of _resume lists its argument with the coroutine that calls.   *)
LEMMA ResumeGuarded ==
  ASSUME IndInv, Ended, NEW posts \in Lists, NEW todo \in Lists, Guarded(posts, todo),
         NEW c \in All, Resume(c), ~Stop("use_after_free"),
         NEW more \in Lists, Added(todo, current, c, more)
  PROVE  Guarded(posts, more)'
<1>1. ~Misdirected /\ Standing /\ Pointers /\ CallChain /\ TypeOK
  BY NotMisdirected DEF Resume, InUserCode, IndInv
<1>2. /\ point[current] = "body" /\ c \in Handles /\ heap[c] # "freed" /\ current \in All
      /\ point' = [point EXCEPT ![current] = "loop"]
      /\ callee' = [callee EXCEPT ![current] = NULL]
      /\ UNCHANGED <<current, caller, heap>>
  BY ConstantsAssumption DEF Resume, InUserCode, IndInv, TypeOK, Freed
<1>3. Here(c)
  BY <1>1, <1>2 DEF Here, Pointers, Handles, TypeOK
<1>4. \A e : Here(e) => Here(e)'
  BY <1>2 DEF Here, Handles, IndInv, TypeOK
<1>5. Active' = Active /\ point'[current] = "loop"
  BY <1>2 DEF IndInv, TypeOK, Active, All
<1>6. Guarded(posts, todo)'
  BY <1>1, <1>2, <1>4, <1>5, GuardedKept
<1>7. \A s, e : Upstream(e, s)' <=> Upstream(e, s)
  BY <1>2, <1>5 DEF Upstream, Closed
<1>8. c \in Active => Upstream(c, current)'
  <2>1. c \in Active => Upstream(c, current)
    BY <1>1 DEF CallChain, Upstream
  <2> QED
    BY <1>2, <1>7, <2>1
<1>9. ~Misdirected'
  BY <1>2, <1>5 DEF Misdirected
<1>10. Present(posts, more)'
  BY <1>3, <1>4, <1>6 DEF Added, Guarded, Present
<1>11. Chained(posts, more)'
  BY <1>2, <1>5, <1>6, <1>8, <1>9 DEF Added, Guarded, Chained
<1> QED
  BY <1>2, <1>5, <1>6, <1>10, <1>11 DEF Guarded

(* xcp_coroutine_process lists its argument with the coroutine that runs,  *)
(* which assert() has told apart.                                          *)
LEMMA EnqueueGuarded ==
  ASSUME IndInv, Ended, NEW posts \in Lists, NEW todo \in Lists, Guarded(posts, todo),
         NEW c \in All, Enqueue(c), ~\E kind \in Faults : Stop(kind), ~NDEBUG,
         NEW more \in Lists, Added(posts, current, c, more)
  PROVE  Guarded(more, todo)'
<1>1. ~Misdirected /\ Standing /\ Pointers /\ CallChain /\ TypeOK
  BY NotMisdirected DEF Enqueue, InUserCode, IndInv
<1>2. /\ point[current] = "body" /\ c \in Handles /\ heap[c] # "freed" /\ current \in All
      /\ c # current
      /\ UNCHANGED <<current, caller, heap, point, callee, ret>>
  BY ConstantsAssumption DEF Enqueue, InUserCode, IndInv, TypeOK, Freed, Faults, locals
<1>3. Here(c)
  BY <1>1, <1>2 DEF Here, Pointers, Handles, TypeOK
<1>4. \A e : Here(e) => Here(e)'
  BY <1>2 DEF Here, Handles
<1>5. Active' = Active /\ current \in Active
  BY <1>1, <1>2 DEF Active, CallChain
<1>6. Guarded(posts, todo)'
  BY <1>2, StillGuarded
<1>7. \A s, e : Upstream(e, s)' <=> Upstream(e, s)
  BY <1>2, <1>5 DEF Upstream, Closed
<1>8. c \in Active => Upstream(c, current)'
  <2>1. c \in Active => Upstream(c, current)
    BY <1>1 DEF CallChain, Upstream
  <2> QED
    BY <1>2, <1>7, <2>1
<1>9. ~Misdirected'
  BY <1>1, <1>2 DEF Misdirected
<1>10. Present(more, todo)'
  BY <1>3, <1>4, <1>6 DEF Added, Guarded, Present
<1>11. Chained(more, todo)'
  BY <1>2, <1>5, <1>6, <1>8, <1>9 DEF Added, Guarded, Chained, Owner
<1>12. \A d \in All : \A i \in DOMAIN more[d] : more[d][i] # d
  BY <1>2, <1>6 DEF Added, Guarded
<1> QED
  BY <1>2, <1>6, <1>10, <1>11, <1>12 DEF Guarded

(* A _resume that returns has no list.                                     *)
LEMMA LeaveGuarded ==
  ASSUME IndInv, NEW posts \in Lists, NEW todo \in Lists, Guarded(posts, todo), Leave
  PROVE  Guarded(posts, todo)'
<1>1. ~Misdirected /\ TypeOK
  BY NotMisdirected DEF Leave, IndInv
<1>2. /\ point[current] = "loop" /\ current \in All
      /\ point' = [point EXCEPT ![current] = "body"]
      /\ UNCHANGED <<current, caller, heap>>
  BY DEF Leave, IndInv, TypeOK
<1>3. \A e : Here(e) => Here(e)'
  BY <1>2 DEF Here, Handles, IndInv, TypeOK
<1>4. Active' = Active /\ point'[current] = "body"
  BY <1>2 DEF IndInv, TypeOK, Active, All
<1> QED
  BY <1>1, <1>2, <1>3, <1>4, GuardedKept

(* The callee that gave control back is off the call chain, and what it    *)
(* posted now belongs to the _resume.                                      *)
LEMMA SettleGuarded ==
  ASSUME IndInv, Ended, NEW posts \in Lists, NEW todo \in Lists, Guarded(posts, todo),
         Settle, ~\E kind \in Faults : Stop(kind),
         NEW less \in Lists, NEW more \in Lists,
         \A d \in All : less[d] = IF d = callee[current] THEN << >> ELSE posts[d],
         Drawn(posts, todo, callee[current], current, more)
  PROVE  Guarded(less, more)'
<1>1. /\ point[current] = "woken" /\ ret # "Running" /\ current \in All
      /\ heap' = IF ret = "Terminated" THEN [heap EXCEPT ![argument[current]] = "freed"] ELSE heap
      /\ point' = [point EXCEPT ![current] = "loop"]
      /\ UNCHANGED <<current, caller, callee, ret>>
  BY DEF Settle, Faults, Destroy, Destroys, Destroyed, IndInv, TypeOK
<1>2. ~Misdirected /\ Standing /\ CallChain /\ TypeOK /\ Chained(posts, todo)
  BY <1>1 DEF Misdirected, IndInv, Guarded
<1>3. PICK from \in All : from = callee[current] /\ from \notin Active
  BY <1>1, <1>2 DEF Guarded, Chained
<1>4. Active' = Active /\ point'[current] = "loop" /\ ~Misdirected'
  BY <1>1, <1>2 DEF TypeOK, Active, All, Misdirected
<1>5. \A s, e : Upstream(e, s)' <=> Upstream(e, s)
  BY <1>1, <1>4 DEF Upstream, Closed
<1>6. \A e : Here(e) => Here(e)'
  <2> SUFFICES ASSUME NEW e, Here(e) PROVE Here(e)'
    OBVIOUS
  <2>1. e \in Handles /\ heap[e] = "live" /\ e \in All
    BY DEF Here, Handles
  <2>2. e \in Handles'
    BY <1>1, <2>1, <1>2 DEF Handles, TypeOK
  <2>3. heap'[e] = "live"
    <3>1. CASE ret = "Terminated"
      <4>1. Returned /\ e # argument[current]
        BY <1>1, <2>1, <3>1 DEF Ended, Returned, Handles
      <4> QED
        BY <1>1, <1>2, <2>1, <4>1 DEF TypeOK
    <3>2. CASE ret # "Terminated"
      BY <1>1, <2>1, <3>2
    <3> QED
      BY <3>1, <3>2
  <2> QED
    BY <2>2, <2>3 DEF Here
<1>7. \A d \in All : \A i \in DOMAIN less[d] : d # from /\ i \in DOMAIN posts[d] /\ less[d][i] = posts[d][i]
  BY <1>3, EmptySeq
<1>8. Present(less, more)'
  <2>1. Present(posts, todo)
    BY DEF Guarded
  <2>2. \A d \in All : \A i \in DOMAIN less[d] : Here(less[d][i])
    BY <1>7, <2>1 DEF Present
  <2>3. \A d \in All : \A i \in DOMAIN more[d] : Here(more[d][i])
    BY <1>3, <2>1 DEF Present, Drawn
  <2> QED
    BY <1>6, <2>2, <2>3 DEF Present
<1>9. Chained(less, more)'
  <2>1. \A d \in All : \A i \in DOMAIN less[d] :
          d \in Active /\ (less[d][i] \in Active => Upstream(less[d][i], d))
    BY <1>2, <1>3, <1>7 DEF Chained, Owner
  <2>2. \A i \in DOMAIN posts[from] : posts[from][i] \in Active => Upstream(posts[from][i], current)
    BY <1>2, <1>3 DEF Chained, Owner
  <2>3. \A d \in All : \A i \in DOMAIN more[d] :
          more[d][i] \in Active => Upstream(more[d][i], d)
    BY <1>2, <1>3, <2>2 DEF Chained, Drawn
  <2> QED
    BY <1>1, <1>4, <1>5, <2>1, <2>3 DEF Chained, Owner
<1>10. \A d \in All : \A i \in DOMAIN less[d] : less[d][i] # d
  BY <1>7 DEF Guarded
<1> QED
  BY <1>1, <1>4, <1>8, <1>9, <1>10 DEF Guarded

(* The coroutine that is entered leaves the lists; those below it on the   *)
(* call chain stay below.                                                  *)
LEMMA FetchGuarded ==
  ASSUME IndInv, NEW posts \in Lists, NEW todo \in Lists, Queues(posts, todo), Guarded(posts, todo),
         Fetch, ~\E kind \in Faults : Stop(kind),
         NEW less \in Lists, Remains(todo, current, less),
         Len(todo[current]) > 0, batch[current].first = todo[current][1]
  PROVE  Guarded(posts, less)'
<1>1. PICK first \in All :
        /\ first = batch[current].first /\ point[current] = "loop" /\ current \in All
        /\ caller[first] = NULL /\ (first # Dummy => point[first] \in {"entry", "yield"})
        /\ current' = first /\ ret' = "Running" /\ heap' = heap
        /\ point' = [c \in All |-> IF c = first THEN IF first = Dummy THEN "woken" ELSE "body"
                                   ELSE IF c = current THEN "resume" ELSE point[c]]
        /\ callee' = [callee EXCEPT ![current] = first]
        /\ caller' = [caller EXCEPT ![first] = current]
  BY FetchLands
<1>2. ~Misdirected /\ Standing /\ CallChain /\ TypeOK /\ Chained(posts, todo)
  BY NotMisdirected DEF Fetch, IndInv, Guarded
<1>3. \A e : Here(e) => Here(e)'
  BY <1>1 DEF Here, Handles
<1>4. \A d \in All : \A i \in DOMAIN less[d] :
        \E j \in DOMAIN todo[d] : less[d][i] = todo[d][j] /\ less[d][i] # first
  <2>1. 1 \in DOMAIN todo[current]
    <3>1. PICK a \in Nat : a = Len(todo[current]) /\ DOMAIN todo[current] = 1 .. a
      BY <1>1, LenProperties DEF Lists
    <3> QED
      BY <3>1
  <2>2. Once(todo)
    BY DEF Queues, Separate
  <2>3. \A d \in All : \A j \in DOMAIN todo[d] : todo[d][j] = first => d = current /\ j = 1
    BY <1>1, <2>1, <2>2 DEF Once
  <2> QED
    BY <2>3 DEF Remains
<1>5. \A d \in All : \A i \in DOMAIN posts[d] : posts[d][i] # first
  <2>1. 1 \in DOMAIN todo[current] /\ Separate(posts, todo)
    <3>1. PICK a \in Nat : a = Len(todo[current]) /\ DOMAIN todo[current] = 1 .. a
      BY <1>1, LenProperties DEF Lists
    <3> QED
      BY <3>1 DEF Queues
  <2> QED
    BY <1>1, <2>1, ApartLists
<1>6. Present(posts, less)'
  BY <1>3, <1>4 DEF Guarded, Present
<1>7. CASE first = Dummy
  <2>1. Misdirected' /\ point'[current'] = "woken" /\ callee'[current'] \in All
    <3>1. point[Dummy] \in {"loop", "resume"} /\ (Dummy # current => callee[Dummy] # NULL)
      BY <1>1, <1>2, <1>7 DEF Standing
    <3>2. callee'[first] \in All
      BY <1>1, <1>2, <1>7, <3>1 DEF TypeOK
    <3> QED
      BY <1>1, <1>7, <3>2 DEF Misdirected
  <2> QED
    BY <1>6, <2>1 DEF Guarded
<1>8. CASE first # Dummy
  <2>1. first \in Coroutines /\ first \notin Active /\ first # current
    BY <1>1, <1>2, <1>8 DEF All, Active
  <2>2. Active' = Active \cup {first}
    BY <1>1, FetchLands
  <2>3. \A c \in Active \ {Dummy} : caller'[c] = caller[c] /\ caller[c] # first
    BY <1>1, <1>2, <1>8, <2>1 DEF CallChain
  <2>4. ASSUME NEW s \in Active, NEW c \in Active, Upstream(c, s) PROVE Upstream(c, s)'
    <3> SUFFICES ASSUME NEW B \in SUBSET Active', s \in B, Closed(B)' PROVE c \in B
      BY DEF Upstream
    <3>1. PICK A \in SUBSET Active : A = B \ {first}
      BY <2>2
    <3>2. Closed(A)
      BY <2>3, <3>1 DEF Closed
    <3> QED
      BY <2>1, <2>4, <3>1, <3>2 DEF Upstream
  <2>5. point'[current'] = "body" /\ ~Misdirected'
    BY <1>1, <1>8 DEF Misdirected
  <2>6. \A d \in All : \A i \in DOMAIN posts[d] :
          d \in Active /\ (posts[d][i] \in Active => Upstream(posts[d][i], d))
    BY <1>1, <1>2 DEF Chained, Owner
  <2>7. \A d \in All : \A i \in DOMAIN less[d] :
          d \in Active /\ (less[d][i] \in Active => Upstream(less[d][i], d))
    <3>1. \A d \in All : \A i \in DOMAIN todo[d] : d \in Active
      BY <1>2, TodoActive
    <3> QED
      BY <1>2, <1>4, <3>1 DEF Chained
  <2>8. Chained(posts, less)'
    <3>1. \A d \in All : \A i \in DOMAIN posts[d] :
            /\ d \in Active'
            /\ posts[d][i] \in Active' => Upstream(posts[d][i], d)'
      BY <1>5, <2>2, <2>4, <2>6
    <3>2. \A d \in All : \A i \in DOMAIN less[d] :
            less[d][i] \in Active' => Upstream(less[d][i], d)'
      BY <1>4, <2>2, <2>4, <2>7
    <3> QED
      BY <2>5, <3>1, <3>2 DEF Chained, Owner
  <2> QED
    BY <1>6, <2>5, <2>8 DEF Guarded
<1> QED
  BY <1>7, <1>8

(* The coroutine that gives control back leaves the call chain; what it    *)
(* posted is for the _resume that it returns to.                           *)
LEMMA ReturnGuarded ==
  ASSUME IndInv, NEW posts \in Lists, NEW todo \in Lists, Queues(posts, todo), Guarded(posts, todo),
         InUserCode, caller[current] # NULL,
         NEW status \in {"Suspend", "Terminated"}, NEW saved \in {"yield", "done"},
         caller' = IF saved = "yield" THEN [caller EXCEPT ![current] = NULL] ELSE caller,
         Exec(current, caller[current], status, saved),
         UNCHANGED <<heap, callee>>
  PROVE  Guarded(posts, todo)'
<1>1. ~Misdirected /\ Standing /\ CallChain /\ TypeOK /\ Chained(posts, todo)
  BY NotMisdirected DEF InUserCode, IndInv, Guarded
<1>2. PICK self \in Coroutines, to \in All :
        /\ self = current /\ point[self] = "body" /\ self \in Active \ {Dummy}
        /\ to = caller[self] /\ point[to] = "resume" /\ callee[to] = self /\ to # self
        /\ current' = to /\ ret' = status
        /\ point' = [c \in All |-> IF c = to THEN "woken" ELSE IF c = self THEN saved ELSE point[c]]
  BY ReturnLands
<1>3. Active' = Active \ {self}
  BY <1>2, ReturnLeaves
<1>4. \A c \in Active \ {Dummy, self} : caller[c] # self /\ caller'[c] = caller[c]
  BY <1>2, ReturnLeaves
<1>5. self \notin Listed(posts) /\ self \notin Listed(todo)
  BY <1>2, BodyUnlisted
<1>6. \A d \in All : /\ \A i \in DOMAIN posts[d] : posts[d][i] # self
                     /\ \A i \in DOMAIN todo[d] : todo[d][i] # self
  BY <1>2, <1>5 DEF Listed, All
<1>7. \A e : Here(e) /\ e # self => Here(e)'
  BY <1>2 DEF Here, Handles
<1>8. Present(posts, todo)'
  BY <1>6, <1>7 DEF Guarded, Present
<1>9. ASSUME NEW s \in Active, NEW c \in Active, c # self, Upstream(c, s)
      PROVE  Upstream(c, IF s = self THEN to ELSE s)'
  <2>1. ASSUME NEW B \in SUBSET Active', (IF s = self THEN to ELSE s) \in B, Closed(B)' PROVE c \in B
    <3>1. CASE s = self
      <4>1. PICK A \in SUBSET Active : A = B \cup {self}
        BY <1>2, <1>3
      <4>2. Closed(A)
        BY <1>2, <1>3, <1>4, <2>1, <3>1, <4>1 DEF Closed
      <4> QED
        BY <1>9, <3>1, <4>1, <4>2 DEF Upstream
    <3>2. CASE s # self
      <4>1. Closed(B)
        BY <1>3, <1>4, <2>1 DEF Closed
      <4> QED
        BY <1>3, <1>9, <2>1, <3>2, <4>1 DEF Upstream
    <3> QED
      BY <3>1, <3>2
  <2> QED
    BY <2>1 DEF Upstream
<1>10. ~Misdirected' /\ point'[current'] = "woken" /\ callee'[current'] = self /\ self \notin Active'
  BY <1>2, <1>3 DEF Misdirected
<1>11. \A d \in All : \A i \in DOMAIN posts[d] :
         d \in Active /\ (posts[d][i] \in Active => Upstream(posts[d][i], d))
  BY <1>1, <1>2 DEF Chained, Owner
<1>12. \A d \in All : \A i \in DOMAIN todo[d] :
         d \in Active' /\ d # self /\ (todo[d][i] \in Active => Upstream(todo[d][i], d))
  <2>1. \A d \in All : \A i \in DOMAIN todo[d] : d \in Active /\ d # self
    BY <1>1, <1>2, TodoActive DEF Resuming
  <2> QED
    BY <1>1, <1>3, <2>1 DEF Chained
<1>13. \A d \in All : \A i \in DOMAIN posts[d] :
         /\ d \in Active' \/ d = self
         /\ posts[d][i] \in Active' => Upstream(posts[d][i], IF d = self THEN to ELSE d)'
  BY <1>3, <1>6, <1>9, <1>11
<1>14. \A d \in All : \A i \in DOMAIN todo[d] : todo[d][i] \in Active' => Upstream(todo[d][i], d)'
  BY <1>3, <1>6, <1>9, <1>12
<1>15. Chained(posts, todo)'
  BY <1>2, <1>3, <1>10, <1>13, <1>14 DEF Chained, Owner
<1> QED
  BY <1>2, <1>8, <1>10, <1>15 DEF Guarded, All

-----------------------------------------------------------------------------
(* Memory safety.                                                          *)

(* The contract under which memory is safe: no coroutine is handed over    *)
(* while it is pending, a callback returns only in the pass that was asked *)
(* for it, and assert() keeps a coroutine off its own pending list.        *)
Contract ==
  /\ "relink" \notin Uses
  /\ "finish" \notin Uses
  /\ "process" \in Uses => ~NDEBUG

GuardedInv == \E posts, todo \in Lists : Queues(posts, todo) /\ Guarded(posts, todo)

(* No list, no misdirected jump, initially.                                *)
LEMMA InitGuarded == Init => GuardedInv
<1> SUFFICES ASSUME Init PROVE GuardedInv
  OBVIOUS
<1>1. PICK posts \in Lists, todo \in Lists : Queues(posts, todo)
  BY InitListable DEF Listable
<1>2. \A c \in All : next[c] = NULL /\ pendings[c] = Q!Empty /\ batch[c] = Q!Empty
  BY DEF Init
<1>3. ASSUME NEW f \in Lists, NEW d \in All, NEW h, h = Q!Empty, Spells(next, h, f[d])
      PROVE  DOMAIN f[d] = {}
  <2>1. PICK s \in Seq(All) : s = f[d]
    BY DEF Lists
  <2>2. PICK a \in Nat : a = Len(s) /\ DOMAIN s = 1 .. a
    BY LenProperties
  <2>3. a > 0 => 1 \in DOMAIN s
    BY <2>2
  <2>4. a > 0 => s[1] \in All
    BY <2>2, <2>3, ElementOfSeq
  <2>5. ~(a > 0)
    BY <1>3, <2>1, <2>2, <2>4, ConstantsAssumption DEF Spells, Q!Empty
  <2>6. a = 0
    BY <2>5
  <2> QED
    BY <2>1, <2>2, <2>6
<1>4. \A d \in All : DOMAIN posts[d] = {} /\ DOMAIN todo[d] = {}
  BY <1>1, <1>2, <1>3 DEF Queues, Linked
<1>5. point[current] = "body"
  BY DEF Init, All
<1>6. Guarded(posts, todo)
  BY <1>4, <1>5 DEF Guarded, Present, Chained
<1> QED
  BY <1>1, <1>6 DEF GuardedInv

(* A step moves the lists and keeps them guarded.                          *)
LEMMA NextGuarded ==
  ASSUME IndInv, Ended, GuardedInv, Contract, [Next]_vars
  PROVE  GuardedInv'
<1>1. PICK posts \in Lists, todo \in Lists : Queues(posts, todo) /\ Guarded(posts, todo)
  BY DEF GuardedInv
<1>2. TypeOK /\ "relink" \notin Uses
  BY DEF IndInv, Contract
<1>3. ASSUME \E kind \in Faults : Stop(kind) PROVE GuardedInv'
  <2>1. UNCHANGED <<current, caller, point, heap, callee, ret>>
    BY <1>3 DEF Stop, locals
  <2> QED
    BY <1>1, <1>3, <2>1, StopQueues, StillGuarded DEF GuardedInv
<1>4. ASSUME NEW c \in Coroutines, Create(c) PROVE GuardedInv'
  BY <1>1, <1>2, <1>4, CreateQueues, CreateGuarded DEF GuardedInv
<1>5. ASSUME NEW c \in All, Resume(c) PROVE GuardedInv'
  <2>1. CASE Stop("use_after_free")
    BY <1>3, <2>1 DEF Faults
  <2>2. CASE ~Stop("use_after_free")
    <3>1. PICK more : more = [todo EXCEPT ![current] = Append(todo[current], c)]
      OBVIOUS
    <3>2. more \in Lists /\ Queues(posts, more)' /\ Added(todo, current, c, more)
      BY <1>1, <1>2, <1>5, <2>2, <3>1, ResumeQueues
    <3>3. Guarded(posts, more)'
      BY <1>1, <1>5, <2>2, <3>2, ResumeGuarded
    <3> QED
      BY <1>1, <3>2, <3>3 DEF GuardedInv
  <2> QED
    BY <2>1, <2>2
<1>6. ASSUME NEW c \in All, Enqueue(c) PROVE GuardedInv'
  <2>1. CASE ~\E kind \in Faults : Stop(kind)
    <3>1. PICK more : more = [posts EXCEPT ![current] = Append(posts[current], c)]
      OBVIOUS
    <3>2. more \in Lists /\ Queues(more, todo)' /\ Added(posts, current, c, more)
      BY <1>1, <1>2, <1>6, <2>1, <3>1, EnqueueQueues
    <3>3. ~NDEBUG
      BY <1>6 DEF Enqueue, Contract
    <3>4. Guarded(more, todo)'
      BY <1>1, <1>6, <2>1, <3>2, <3>3, EnqueueGuarded
    <3> QED
      BY <1>1, <3>2, <3>4 DEF GuardedInv
  <2> QED
    BY <1>3, <2>1
<1>7. ASSUME NEW c \in All, Process(c) PROVE GuardedInv'
  BY <1>5, <1>6, <1>7 DEF Process
<1>8. CASE Fetch
  <2>1. CASE ~\E kind \in Faults : Stop(kind)
    <3>1. PICK less : less = [todo EXCEPT ![current] = Tail(todo[current])]
      OBVIOUS
    <3>2. Standing
      BY <1>8, NotMisdirected DEF Fetch
    <3>3. /\ less \in Lists /\ Queues(posts, less)' /\ Remains(todo, current, less)
          /\ Len(todo[current]) > 0 /\ batch[current].first = todo[current][1]
      BY <1>1, <1>2, <1>8, <2>1, <3>1, <3>2, FetchQueues
    <3>4. Guarded(posts, less)'
      BY <1>1, <1>8, <2>1, <3>3, FetchGuarded
    <3> QED
      BY <1>1, <3>3, <3>4 DEF GuardedInv
  <2> QED
    BY <1>3, <2>1
<1>9. CASE Settle
  <2>1. CASE ~\E kind \in Faults : Stop(kind)
    <3>1. PICK less, more : /\ less = Emptied(posts, callee[current])
                            /\ more = Prefixed(posts, todo, callee[current], current)
      OBVIOUS
    <3>2. Standing
      BY <1>9, <2>1 DEF Settle, Faults, IndInv, Misdirected
    <3>3. /\ less \in Lists /\ more \in Lists /\ Queues(less, more)'
          /\ Drawn(posts, todo, callee[current], current, more)
          /\ \A d \in All : less[d] = IF d = callee[current] THEN << >> ELSE posts[d]
      BY <1>1, <1>2, <1>9, <2>1, <3>1, <3>2, SettleQueues
    <3>4. Guarded(less, more)'
      BY <1>1, <1>9, <2>1, <3>3, SettleGuarded
    <3> QED
      BY <3>3, <3>4 DEF GuardedInv
  <2> QED
    BY <1>3, <2>1
<1>10. CASE Leave
  BY <1>1, <1>2, <1>10, LeaveQueues, LeaveGuarded DEF GuardedInv
<1>11. CASE Yield
  <2>1. CASE Stop("abort")
    BY <1>3, <2>1 DEF Faults
  <2>2. CASE ~Stop("abort")
    <3>1. /\ InUserCode /\ caller[current] # NULL
          /\ caller' = [caller EXCEPT ![current] = NULL]
          /\ Exec(current, caller[current], "Suspend", "yield")
          /\ UNCHANGED <<heap, next, pendings, callee, batch, owed>>
      BY <1>11, <2>2 DEF Yield, locals
    <3>2. Queues(posts, todo)'
      BY <1>1, <1>2, <3>1, BodyReturns, ReturnQueues
    <3>3. Guarded(posts, todo)'
      BY <1>1, <3>1, ReturnGuarded
    <3> QED
      BY <1>1, <3>2, <3>3 DEF GuardedInv
  <2> QED
    BY <2>1, <2>2
<1>12. CASE Finish
  <2>1. /\ InUserCode /\ caller[current] # NULL /\ caller' = caller
        /\ Exec(current, caller[current], "Terminated", "done")
        /\ UNCHANGED <<heap, next, pendings, callee, batch, owed>>
    BY <1>12, FinishHasCaller DEF Finish, locals
  <2>2. Queues(posts, todo)'
    BY <1>1, <1>2, <2>1, BodyReturns, ReturnQueues
  <2>3. Guarded(posts, todo)'
    BY <1>1, <2>1, ReturnGuarded
  <2> QED
    BY <1>1, <2>2, <2>3 DEF GuardedInv
<1>13. CASE UNCHANGED vars
  <2>1. UNCHANGED <<current, caller, point, heap, callee, ret>>
    BY <1>13 DEF vars, locals
  <2> QED
    BY <1>1, <1>13, <2>1, StutterQueues, StillGuarded DEF GuardedInv
<1> QED
  BY <1>4, <1>5, <1>7, <1>8, <1>9, <1>10, <1>11, <1>12, <1>13 DEF Next

(* The coroutines at the two ends of a queue exist.                        *)
LEMMA EndsThere ==
  ASSUME NEW posts \in Lists, NEW todo \in Lists, Queues(posts, todo), Guarded(posts, todo),
         NEW d \in All
  PROVE  ~Freed(pendings[d].last) /\ ~Freed(batch[d].first)
<1>1. ASSUME NEW f \in Lists, NEW h, Spells(next, h, f[d]), \A i \in DOMAIN f[d] : Here(f[d][i])
      PROVE  ~Freed(h.last) /\ ~Freed(h.first)
  <2>1. PICK s \in Seq(All) : s = f[d]
    BY DEF Lists
  <2>2. PICK a \in Nat : a = Len(s) /\ DOMAIN s = 1 .. a
    BY LenProperties
  <2>3. a = 0 \/ (1 \in DOMAIN s /\ a \in DOMAIN s /\ a > 0)
    BY <2>2
  <2>4. CASE a = 0
    BY <1>1, <2>1, <2>2, <2>4 DEF Spells, Freed
  <2>5. CASE 1 \in DOMAIN s /\ a \in DOMAIN s /\ a > 0
    <3>1. Here(h.first) /\ Here(h.last)
      BY <1>1, <2>1, <2>2, <2>5 DEF Spells
    <3> QED
      BY <3>1 DEF Here, Freed
  <2> QED
    BY <2>3, <2>4, <2>5
<1> QED
  BY <1>1 DEF Queues, Linked, Guarded, Present

(* No step touches a block that is gone: not the one it is called with,    *)
(* not those it finds on a queue, not the one it destroys.                 *)
LEMMA NextSafe ==
  ASSUME IndInv, Ended, GuardedInv, MemorySafe, [Next]_vars
  PROVE  MemorySafe'
<1>1. PICK posts \in Lists, todo \in Lists : Queues(posts, todo) /\ Guarded(posts, todo)
  BY DEF GuardedInv
<1>2. \A d \in All : ~Freed(pendings[d].last) /\ ~Freed(batch[d].first)
  BY <1>1, EndsThere
<1>3. current \in All
  BY DEF IndInv, TypeOK
<1>4. ASSUME InUserCode, NEW c \in Handles PROVE ~Freed(c)
  BY <1>4, EndedIsFreed DEF InUserCode, Handles, Freed
<1>5. ASSUME NEW c \in All, Resume(c) PROVE MemorySafe'
  BY <1>4, <1>5 DEF Resume, MemorySafe
<1>6. ASSUME NEW c \in All, Enqueue(c) PROVE MemorySafe'
  BY <1>2, <1>3, <1>4, <1>6 DEF Enqueue, MemorySafe, Stop
<1>7. CASE Fetch
  BY <1>2, <1>3, <1>7 DEF Fetch, MemorySafe, Stop
<1>8. CASE Settle
  <2>1. point[current] = "woken"
    BY <1>8 DEF Settle
  <2>2. callee[current] \in All
    BY <1>1, <2>1 DEF Guarded
  <2>3. ~Freed(pendings[callee[current]].last)
    BY <1>2, <2>2
  <2>4. Destroys(ret) => ~Freed(Destroyed)
    BY <2>1 DEF Ended, Returned, Destroys, Destroyed, Freed
  <2> QED
    BY <1>8, <2>3, <2>4 DEF Settle, MemorySafe, Stop
<1>9. ASSUME \/ \E c \in Coroutines : Create(c)
             \/ Leave \/ Yield \/ Finish \/ UNCHANGED vars
      PROVE  MemorySafe'
  BY <1>9 DEF Create, Leave, Yield, Finish, Stop, MemorySafe, vars
<1> QED
  BY <1>5, <1>6, <1>7, <1>8, <1>9 DEF Next, Process

(* Both are inductive together with what precedes.                         *)
LEMMA GuardedCorrect ==
  ASSUME Contract
  PROVE  Spec => []GuardedInv
<1>1. Init => GuardedInv
  BY InitGuarded
<1>2. IndInv /\ Ended /\ GuardedInv /\ [Next]_vars => GuardedInv'
  BY NextGuarded
<1>3. "finish" \notin Uses
  BY DEF Contract
<1>4. Spec => []Ended
  BY <1>3, EndedCorrect
<1> QED
  BY <1>1, <1>2, <1>4, Inductive, PTL DEF Spec

(* Under the contract no order of creates, resumes, yields, processes and  *)
(* ends of callbacks makes the scheduler read, write or free the block of  *)
(* a coroutine that is gone: neither the one that the user code names nor  *)
(* the first or the last of a queue nor the one that line 296 destroys.    *)
THEOREM NoUseAfterFree ==
  ASSUME Contract
  PROVE  Spec => []MemorySafe
<1>1. Init => MemorySafe
  BY DEF Init, MemorySafe
<1>2. IndInv /\ Ended /\ GuardedInv /\ MemorySafe /\ [Next]_vars => MemorySafe'
  BY NextSafe
<1>3. "finish" \notin Uses
  BY DEF Contract
<1>4. Spec => []Ended
  BY <1>3, EndedCorrect
<1> QED
  BY <1>1, <1>2, <1>4, Inductive, GuardedCorrect, PTL DEF Spec

(* Under the contract what is pending can be executed: its block and its   *)
(* stack still exist.  Without it line 296 destroys the argument of        *)
(* _resume when a pending coroutine's callback returns.                    *)
THEOREM PendingExists ==
  ASSUME Contract
  PROVE  Spec => []PendingAllocated
<1>1. IndInv /\ GuardedInv => PendingAllocated
  <2> SUFFICES ASSUME GuardedInv, NEW c \in owed PROVE heap[c] = "live"
    BY DEF PendingAllocated
  <2>1. PICK posts \in Lists, todo \in Lists : Queues(posts, todo) /\ Guarded(posts, todo)
    BY DEF GuardedInv
  <2>2. c \in Listed(posts) \cup Listed(todo)
    BY <2>1 DEF Queues, Accounted
  <2>3. Here(c)
    BY <2>1, <2>2 DEF Listed, Guarded, Present
  <2> QED
    BY <2>3 DEF Here
<1> QED
  BY <1>1, Inductive, GuardedCorrect, PTL
=============================================================================
