--------------------- MODULE CoroutineRefinementProofs ---------------------
(***************************************************************************)
(* Proof that the scheduler of coroutine.c implements CoroutineScheduler,  *)
(* for every number of coroutines: read through the mapping of             *)
(* CoroutineRefinement, each step is one of the abstract scheduler's or    *)
(* changes nothing.                                                        *)
(***************************************************************************)
EXTENDS CoroutineRefinement, CoroutineProofs

-----------------------------------------------------------------------------
(* Replacing, pushing and popping the last element of a sequence.          *)

(* What is under the last element.                                         *)
LEMMA UnderTop ==
  ASSUME NEW S, NEW s \in Seq(S), NEW k \in Nat, Len(s) = k + 1
  PROVE  /\ SubSeq(s, 1, k) \in Seq(S) /\ Len(SubSeq(s, 1, k)) = k
         /\ \A i \in 1 .. k : SubSeq(s, 1, k)[i] = s[i]
<1>1. \A i \in 1 .. k : s[i] \in S
  BY ElementOfSeq
<1>2. /\ SubSeq(s, 1, k) \in Seq(S)
      /\ Len(SubSeq(s, 1, k)) = IF 1 <= k THEN k - 1 + 1 ELSE 0
      /\ \A i \in 1 .. k - 1 + 1 : SubSeq(s, 1, k)[i] = s[1 + i - 1]
  BY <1>1, SubSeqProperties
<1>3. k - 1 + 1 = k /\ (~(1 <= k) => k = 0) /\ \A i \in 1 .. k : 1 + i - 1 = i
  OBVIOUS
<1> QED
  BY <1>2, <1>3

(* The last element is replaced.                                           *)
LEMMA TopReplaced ==
  ASSUME NEW S, NEW s \in Seq(S), NEW t \in Seq(S), NEW k \in Nat, Len(s) = k + 1, Len(t) = k + 1,
         \A i \in 1 .. k : t[i] = s[i]
  PROVE  t = Append(SubSeq(s, 1, k), t[k + 1])
<1> DEFINE r == SubSeq(s, 1, k)
<1>1. r \in Seq(S) /\ Len(r) = k /\ \A i \in 1 .. k : r[i] = s[i]
  BY UnderTop
<1> HIDE DEF r
<1>2. PICK e \in S : e = t[k + 1]
  BY ElementOfSeq
<1>3. /\ Append(r, e) \in Seq(S) /\ Len(Append(r, e)) = k + 1
      /\ \A i \in 1 .. k : Append(r, e)[i] = r[i]
      /\ Append(r, e)[k + 1] = e
  BY <1>1, AppendProperties
<1>4. \A i \in 1 .. k + 1 : i \in 1 .. k \/ i = k + 1
  OBVIOUS
<1>5. \A i \in 1 .. k + 1 : t[i] = Append(r, e)[i]
  BY <1>1, <1>2, <1>3, <1>4
<1> QED
  BY <1>1, <1>2, <1>3, <1>5, SeqEqual DEF r

(* The last element is replaced and another one is put on top of it.       *)
LEMMA TopPushed ==
  ASSUME NEW S, NEW s \in Seq(S), NEW t \in Seq(S), NEW k \in Nat, Len(s) = k + 1, Len(t) = k + 2,
         \A i \in 1 .. k : t[i] = s[i]
  PROVE  t = Append(Append(SubSeq(s, 1, k), t[k + 1]), t[k + 2])
<1> DEFINE u == SubSeq(t, 1, k + 1)
<1>1. u \in Seq(S) /\ Len(u) = k + 1 /\ \A i \in 1 .. k + 1 : u[i] = t[i]
  <2>1. k + 1 \in Nat /\ Len(t) = (k + 1) + 1
    OBVIOUS
  <2> QED
    BY <2>1, UnderTop
<1> HIDE DEF u
<1>2. u = Append(SubSeq(s, 1, k), u[k + 1])
  BY <1>1, TopReplaced
<1>3. u[k + 1] = t[k + 1]
  BY <1>1
<1>4. t = Append(SubSeq(t, 1, k + 1), t[(k + 1) + 1])
  BY TopReplaced
<1>5. (k + 1) + 1 = k + 2
  OBVIOUS
<1> QED
  BY <1>1, <1>2, <1>3, <1>4, <1>5 DEF u

(* The last element is taken off and the one under it replaced.            *)
LEMMA TopPopped ==
  ASSUME NEW S, NEW s \in Seq(S), NEW t \in Seq(S), NEW k \in Nat, k > 0,
         Len(s) = k + 1, Len(t) = k, \A i \in 1 .. k - 1 : t[i] = s[i]
  PROVE  t = [SubSeq(s, 1, k) EXCEPT ![k] = t[k]] /\ SubSeq(s, 1, k)[k] = s[k]
<1> DEFINE r == SubSeq(s, 1, k)
<1>1. r \in Seq(S) /\ Len(r) = k /\ \A i \in 1 .. k : r[i] = s[i]
  BY UnderTop
<1> HIDE DEF r
<1>2. k \in 1 .. Len(r) /\ k \in 1 .. k
  BY <1>1
<1>3. PICK e \in S : e = t[k]
  BY <1>2, ElementOfSeq
<1> DEFINE u == [r EXCEPT ![k] = e]
<1>4. u \in Seq(S) /\ Len(u) = k /\ \A i \in 1 .. k : u[i] = IF i = k THEN e ELSE r[i]
  BY <1>1, <1>2, ExceptSeq
<1> HIDE DEF u
<1>5. \A i \in 1 .. k : i \in 1 .. k - 1 \/ i = k
  OBVIOUS
<1>6. \A i \in 1 .. k : t[i] = u[i]
  BY <1>1, <1>3, <1>4, <1>5
<1>7. t = u
  BY <1>4, <1>6, SeqEqual
<1> QED
  BY <1>1, <1>2, <1>3, <1>4, <1>7 DEF r, u

-----------------------------------------------------------------------------
(* The stack.                                                              *)

(* The call chain from Dummy up to the coroutine that runs.                *)
Line(line) ==
  /\ Len(line) > 0 /\ line[1] = Dummy /\ line[Len(line)] = current
  /\ \A i \in 1 .. Len(line) - 1 : caller[line[i + 1]] = line[i]
  /\ \A i \in DOMAIN line : line[i] \in Active
  /\ \A i, j \in DOMAIN line : line[i] = line[j] => i = j

Lined == ~Misdirected => \E line \in Seq(All) : Line(line)

Records == [who : All, busy : BOOLEAN, todo : Seq(All)]

(* The activity of c, in terms of the lists.                               *)
Image(posts, todo, c) ==
  [who  |-> c,
   busy |-> point[c] \in Resuming,
   todo |-> IF point[c] = "woken" THEN posts[callee[c]] \o todo[c] ELSE todo[c]]

(* The abstract state, in terms of the lists and the call chain.           *)
Mirrors(posts, todo, line) ==
  /\ Stack \in Seq(Records) /\ Len(Stack) = Len(line)
  /\ \A i \in 1 .. Len(line) : Stack[i] = Image(posts, todo, line[i])
  /\ Posted = [c \in All |-> IF HandedOn(c) THEN << >> ELSE posts[c]]
  /\ ~Stopped

(* An activity that is not in a _resume is idle.                           *)
LEMMA IdleNow ==
  ASSUME NEW posts, NEW todo, NEW c, NEW r \in Records, r = Image(posts, todo, c),
         point[c] \notin Resuming, todo[c] = << >>
  PROVE  r = Abs!Idle(c)
<1>1. r.who = c /\ r.todo = << >>
  BY DEF Image, Resuming
<1>2. ~r.busy
  BY DEF Image
<1> QED
  BY <1>1, <1>2 DEF Records, Abs!Idle

(* One whose _resume runs or waits is busy with its list.                  *)
LEMMA BusyNow ==
  ASSUME NEW posts, NEW todo, NEW r \in Records, NEW c, r = Image(posts, todo, c),
         point[c] \in {"resume", "loop"}
  PROVE  r = Abs!Busy(c, todo[c])
<1>1. r.who = c /\ r.todo = todo[c]
  BY DEF Image
<1>2. r.busy
  BY DEF Image, Resuming
<1> QED
  BY <1>1, <1>2 DEF Records, Abs!Busy

(* One that its callee has given control back to has the callee's posts to *)
(* run first.                                                              *)
LEMMA WokenNow ==
  ASSUME NEW posts, NEW todo, NEW r \in Records, NEW c, r = Image(posts, todo, c),
         point[c] = "woken"
  PROVE  r = Abs!Busy(c, posts[callee[c]] \o todo[c])
<1>1. r.who = c /\ r.todo = posts[callee[c]] \o todo[c]
  BY DEF Image
<1>2. r.busy
  BY DEF Image, Resuming
<1> QED
  BY <1>1, <1>2 DEF Records, Abs!Busy

(* The same of the next state, the first for the coroutine that then runs. *)
LEMMA IdleNext ==
  ASSUME NEW posts, NEW todo, NEW r \in Records, r = Image(posts, todo, current)',
         point'[current'] \notin Resuming, todo[current'] = << >>
  PROVE  r = Abs!Idle(current')
<1>1. r.who = current' /\ r.todo = << >>
  BY DEF Image, Resuming
<1>2. ~r.busy
  BY DEF Image
<1> QED
  BY <1>1, <1>2 DEF Records, Abs!Idle

(* Busy with its list.                                                     *)
LEMMA BusyNext ==
  ASSUME NEW posts, NEW todo, NEW r \in Records, NEW c, r = Image(posts, todo, c)',
         point'[c] \in {"resume", "loop"}
  PROVE  r = Abs!Busy(c, todo[c])
<1>1. r.who = c /\ r.todo = todo[c]
  BY DEF Image
<1>2. r.busy
  BY DEF Image, Resuming
<1> QED
  BY <1>1, <1>2 DEF Records, Abs!Busy

(* Busy with the callee's posts and its list.                              *)
LEMMA WokenNext ==
  ASSUME NEW posts, NEW todo, NEW r \in Records, NEW c, r = Image(posts, todo, c)',
         point'[c] = "woken"
  PROVE  r = Abs!Busy(c, posts[callee'[c]] \o todo[c])
<1>1. r.who = c /\ r.todo = posts[callee'[c]] \o todo[c]
  BY DEF Image
<1>2. r.busy
  BY DEF Image, Resuming
<1> QED
  BY <1>1, <1>2 DEF Records, Abs!Busy

(* A busy activity is given another list.                                  *)
LEMMA TodoReplaced ==
  ASSUME NEW c, NEW s, NEW t, NEW r \in Records, r = Abs!Busy(c, s)
  PROVE  [r EXCEPT !.todo = t] = Abs!Busy(c, t)
<1>1. [r EXCEPT !.todo = t] = [who |-> r.who, busy |-> r.busy, todo |-> t]
  BY DEF Records
<1>2. r.who = c /\ r.busy = TRUE
  BY DEF Abs!Busy
<1> QED
  BY <1>1, <1>2 DEF Abs!Busy

(* Walk is the sequence that a queue spells.                               *)
LEMMA WalkIsList ==
  ASSUME NEW n \in [All -> All \cup {NULL}], NEW h \in Heads, NEW s \in Seq(All),
         Spells(n, h, s), NEW bound \in Nat, Len(s) <= bound
  PROVE  Q!Walk(n, h, bound) = s
<1> DEFINE w == Q!Walk(n, h, bound)
<1>1. DOMAIN w = DOMAIN s /\ \A i \in DOMAIN s : w[i] = s[i]
  BY WalkSpelled
<1>2. w = [i \in DOMAIN w |-> w[i]]
  BY DEF Q!Walk
<1> HIDE DEF w
<1>3. s = [i \in DOMAIN s |-> s[i]]
  BY LenProperties
<1> QED
  BY <1>1, <1>2, <1>3 DEF w

(* What the links lead through is the list.                                *)
LEMMA QueueIsList ==
  ASSUME IsFiniteSet(Coroutines), TypeOK, NEW posts \in Lists, NEW todo \in Lists,
         Queues(posts, todo), NEW d \in All
  PROVE  Queue(pendings[d]) = posts[d] /\ Queue(batch[d]) = todo[d]
<1> DEFINE bound == Cardinality(All)
<1>1. PICK s \in Seq(All), t \in Seq(All) : s = posts[d] /\ t = todo[d]
  BY DEF Lists
<1>2. Spells(next, pendings[d], s) /\ Spells(next, batch[d], t)
  BY <1>1 DEF Queues, Linked
<1>3. (\A i, j \in DOMAIN s : s[i] = s[j] => i = j) /\ (\A i, j \in DOMAIN t : t[i] = t[j] => i = j)
  BY <1>1 DEF Queues, Separate, Once
<1>4. bound \in Nat /\ Len(s) <= bound /\ Len(t) <= bound
  BY <1>3, ListFits
<1>5. pendings[d] \in Heads /\ batch[d] \in Heads /\ next \in [All -> All \cup {NULL}]
  BY DEF TypeOK
<1> HIDE DEF bound
<1>6. Q!Walk(next, pendings[d], bound) = s
  BY <1>2, <1>4, <1>5, WalkIsList
<1>7. Q!Walk(next, batch[d], bound) = t
  BY <1>2, <1>4, <1>5, WalkIsList
<1> QED
  BY <1>1, <1>6, <1>7 DEF Queue, bound

(* A sequence read backwards.                                              *)
LEMMA ReverseProperties ==
  ASSUME NEW S, NEW s \in Seq(S), NEW n \in Nat, Len(s) = n
  PROVE  /\ Reverse(s) \in Seq(S) /\ Len(Reverse(s)) = n
         /\ \A i \in 1 .. n : Reverse(s)[i] = s[n - i + 1] /\ n - i + 1 \in 1 .. n
<1>1. \A i \in 1 .. n : n - i + 1 \in 1 .. n
  OBVIOUS
<1>2. \A i \in 1 .. n : s[n - i + 1] \in S
  BY <1>1, ElementOfSeq
<1> DEFINE r == [i \in 1 .. n |-> s[n - i + 1]]
<1>3. r \in [1 .. n -> S]
  BY <1>2
<1>4. r \in Seq(S)
  BY <1>3, SeqDef
<1>5. Reverse(s) = r
  BY DEF Reverse
<1>6. DOMAIN r = 1 .. n
  OBVIOUS
<1>7. \A i \in 1 .. n : r[i] = s[n - i + 1]
  OBVIOUS
<1> HIDE DEF r
<1>8. Len(r) = n
  BY <1>4, <1>6, LenProperties
<1> QED
  BY <1>1, <1>4, <1>5, <1>7, <1>8

(* The stack that the caller links give is the call chain.                 *)
LEMMA ChainIsLine ==
  ASSUME IsFiniteSet(Coroutines), TypeOK, caller[Dummy] = NULL,
         NEW line \in Seq(All), Line(line)
  PROVE  Chain = line
<1>1. PICK n \in Nat : n = Len(line) /\ n > 0 /\ DOMAIN line = 1 .. n
  BY LenProperties DEF Line
<1> DEFINE back == Reverse(line)
<1>2. /\ back \in Seq(All) /\ Len(back) = n
      /\ \A i \in 1 .. n : back[i] = line[n - i + 1] /\ n - i + 1 \in 1 .. n
  BY <1>1, ReverseProperties
<1>3. Reverse(back) \in Seq(All) /\ Len(Reverse(back)) = n
      /\ \A i \in 1 .. n : Reverse(back)[i] = back[n - i + 1] /\ n - i + 1 \in 1 .. n
  BY <1>2, ReverseProperties
<1> HIDE DEF back
<1>4. Reverse(back) = line
  <2>1. \A i \in 1 .. n : n - (n - i + 1) + 1 = i
    OBVIOUS
  <2>2. \A i \in 1 .. n : Reverse(back)[i] = line[i]
    BY <1>2, <1>3, <2>1
  <2> QED
    BY <1>1, <1>3, <2>2, SeqEqual
<1> DEFINE head == [first |-> current, last |-> Dummy]
<1>5. Spells(caller, head, back)
  <2>1. back[1] = line[n] /\ back[n] = line[1]
    <3>1. 1 \in 1 .. n /\ n \in 1 .. n /\ n - 1 + 1 = n /\ n - n + 1 = 1
      BY <1>1
    <3> QED
      BY <1>2, <3>1
  <2>2. ASSUME NEW i \in 1 .. n - 1 PROVE caller[back[i]] = back[i + 1]
    <3>1. PICK j \in 1 .. n - 1 : j = n - i
      BY <1>1
    <3>2. i \in 1 .. n /\ i + 1 \in 1 .. n /\ n - i + 1 = j + 1 /\ n - (i + 1) + 1 = j
      BY <3>1
    <3>3. back[i] = line[j + 1] /\ back[i + 1] = line[j]
      BY <1>2, <3>2
    <3>4. caller[line[j + 1]] = line[j]
      BY <1>1, <3>1 DEF Line
    <3> QED
      BY <3>3, <3>4
  <2>3. line[1] = Dummy /\ line[n] = current
    BY <1>1 DEF Line
  <2> QED
    BY <1>1, <1>2, <2>1, <2>2, <2>3 DEF Spells
<1> DEFINE bound == Cardinality(All)
<1>6. bound \in Nat /\ Len(back) <= bound
  <2>1. \A i, j \in DOMAIN line : line[i] = line[j] => i = j
    BY DEF Line
  <2> QED
    BY <1>1, <1>2, <2>1, ListFits
<1>7. head \in Heads /\ caller \in [All -> All \cup {NULL}]
  BY DEF TypeOK, Heads, All
<1>8. Chain = Reverse(Q!Walk(caller, head, bound))
  BY DEF Chain
<1> HIDE DEF head, bound
<1>9. Q!Walk(caller, head, bound) = back
  BY <1>2, <1>5, <1>6, <1>7, WalkIsList
<1> QED
  BY <1>4, <1>8, <1>9

(* While a coroutine runs, the one under it waits in its _resume.          *)
LEMMA Beneath ==
  ASSUME IndInv, ~Misdirected, NEW line \in Seq(All), Line(line)
  PROVE  \A i \in 1 .. Len(line) - 1 :
           /\ line[i] \in All /\ point[line[i]] = "resume" /\ line[i] # current
           /\ callee[line[i]] = line[i + 1]
<1> SUFFICES ASSUME NEW i \in 1 .. Len(line) - 1
             PROVE  /\ line[i] \in All /\ point[line[i]] = "resume" /\ line[i] # current
                    /\ callee[line[i]] = line[i + 1]
  OBVIOUS
<1>1. PICK n \in Nat : n = Len(line) /\ DOMAIN line = 1 .. n /\ n > 0
  BY LenProperties DEF Line
<1>2. i \in 1 .. n /\ i + 1 \in 1 .. n /\ n \in 1 .. n /\ 1 \in 1 .. n /\ i # n /\ i + 1 # 1
  BY <1>1
<1>3. line[i] \in All /\ line[i + 1] \in Active
  BY <1>1, <1>2, ElementOfSeq DEF Line
<1>4. line[i] # current /\ line[i + 1] # Dummy /\ caller[line[i + 1]] = line[i]
  BY <1>1, <1>2 DEF Line
<1>5. CallChain
  BY DEF IndInv
<1> QED
  BY <1>3, <1>4, <1>5 DEF CallChain

(* The mapped state is that of the lists and the call chain.               *)
LEMMA Reflects ==
  ASSUME IsFiniteSet(Coroutines), IndInv, ~Stopped, NEW posts \in Lists, NEW todo \in Lists,
         Queues(posts, todo), NEW line \in Seq(All), Line(line)
  PROVE  Mirrors(posts, todo, line)
<1>1. TypeOK /\ Standing /\ ~Misdirected
  BY DEF IndInv, Stopped
<1>2. PICK n \in Nat : n = Len(line) /\ DOMAIN line = 1 .. n
  BY LenProperties
<1>3. \A i \in 1 .. n : line[i] \in All
  BY <1>2, ElementOfSeq
<1>4. \A d \in All : Queue(pendings[d]) = posts[d] /\ Queue(batch[d]) = todo[d]
  BY <1>1, QueueIsList
<1>5. ASSUME NEW c \in All
      PROVE  Activity(c) = Image(posts, todo, c) /\ Image(posts, todo, c) \in Records
  <2>1. point[c] = "woken" => callee[c] \in All
    BY <1>1 DEF Standing, TypeOK
  <2>2. Activity(c) = Image(posts, todo, c)
    BY <1>4, <2>1 DEF Activity, Image, Resuming
  <2>3. posts[c] \in Seq(All) /\ todo[c] \in Seq(All)
    BY DEF Lists
  <2>4. point[c] = "woken" => posts[callee[c]] \o todo[c] \in Seq(All)
    BY <2>1, <2>3, ConcatProperties DEF Lists
  <2> QED
    BY <2>2, <2>3, <2>4 DEF Image, Records
<1>6. Stack = [i \in 1 .. n |-> Activity(line[i])]
  <2>1. Chain = line
    BY <1>1, ChainIsLine DEF Standing
  <2> QED
    BY <1>2, <2>1 DEF Stack
<1> DEFINE stack == [i \in 1 .. n |-> Image(posts, todo, line[i])]
<1>7. Stack = stack
  BY <1>3, <1>5, <1>6
<1>8. stack \in [1 .. n -> Records] /\ DOMAIN stack = 1 .. n
  BY <1>3, <1>5
<1>9. \A i \in 1 .. n : stack[i] = Image(posts, todo, line[i])
  OBVIOUS
<1> HIDE DEF stack
<1>10. stack \in Seq(Records) /\ Len(stack) = n
  <2>1. stack \in Seq(Records)
    BY <1>8, SeqDef
  <2> QED
    BY <1>8, <2>1, LenProperties
<1>11. Posted = [c \in All |-> IF HandedOn(c) THEN << >> ELSE posts[c]]
  BY <1>4 DEF Posted
<1> QED
  BY <1>2, <1>7, <1>9, <1>10, <1>11 DEF Mirrors

(* And so is that of the next state.                                       *)
LEMMA ReflectsNext ==
  ASSUME IsFiniteSet(Coroutines)
  PROVE  \A posts, todo \in Lists : \A line \in Seq(All) :
           IndInv' /\ ~Stopped' /\ Queues(posts, todo)' /\ Line(line)' => Mirrors(posts, todo, line)'
<1>1. \A posts, todo \in Lists : \A line \in Seq(All) :
        IndInv /\ ~Stopped /\ Queues(posts, todo) /\ Line(line) => Mirrors(posts, todo, line)
  BY Reflects
<1>2. (\A posts, todo \in Lists : \A line \in Seq(All) :
         IndInv /\ ~Stopped /\ Queues(posts, todo) /\ Line(line) => Mirrors(posts, todo, line))'
  BY <1>1, PTL
<1> QED
  BY <1>2

-----------------------------------------------------------------------------
(* How the call chain moves.                                               *)

(* A step that leaves the callers alone leaves the chain.                  *)
LEMMA LineKept ==
  ASSUME NEW line \in Seq(All), Line(line), UNCHANGED <<current, caller>>, Active' = Active
  PROVE  Line(line)'
BY DEF Line

(* A coroutine that is entered comes on top.                               *)
LEMMA LineGrows ==
  ASSUME IndInv, Fetch, ~\E kind \in Faults : Stop(kind),
         NEW line \in Seq(All), Line(line),
         NEW first \in All, first = batch[current].first, first # Dummy
  PROVE  /\ Append(line, first) \in Seq(All) /\ Line(Append(line, first))'
         /\ \A i \in DOMAIN line : line[i] # first
<1>1. /\ current' = first /\ caller' = [caller EXCEPT ![first] = current]
      /\ caller[first] = NULL /\ current \in All /\ Active' = Active \cup {first}
  BY FetchLands
<1>2. PICK n \in Nat : n = Len(line) /\ DOMAIN line = 1 .. n /\ n > 0
  BY LenProperties DEF Line
<1>3. first \notin Active
  BY <1>1 DEF Active
<1>4. \A i \in 1 .. n : line[i] \in All /\ line[i] \in Active /\ line[i] # first
  BY <1>2, <1>3, ElementOfSeq DEF Line
<1> DEFINE longer == Append(line, first)
<1>5. /\ longer \in Seq(All) /\ Len(longer) = n + 1 /\ longer[n + 1] = first
      /\ \A i \in 1 .. n : longer[i] = line[i]
  BY <1>2, AppendProperties
<1> HIDE DEF longer
<1>6. DOMAIN longer = 1 .. n + 1
  BY <1>5, LenProperties
<1>7. \A i \in 1 .. n + 1 : i \in 1 .. n \/ i = n + 1
  OBVIOUS
<1>8. \A i \in 1 .. n : i = n \/ i \in 1 .. n - 1
  OBVIOUS
<1>9. line[1] = Dummy /\ line[n] = current /\ 1 \in 1 .. n /\ n \in 1 .. n
  BY <1>2 DEF Line
<1>10. \A i \in 1 .. n : caller'[longer[i + 1]] = longer[i]
  <2> SUFFICES ASSUME NEW i \in 1 .. n PROVE caller'[longer[i + 1]] = longer[i]
    OBVIOUS
  <2>1. CASE i = n
    BY <1>1, <1>5, <1>9, <2>1 DEF IndInv, TypeOK
  <2>2. CASE i \in 1 .. n - 1
    <3>1. i \in 1 .. n /\ i + 1 \in 1 .. n
      BY <2>2
    <3>2. caller[line[i + 1]] = line[i]
      BY <1>2, <2>2 DEF Line
    <3> QED
      BY <1>1, <1>4, <1>5, <3>1, <3>2 DEF IndInv, TypeOK
  <2> QED
    BY <1>8, <2>1, <2>2
<1>11. \A i, j \in 1 .. n + 1 : longer[i] = longer[j] => i = j
  BY <1>2, <1>4, <1>5, <1>7 DEF Line
<1>12. \A i \in 1 .. n + 1 : longer[i] \in Active'
  BY <1>1, <1>4, <1>5, <1>7
<1>13. Line(longer)'
  <2>1. (n + 1) - 1 = n /\ n + 1 > 0
    BY <1>2
  <2> QED
    BY <1>1, <1>5, <1>6, <1>9, <1>10, <1>11, <1>12, <2>1 DEF Line
<1> QED
  BY <1>2, <1>4, <1>5, <1>13 DEF longer

(* A coroutine that gives control back comes off.                          *)
LEMMA LineShrinks ==
  ASSUME IndInv, InUserCode, caller[current] # NULL,
         NEW status, NEW saved \in {"yield", "done"},
         caller' = IF saved = "yield" THEN [caller EXCEPT ![current] = NULL] ELSE caller,
         Exec(current, caller[current], status, saved),
         NEW line \in Seq(All), Line(line), NEW k \in Nat, Len(line) = k + 1
  PROVE  /\ SubSeq(line, 1, k) \in Seq(All) /\ Line(SubSeq(line, 1, k))'
         /\ k > 0 /\ line[k] = caller[current] /\ Len(SubSeq(line, 1, k)) = k
         /\ \A i \in 1 .. k : SubSeq(line, 1, k)[i] = line[i]
<1> DEFINE shorter == SubSeq(line, 1, k)
<1>1. shorter \in Seq(All) /\ Len(shorter) = k /\ \A i \in 1 .. k : shorter[i] = line[i]
  BY UnderTop
<1>2. DOMAIN shorter = 1 .. k /\ DOMAIN line = 1 .. k + 1
  BY <1>1, LenProperties
<1>3. current' = caller[current] /\ current \in Active \ {Dummy}
  BY ReturnLands
<1>4. /\ Active' = Active \ {current}
      /\ \A c \in Active \ {Dummy, current} : caller'[c] = caller[c]
  BY ReturnLeaves
<1> HIDE DEF shorter
<1>5. line[1] = Dummy /\ line[k + 1] = current /\ \A i \in 1 .. k : caller[line[i + 1]] = line[i]
  BY DEF Line
<1>6. k > 0
  BY <1>3, <1>5
<1>7. line[k] = caller[current] /\ 1 \in 1 .. k /\ k \in 1 .. k
  BY <1>5, <1>6
<1>8. \A i \in 1 .. k + 1 : line[i] \in Active /\ (i # 1 => line[i] # Dummy) /\ (i # k + 1 => line[i] # current)
  BY <1>2, <1>5 DEF Line
<1>9. \A i \in 1 .. k - 1 : caller'[shorter[i + 1]] = shorter[i]
  <2> SUFFICES ASSUME NEW i \in 1 .. k - 1 PROVE caller'[shorter[i + 1]] = shorter[i]
    OBVIOUS
  <2>1. i \in 1 .. k /\ i + 1 \in 1 .. k /\ i + 1 # 1 /\ i + 1 # k + 1 /\ i + 1 \in 1 .. k + 1
    OBVIOUS
  <2>2. line[i + 1] \in Active \ {Dummy, current}
    BY <1>8, <2>1
  <2> QED
    BY <1>1, <1>4, <1>5, <2>1, <2>2
<1>10. \A i \in 1 .. k : i \in 1 .. k + 1 /\ i # k + 1
  OBVIOUS
<1>11. \A i \in 1 .. k : shorter[i] \in Active'
  BY <1>1, <1>4, <1>8, <1>10
<1>12. \A i, j \in 1 .. k : shorter[i] = shorter[j] => i = j
  BY <1>1, <1>2, <1>10 DEF Line
<1>13. Line(shorter)'
  BY <1>1, <1>2, <1>3, <1>5, <1>6, <1>7, <1>9, <1>11, <1>12 DEF Line
<1> QED
  BY <1>1, <1>6, <1>7, <1>13 DEF shorter

-----------------------------------------------------------------------------
(* The steps.                                                              *)

(* The activities whose _resume waits look the same after a step that      *)
(* leaves their lists alone.                                               *)
LEMMA UnderSame ==
  ASSUME NEW posts, NEW todo, NEW line, Mirrors(posts, todo, line),
         NEW posted, NEW left, NEW chain, Mirrors(posted, left, chain)',
         NEW k \in Nat, k <= Len(line), k <= Len(chain), Len(line) \in Nat, Len(chain) \in Nat,
         \A i \in 1 .. k : /\ chain[i] = line[i] /\ left[line[i]] = todo[line[i]]
                           /\ point[line[i]] = "resume" /\ point'[line[i]] = "resume"
  PROVE  \A i \in 1 .. k : Stack'[i] = Stack[i]
<1> SUFFICES ASSUME NEW i \in 1 .. k PROVE Stack'[i] = Stack[i]
  OBVIOUS
<1>1. i \in 1 .. Len(line) /\ i \in 1 .. Len(chain)
  OBVIOUS
<1>2. Stack[i] = Image(posts, todo, line[i]) /\ Stack'[i] = Image(posted, left, line[i])'
  BY <1>1 DEF Mirrors
<1> QED
  BY <1>2 DEF Image

(* The running activity, and those under it.                               *)
LEMMA TopIs ==
  ASSUME IndInv, NEW posts \in Lists, NEW todo \in Lists, NEW line \in Seq(All), Line(line),
         Mirrors(posts, todo, line)
  PROVE  \E k \in Nat :
           /\ Len(line) = k + 1 /\ DOMAIN line = 1 .. k + 1 /\ Len(Stack) = k + 1
           /\ line[k + 1] = current /\ current \in All
           /\ Abs!top = Image(posts, todo, current) /\ Abs!below = SubSeq(Stack, 1, k)
           /\ \A i \in 1 .. k : /\ line[i] \in All /\ point[line[i]] = "resume"
                                /\ line[i] # current
           /\ DOMAIN Stack = 1 .. k + 1
           /\ \A i \in 1 .. k + 1 : Stack[i] = Image(posts, todo, line[i])
<1>1. PICK n \in Nat : n = Len(line) /\ DOMAIN line = 1 .. n /\ n > 0
  BY LenProperties DEF Line
<1>2. PICK k \in Nat : n = k + 1 /\ n - 1 = k
  <2>1. n - 1 \in Nat /\ n = (n - 1) + 1
    BY <1>1
  <2> QED
    BY <2>1
<1>3. line[k + 1] = current /\ current \in All
  BY <1>1, <1>2 DEF Line, IndInv, TypeOK
<1>4. Len(Stack) = k + 1 /\ \A i \in 1 .. k + 1 : Stack[i] = Image(posts, todo, line[i])
  BY <1>1, <1>2 DEF Mirrors
<1>5. Abs!top = Image(posts, todo, current) /\ Abs!below = SubSeq(Stack, 1, k)
  <2>1. k + 1 \in 1 .. k + 1 /\ k + 1 - 1 = k
    OBVIOUS
  <2> QED
    BY <1>3, <1>4, <2>1 DEF Abs!top, Abs!below, Abs!Last, Abs!Front
<1>6. \A i \in 1 .. k : line[i] \in All /\ point[line[i]] = "resume" /\ line[i] # current
  BY <1>1, <1>2, Beneath DEF Mirrors, Stopped
<1>7. DOMAIN Stack = 1 .. k + 1
  BY <1>4, LenProperties DEF Mirrors
<1> QED
  BY <1>1, <1>2, <1>3, <1>4, <1>5, <1>6, <1>7

(* A list without elements.                                                *)
LEMMA NoElements ==
  ASSUME NEW f \in Lists, NEW d \in All, Len(f[d]) = 0
  PROVE  f[d] = << >>
<1>1. f[d] \in Seq(All)
  BY DEF Lists
<1> QED
  BY <1>1, EmptySeq

(* What user code may hand over.                                           *)
LEMMA NamesHandle ==
  ASSUME IndInv, NEW posts \in Lists, NEW todo \in Lists, Queues(posts, todo),
         NEW line \in Seq(All), Line(line), Mirrors(posts, todo, line),
         InUserCode, NEW c \in Handles, c \notin owed
  PROVE  Abs!Names(c)
<1>1. PICK k \in Nat :
        /\ Len(line) = k + 1 /\ line[k + 1] = current /\ current \in All
        /\ Abs!top = Image(posts, todo, current)
        /\ \A i \in 1 .. k : line[i] \in All /\ point[line[i]] = "resume"
        /\ DOMAIN Stack = 1 .. k + 1
        /\ \A i \in 1 .. k + 1 : Stack[i] = Image(posts, todo, line[i])
  BY TopIs
<1>2. point[current] = "body" /\ c \in All /\ point[c] \notin {"none", "done"}
  BY DEF InUserCode, Handles
<1>3. ~Abs!top.busy
  BY <1>1, <1>2 DEF Image, Resuming
<1>4. /\ \A d \in All : \A i \in DOMAIN posts[d] : posts[d][i] # c
      /\ \A d \in All : \A i \in DOMAIN todo[d] : todo[d][i] # c
  BY <1>2, UnlistedInBody, NotListed
<1>5. \A d \in Abs!All : c \notin Abs!Listed(Posted[d])
  <2>1. Posted = [d \in All |-> posts[d]]
    BY <1>2 DEF Mirrors, HandedOn
  <2> QED
    BY <1>4, <2>1 DEF Abs!Listed, Abs!All, All
<1>6. \A i \in DOMAIN Stack : c \notin Abs!Listed(Stack[i].todo)
  <2> SUFFICES ASSUME NEW i \in 1 .. k + 1 PROVE c \notin Abs!Listed(Stack[i].todo)
    BY <1>1
  <2>1. i \in 1 .. k \/ i = k + 1
    OBVIOUS
  <2>2. line[i] \in All /\ point[line[i]] \in {"resume", "body"}
    BY <1>1, <1>2, <2>1
  <2>3. Stack[i].todo = todo[line[i]]
    <3>1. Stack[i] = Image(posts, todo, line[i])
      BY <1>1
    <3> QED
      BY <2>2, <3>1 DEF Image
  <2> QED
    BY <1>4, <2>2, <2>3 DEF Abs!Listed
<1>7. c \notin Abs!Waiting
  BY <1>5, <1>6 DEF Abs!Waiting
<1>8. ~Stopped /\ c \in Born \ Done
  BY <1>2 DEF Mirrors, Born, Done
<1> QED
  BY <1>3, <1>7, <1>8 DEF Abs!Names

(* A call of _resume is a Resume: the running activity becomes busy with   *)
(* its argument.                                                           *)
LEMMA ResumeImplements ==
  ASSUME IsFiniteSet(Coroutines), "relink" \notin Uses, IndInv, IndInv',
         NEW posts \in Lists, NEW todo \in Lists, Queues(posts, todo),
         NEW line \in Seq(All), Line(line), Mirrors(posts, todo, line),
         NEW c \in All, Resume(c), ~Stop("use_after_free")
  PROVE  Abs!Resume(c) /\ Line(line)'
<1>1. /\ InUserCode /\ c \in Handles /\ c \notin owed /\ point[current] = "body"
      /\ point' = [point EXCEPT ![current] = "loop"]
      /\ UNCHANGED <<current, caller, fault>>
  BY DEF Resume, InUserCode, MayHandOver
<1>2. PICK k \in Nat :
        /\ Len(line) = k + 1 /\ line[k + 1] = current /\ current \in All /\ Len(Stack) = k + 1
        /\ Abs!top = Image(posts, todo, current) /\ Abs!below = SubSeq(Stack, 1, k)
        /\ \A i \in 1 .. k : line[i] \in All /\ point[line[i]] = "resume" /\ line[i] # current
  BY TopIs
<1>3. Abs!Names(c)
  BY <1>1, NamesHandle
<1>4. PICK more : more = [todo EXCEPT ![current] = Append(todo[current], c)]
  OBVIOUS
<1>5. more \in Lists /\ Queues(posts, more)'
  BY <1>4, ResumeQueues DEF IndInv
<1>6. more[current] = <<c>> /\ \A d \in All : d # current => more[d] = todo[d]
  <2>1. todo[current] = << >>
    <3>1. Len(todo[current]) = 0
      BY <1>1, <1>2 DEF Queues, Unused
    <3> QED
      BY <1>2, <3>1, NoElements
  <2>2. Append(<< >>, c) = <<c>>
    OBVIOUS
  <2> QED
    BY <1>2, <1>4, <2>1, <2>2 DEF Lists
<1>7. point'[current] = "loop" /\ \A d \in All : d # current => point'[d] = point[d]
  BY <1>1, <1>2 DEF IndInv, TypeOK
<1>8. Line(line)'
  <2>1. Active' = Active
    BY <1>1, <1>2 DEF IndInv, TypeOK, Active, All
  <2> QED
    BY <1>1, <2>1, LineKept
<1>9. ~Stopped'
  BY <1>1, <1>7 DEF Stopped, Misdirected, InUserCode
<1>10. Mirrors(posts, more, line)'
  BY <1>5, <1>8, <1>9, ReflectsNext
<1>11. /\ Len(Stack') = k + 1 /\ Stack' \in Seq(Records)
       /\ \A i \in 1 .. k + 1 : Stack'[i] = Image(posts, more, line[i])'
  BY <1>2, <1>10 DEF Mirrors
<1>12. Stack'[k + 1] = Abs!Busy(Abs!top.who, <<c>>)
  <2>1. Stack'[k + 1] = Image(posts, more, current)'
    BY <1>1, <1>2, <1>11
  <2>2. point'[current] \in Resuming
    BY <1>7 DEF Resuming
  <2>3. Image(posts, more, current)' = [who |-> current, busy |-> TRUE, todo |-> <<c>>]
    BY <1>1, <1>6, <1>7, <2>2 DEF Image
  <2>4. Abs!top.who = current
    BY <1>2 DEF Image
  <2> QED
    BY <2>1, <2>3, <2>4 DEF Abs!Busy
<1>13. \A i \in 1 .. k : Stack'[i] = Stack[i]
  BY <1>2, <1>6, <1>7, <1>10, UnderSame
<1>14. Stack' = Append(Abs!below, Stack'[k + 1])
  <2>1. Stack \in Seq(Records)
    BY DEF Mirrors
  <2> QED
    BY <1>2, <1>11, <1>13, <2>1, TopReplaced
<1>15. Posted' = Posted
  BY <1>1, <1>7, <1>10 DEF Mirrors, HandedOn
<1>16. Born' = Born /\ Done' = Done /\ Stopped' = Stopped
  <2>1. \A d \in All : (point'[d] = "none" <=> point[d] = "none") /\ (point'[d] = "done" <=> point[d] = "done")
    BY <1>1, <1>7
  <2>2. Stopped' = Stopped
    BY <1>9, Zenon DEF Mirrors, Stopped
  <2> QED
    BY <2>1, <2>2 DEF Born, Done
<1> QED
  BY <1>3, <1>8, <1>12, <1>14, <1>15, <1>16 DEF Abs!Resume

(* xcp_coroutine_process in a coroutine is a Post.                         *)
LEMMA EnqueueImplements ==
  ASSUME IsFiniteSet(Coroutines), "relink" \notin Uses, IndInv, IndInv',
         NEW posts \in Lists, NEW todo \in Lists, Queues(posts, todo),
         NEW line \in Seq(All), Line(line), Mirrors(posts, todo, line),
         NEW c \in All, Enqueue(c), ~\E kind \in Faults : Stop(kind)
  PROVE  Abs!Post(c) /\ Line(line)'
<1>1. /\ InUserCode /\ c \in Handles /\ c \notin owed /\ point[current] = "body"
      /\ caller[current] # NULL
      /\ UNCHANGED <<current, caller, point, heap, callee, ret, fault>>
  BY DEF Enqueue, InUserCode, MayHandOver, Faults, locals
<1>2. PICK k \in Nat :
        /\ Len(line) = k + 1 /\ line[k + 1] = current /\ current \in All /\ Len(Stack) = k + 1
        /\ Abs!top = Image(posts, todo, current)
        /\ \A i \in 1 .. k + 1 : Stack[i] = Image(posts, todo, line[i])
        /\ \A i \in 1 .. k : line[i] \in All /\ point[line[i]] = "resume"
  BY TopIs
<1>3. Abs!Names(c)
  BY <1>1, NamesHandle
<1>4. PICK more : more = [posts EXCEPT ![current] = Append(posts[current], c)]
  OBVIOUS
<1>5. more \in Lists /\ Queues(more, todo)'
  BY <1>4, EnqueueQueues DEF IndInv
<1>6. \A d \in All : more[d] = IF d = current THEN Append(posts[current], c) ELSE posts[d]
  BY <1>2, <1>4 DEF Lists
<1>7. Line(line)'
  <2>1. Active' = Active
    BY <1>1 DEF Active
  <2> QED
    BY <1>1, <2>1, LineKept
<1>8. ~Stopped' /\ Stopped' = Stopped /\ Born' = Born /\ Done' = Done
  BY <1>1 DEF Stopped, Misdirected, Born, Done, Mirrors
<1>9. Mirrors(more, todo, line)'
  BY <1>5, <1>7, <1>8, ReflectsNext
<1>10. Len(Stack') = k + 1 /\ Stack' \in Seq(Records) /\ Stack \in Seq(Records)
  BY <1>2, <1>9 DEF Mirrors
<1>11. \A i \in 1 .. k + 1 : Stack'[i] = Stack[i]
  <2> SUFFICES ASSUME NEW i \in 1 .. k + 1 PROVE Stack'[i] = Stack[i]
    OBVIOUS
  <2>1. i \in 1 .. k \/ i = k + 1
    OBVIOUS
  <2>2. line[i] \in All /\ point[line[i]] # "woken"
    BY <1>1, <1>2, <2>1
  <2>3. Stack'[i] = Image(more, todo, line[i])' /\ Stack[i] = Image(posts, todo, line[i])
    BY <1>2, <1>9 DEF Mirrors
  <2> QED
    BY <1>1, <2>2, <2>3 DEF Image
<1>12. Stack' = Stack
  BY <1>2, <1>10, <1>11, SeqEqual
<1>13. Posted' = [Posted EXCEPT ![Abs!top.who] = Append(Posted[Abs!top.who], c)]
  <2>1. Posted = [d \in All |-> posts[d]] /\ Posted' = [d \in All |-> more[d]]
    BY <1>1, <1>9 DEF Mirrors, HandedOn
  <2>2. Abs!top.who = current
    BY <1>2 DEF Image
  <2> QED
    BY <1>2, <1>6, <2>1, <2>2
<1>14. Len(Stack) > 1
  <2>1. caller[Dummy] = NULL
    BY NotMisdirected DEF InUserCode, Standing, Enqueue
  <2>2. k # 0
    BY <1>1, <1>2, <2>1 DEF Line
  <2> QED
    BY <1>2, <2>2
<1> QED
  BY <1>3, <1>7, <1>8, <1>12, <1>13, <1>14 DEF Abs!Post

(* A create is a Create.                                                   *)
LEMMA CreateImplements ==
  ASSUME IsFiniteSet(Coroutines), IndInv, IndInv',
         NEW posts \in Lists, NEW todo \in Lists, Queues(posts, todo),
         NEW line \in Seq(All), Line(line), Mirrors(posts, todo, line),
         NEW c \in Coroutines, Create(c)
  PROVE  Abs!Create(c) /\ Line(line)'
<1>1. /\ point[c] = "none" /\ point[current] = "body" /\ c \in All /\ fault = "none"
      /\ point' = [point EXCEPT ![c] = "entry"] /\ caller' = [caller EXCEPT ![c] = NULL]
      /\ UNCHANGED <<current, callee, fault>>
  BY DEF Create, InUserCode, locals, All
<1>2. PICK k \in Nat :
        /\ Len(line) = k + 1 /\ line[k + 1] = current /\ current \in All /\ Len(Stack) = k + 1
        /\ Abs!top = Image(posts, todo, current)
        /\ \A i \in 1 .. k + 1 : Stack[i] = Image(posts, todo, line[i])
        /\ \A i \in 1 .. k : line[i] \in All /\ point[line[i]] = "resume"
  BY TopIs
<1>3. Queues(posts, todo)'
  BY CreateQueues DEF IndInv
<1>4. \A d \in All : point'[d] = IF d = c THEN "entry" ELSE point[d]
  BY <1>1 DEF IndInv, TypeOK
<1>5. caller' = caller /\ Active' = Active
  <2>1. Standing
    BY <1>1, NotMisdirected
  <2>2. caller' = caller
    BY <1>1, <2>1 DEF Standing, IndInv, TypeOK
  <2> QED
    BY <1>1, <1>4, <2>1, <2>2 DEF Active, Standing, All
<1>6. Line(line)'
  BY <1>1, <1>5, LineKept
<1>7. point'[current] = "body" /\ ~Stopped' /\ Stopped' = Stopped
  <2>1. point'[current] = "body"
    BY <1>1, <1>2, <1>4
  <2> QED
    BY <1>1, <2>1 DEF Stopped, Misdirected
<1>8. Mirrors(posts, todo, line)'
  BY <1>3, <1>6, <1>7, ReflectsNext
<1>9. Len(Stack') = k + 1 /\ Stack' \in Seq(Records) /\ Stack \in Seq(Records)
  BY <1>2, <1>8 DEF Mirrors
<1>10. \A i \in 1 .. k + 1 : Stack'[i] = Stack[i]
  <2> SUFFICES ASSUME NEW i \in 1 .. k + 1 PROVE Stack'[i] = Stack[i]
    OBVIOUS
  <2>1. i \in 1 .. k \/ i = k + 1
    OBVIOUS
  <2>2. line[i] \in All /\ point[line[i]] \in {"resume", "body"} /\ point'[line[i]] = point[line[i]]
    BY <1>1, <1>2, <1>4, <2>1
  <2>3. Stack'[i] = Image(posts, todo, line[i])' /\ Stack[i] = Image(posts, todo, line[i])
    BY <1>2, <1>8 DEF Mirrors
  <2> QED
    BY <2>2, <2>3 DEF Image
<1>11. Stack' = Stack
  BY <1>2, <1>9, <1>10, SeqEqual
<1>12. Posted' = Posted
  BY <1>1, <1>7, <1>8 DEF Mirrors, HandedOn
<1>13. Born' = Born \cup {c} /\ c \notin Born /\ Done' = Done
  BY <1>1, <1>4 DEF Born, Done
<1>14. ~Abs!top.busy
  BY <1>1, <1>2 DEF Image, Resuming
<1> QED
  BY <1>6, <1>7, <1>11, <1>12, <1>13, <1>14 DEF Abs!Create

(* The return of _resume is a Continue.                                    *)
LEMMA LeaveImplements ==
  ASSUME IsFiniteSet(Coroutines), IndInv, IndInv',
         NEW posts \in Lists, NEW todo \in Lists, Queues(posts, todo),
         NEW line \in Seq(All), Line(line), Mirrors(posts, todo, line), Leave
  PROVE  Abs!Continue /\ Line(line)'
<1>1. /\ point[current] = "loop" /\ fault = "none" /\ point' = [point EXCEPT ![current] = "body"]
      /\ UNCHANGED <<current, caller, fault>>
  BY DEF Leave
<1>2. PICK k \in Nat :
        /\ Len(line) = k + 1 /\ line[k + 1] = current /\ current \in All /\ Len(Stack) = k + 1
        /\ Abs!top = Image(posts, todo, current) /\ Abs!below = SubSeq(Stack, 1, k)
        /\ \A i \in 1 .. k : line[i] \in All /\ point[line[i]] = "resume" /\ line[i] # current
  BY TopIs
<1>3. Queues(posts, todo)'
  BY LeaveQueues DEF IndInv
<1>4. point'[current] = "body" /\ \A d \in All : d # current => point'[d] = point[d]
  BY <1>1, <1>2 DEF IndInv, TypeOK
<1>5. todo[current] = << >>
  <2>1. Len(todo[current]) = 0
    BY <1>2, <1>3, <1>4 DEF Queues, Unused
  <2> QED
    BY <1>2, <2>1, NoElements
<1>6. Line(line)'
  <2>1. Active' = Active
    BY <1>1, <1>2 DEF IndInv, TypeOK, Active, All
  <2> QED
    BY <1>1, <2>1, LineKept
<1>7. ~Stopped' /\ Stopped' = Stopped
  BY <1>1, <1>4 DEF Stopped, Misdirected
<1>8. Mirrors(posts, todo, line)'
  BY <1>3, <1>6, <1>7, ReflectsNext
<1>9. /\ Len(Stack') = k + 1 /\ Stack' \in Seq(Records) /\ Stack \in Seq(Records)
      /\ \A i \in 1 .. k + 1 : Stack'[i] = Image(posts, todo, line[i])'
  BY <1>2, <1>8 DEF Mirrors
<1>10. Abs!top.who = current /\ Abs!top.busy /\ Abs!top.todo = << >>
  BY <1>1, <1>2, <1>5 DEF Image, Resuming
<1>11. Stack'[k + 1] = Abs!Idle(Abs!top.who)
  <2>1. PICK r \in Records : r = Stack'[k + 1] /\ r = Image(posts, todo, current)'
    BY <1>1, <1>2, <1>9, ElementOfSeq
  <2>2. point'[current'] \notin Resuming
    BY <1>1, <1>4 DEF Resuming
  <2> QED
    BY <1>1, <1>5, <1>10, <2>1, <2>2, IdleNext
<1>12. \A i \in 1 .. k : Stack'[i] = Stack[i]
  BY <1>2, <1>4, <1>8, UnderSame
<1>13. Stack' = Append(Abs!below, Stack'[k + 1])
  BY <1>2, <1>9, <1>12, TopReplaced
<1>14. Posted' = Posted
  BY <1>1, <1>4, <1>8 DEF Mirrors, HandedOn
<1>15. Born' = Born /\ Done' = Done
  <2>1. \A d \in All : (point'[d] = "none" <=> point[d] = "none") /\ (point'[d] = "done" <=> point[d] = "done")
    BY <1>1, <1>4
  <2> QED
    BY <2>1 DEF Born, Done
<1> QED
  BY <1>6, <1>7, <1>10, <1>11, <1>13, <1>14, <1>15 DEF Abs!Continue

(* The abstract scheduler halts with the program.                          *)
LEMMA HaltsNext ==
  ASSUME Stopped', Born' = Born, Done' = Done
  PROVE  Abs!Halt
<1>1. Stack' = << >> /\ Posted' = [c \in Abs!All |-> << >>]
  BY DEF Stack, Posted, Abs!All, All
<1>2. Stopped' = TRUE
  BY Zenon DEF Stopped
<1> QED
  BY <1>1, <1>2 DEF Abs!Halt

(* A pass of _resume enters the first coroutine of its list; a jump to     *)
(* Dummy, which was never entered, is misdirected.                         *)
LEMMA FetchImplements ==
  ASSUME IsFiniteSet(Coroutines), IndInv, IndInv',
         NEW posts \in Lists, NEW todo \in Lists, Queues(posts, todo),
         NEW line \in Seq(All), Line(line), Mirrors(posts, todo, line),
         Fetch, ~\E kind \in Faults : Stop(kind)
  PROVE  (Abs!Enter \/ Abs!Halt) /\ Lined'
<1>1. PICK first \in All, self \in All :
        /\ first = batch[current].first /\ self = current
        /\ point[self] = "loop" /\ fault = "none" /\ point[first] # "none"
        /\ first # Dummy => point[first] \in {"entry", "yield"} /\ first # self
        /\ current' = first /\ ret' = "Running"
        /\ point' = [c \in All |-> IF c = first THEN IF first = Dummy THEN "woken" ELSE "body"
                                   ELSE IF c = self THEN "resume" ELSE point[c]]
        /\ Active' = Active \cup {first} /\ fault' = fault
  BY FetchLands DEF Fetch
<1>2. PICK k \in Nat :
        /\ Len(line) = k + 1 /\ DOMAIN line = 1 .. k + 1 /\ line[k + 1] = current /\ Len(Stack) = k + 1
        /\ Abs!top = Image(posts, todo, current) /\ Abs!below = SubSeq(Stack, 1, k)
        /\ \A i \in 1 .. k : line[i] \in All /\ point[line[i]] = "resume" /\ line[i] # current
        /\ DOMAIN Stack = 1 .. k + 1
        /\ \A i \in 1 .. k + 1 : Stack[i] = Image(posts, todo, line[i])
  BY TopIs
<1>3. Done' = Done /\ Born' = Born
  <2>1. point[Dummy] \notin {"none", "done"}
    BY <1>1, NotMisdirected DEF Standing
  <2>2. \A c \in All : /\ point'[c] = "none" <=> point[c] = "none"
                       /\ point'[c] = "done" <=> point[c] = "done"
    BY <1>1, <2>1
  <2> QED
    BY <2>2 DEF Done, Born
<1>4. CASE first = Dummy
  <2>1. Misdirected'
    BY <1>1, <1>4 DEF Misdirected
  <2> QED
    BY <1>3, <2>1, HaltsNext DEF Stopped, Lined
<1>5. CASE first # Dummy
  <2>1. PICK longer \in Seq(All) :
          /\ longer = Append(line, first) /\ Line(longer)'
          /\ \A i \in 1 .. k + 1 : line[i] # first
    BY <1>1, <1>2, <1>5, LineGrows
  <2>2. /\ Len(longer) = k + 2 /\ longer[k + 2] = first /\ longer[k + 1] = self
        /\ \A i \in 1 .. k + 1 : longer[i] = line[i]
    <3>1. Len(longer) = Len(line) + 1 /\ longer[Len(line) + 1] = first
          /\ \A i \in 1 .. Len(line) : longer[i] = line[i]
      BY <2>1, AppendProperties
    <3>2. (k + 1) + 1 = k + 2 /\ k + 1 \in 1 .. k + 1
      OBVIOUS
    <3> QED
      BY <1>1, <1>2, <3>1, <3>2
  <2>3. PICK less : less = [todo EXCEPT ![current] = Tail(todo[current])]
    OBVIOUS
  <2>4. /\ less \in Lists /\ Queues(posts, less)'
        /\ Len(todo[self]) > 0 /\ first = todo[self][1]
    <3>1. Standing
      BY <1>1, NotMisdirected
    <3> QED
      BY <1>1, <2>3, <3>1, FetchQueues DEF IndInv
  <2>5. less[self] = Tail(todo[self]) /\ \A c \in All : c # self => less[c] = todo[c]
    BY <1>1, <2>3 DEF Lists
  <2>6. ~Misdirected' /\ ~Stopped' /\ point'[first] = "body"
    BY <1>1, <1>5 DEF Misdirected, Stopped
  <2>7. Lined'
    BY <2>1 DEF Lined
  <2>8. Mirrors(posts, less, longer)'
    BY <2>1, <2>4, <2>6, ReflectsNext
  <2>9. /\ Len(Stack') = k + 2 /\ Stack' \in Seq(Records) /\ Stack \in Seq(Records)
        /\ \A i \in 1 .. k + 2 : Stack'[i] = Image(posts, less, longer[i])'
    BY <2>2, <2>8 DEF Mirrors
  <2>10. Abs!top.who = self /\ Abs!top.busy /\ Abs!top.todo = todo[self]
    BY <1>1, <1>2 DEF Image, Resuming
  <2>11. Stack'[k + 2] = Abs!Idle(first)
    <3>1. k + 2 \in 1 .. k + 2
      OBVIOUS
    <3>2. PICK r \in Records : r = Stack'[k + 2] /\ r = Image(posts, less, current)'
      BY <1>1, <2>2, <2>9, <3>1, ElementOfSeq
    <3>3. less[first] = << >>
      <4>1. Len(less[first]) = 0
        BY <2>4, <2>6 DEF Queues, Unused
      <4> QED
        BY <2>4, <4>1, NoElements
    <3>4. point'[current'] \notin Resuming
      BY <1>1, <2>6 DEF Resuming
    <3> QED
      BY <1>1, <3>2, <3>3, <3>4, IdleNext
  <2>12. Stack'[k + 1] = Abs!Busy(self, Tail(todo[self]))
    <3>1. k + 1 \in 1 .. k + 2
      OBVIOUS
    <3>2. PICK r \in Records : r = Stack'[k + 1] /\ r = Image(posts, less, self)'
      BY <2>2, <2>9, <3>1, ElementOfSeq
    <3>3. point'[self] = "resume"
      BY <1>1, <1>5
    <3> QED
      BY <2>5, <3>2, <3>3, BusyNext
  <2>13. \A i \in 1 .. k : Stack'[i] = Stack[i]
    <3>1. \A i \in 1 .. k : i \in 1 .. k + 1
      OBVIOUS
    <3>2. \A i \in 1 .. k : /\ longer[i] = line[i] /\ less[line[i]] = todo[line[i]]
                            /\ point[line[i]] = "resume" /\ point'[line[i]] = "resume"
      BY <1>1, <1>2, <2>1, <2>2, <2>5, <3>1
    <3>3. k <= Len(line) /\ k <= Len(longer) /\ Len(line) \in Nat /\ Len(longer) \in Nat
      BY <1>2, <2>2
    <3> QED
      BY <2>8, <3>2, <3>3, UnderSame
  <2>14. Stack' = Append(Append(Abs!below, Stack'[k + 1]), Stack'[k + 2])
    BY <1>2, <2>9, <2>13, TopPushed
  <2>15. todo[self] # << >> /\ Head(todo[self]) = first
    <3>1. todo[self] \in Seq(All)
      BY DEF Lists
    <3> QED
      BY <2>4, <3>1
  <2>16. first \notin Abs!Running \cup Done
    <3>1. \A i \in 1 .. k + 1 : Stack[i].who = line[i]
      <4>1. \A c : Image(posts, todo, c).who = c
        BY DEF Image
      <4> QED
        BY <1>2, <4>1
    <3>2. \A i \in DOMAIN Stack : Stack[i].who # first
      BY <1>2, <2>1, <3>1
    <3> QED
      BY <1>1, <1>5, <3>2 DEF Abs!Running, Done
  <2>17. Posted' = Posted
    BY <1>1, <2>6, <2>8 DEF Mirrors, HandedOn
  <2>18. ~Stopped /\ Stopped' = Stopped
    BY <2>6, Zenon DEF Mirrors, Stopped
  <2> QED
    BY <1>3, <2>7, <2>10, <2>11, <2>12, <2>14, <2>15, <2>16, <2>17, <2>18 DEF Abs!Enter
<1> QED
  BY <1>4, <1>5

(* A yield and the end of a callback are a GiveBack: what the coroutine    *)
(* has put on its pending list is what the activity under it runs next.    *)
LEMMA ReturnImplements ==
  ASSUME IsFiniteSet(Coroutines), IndInv, IndInv',
         NEW posts \in Lists, NEW todo \in Lists, Queues(posts, todo),
         NEW line \in Seq(All), Line(line), Mirrors(posts, todo, line),
         InUserCode, caller[current] # NULL,
         NEW status \in {"Suspend", "Terminated"}, NEW saved \in {"yield", "done"},
         caller' = IF saved = "yield" THEN [caller EXCEPT ![current] = NULL] ELSE caller,
         Exec(current, caller[current], status, saved),
         UNCHANGED <<next, pendings, callee, batch, owed, fault>>
  PROVE  Abs!GiveBack /\ Lined'
<1>1. PICK self \in All, to \in All :
        /\ self = current /\ to = caller[current] /\ fault = "none" /\ fault' = fault
        /\ point[self] = "body" /\ point[to] = "resume" /\ callee[to] = self /\ to # self
        /\ current' = to /\ ret' = status /\ callee' = callee
        /\ point' = [c \in All |-> IF c = to THEN "woken" ELSE IF c = self THEN saved ELSE point[c]]
  <2>1. PICK self \in All, to \in All :
          /\ self = current /\ to = caller[current]
          /\ point[self] = "body" /\ point[to] = "resume" /\ callee[to] = self /\ to # self
          /\ current' = to /\ ret' = status
          /\ point' = [c \in All |-> IF c = to THEN "woken" ELSE IF c = self THEN saved ELSE point[c]]
    <3>1. /\ current \in Coroutines /\ caller[current] \in All
          /\ point[current] = "body" /\ point[caller[current]] = "resume"
          /\ callee[caller[current]] = current /\ caller[current] # current
          /\ current' = caller[current] /\ ret' = status
          /\ point' = [c \in All |-> IF c = caller[current] THEN "woken"
                                     ELSE IF c = current THEN saved ELSE point[c]]
      BY ReturnLands
    <3> QED
      BY <3>1 DEF All
  <2>2. fault = "none" /\ fault' = fault /\ callee' = callee
    BY DEF InUserCode
  <2> QED
    BY <2>1, <2>2
<1>2. PICK k \in Nat :
        /\ Len(line) = k + 1 /\ DOMAIN line = 1 .. k + 1 /\ line[k + 1] = current /\ Len(Stack) = k + 1
        /\ Abs!top = Image(posts, todo, current) /\ Abs!below = SubSeq(Stack, 1, k)
        /\ \A i \in 1 .. k : line[i] \in All /\ point[line[i]] = "resume" /\ line[i] # current
        /\ \A i \in 1 .. k + 1 : Stack[i] = Image(posts, todo, line[i])
  BY TopIs
<1>3. PICK shorter \in Seq(All) :
        /\ Line(shorter)' /\ k > 0 /\ line[k] = to /\ Len(shorter) = k
        /\ \A i \in 1 .. k : shorter[i] = line[i]
  BY <1>1, <1>2, LineShrinks
<1>4. Queues(posts, todo)'
  BY <1>1, ReturnQueues DEF IndInv
<1>5. ~Misdirected' /\ ~Stopped'
  BY <1>1 DEF Misdirected, Stopped
<1>6. Mirrors(posts, todo, shorter)'
  BY <1>3, <1>4, <1>5, ReflectsNext
<1>7. /\ Len(Stack') = k /\ Stack' \in Seq(Records) /\ Stack \in Seq(Records)
      /\ \A i \in 1 .. k : Stack'[i] = Image(posts, todo, shorter[i])'
  BY <1>3, <1>6 DEF Mirrors
<1>8. k \in 1 .. k /\ k \in 1 .. k + 1
  BY <1>3
<1>9. Stack[k] = Abs!Busy(to, todo[to])
  <2>1. PICK r \in Records : r = Stack[k] /\ r = Image(posts, todo, to)
    BY <1>2, <1>3, <1>7, <1>8, ElementOfSeq
  <2> QED
    BY <1>1, <2>1, BusyNow
<1>10. Stack'[k] = Abs!Busy(to, posts[self] \o todo[to])
  <2>1. PICK r \in Records : r = Stack'[k] /\ r = Image(posts, todo, to)'
    BY <1>3, <1>7, <1>8, ElementOfSeq
  <2>2. point'[to] = "woken" /\ callee'[to] = self
    BY <1>1
  <2> QED
    BY <2>1, <2>2, WokenNext
<1>11. \A i \in 1 .. k - 1 : Stack'[i] = Stack[i]
  <2> SUFFICES ASSUME NEW j \in Nat, j = k - 1 PROVE \A i \in 1 .. j : Stack'[i] = Stack[i]
    BY <1>3
  <2>1. \A i \in 1 .. j : i \in 1 .. k /\ i # k /\ i \in DOMAIN line /\ k \in DOMAIN line
    BY <1>2, <1>3
  <2>2. \A i \in 1 .. j : line[i] \in All /\ line[i] # self /\ line[i] # to
    BY <1>1, <1>2, <1>3, <2>1 DEF Line
  <2>3. \A i \in 1 .. j : /\ shorter[i] = line[i] /\ todo[line[i]] = todo[line[i]]
                          /\ point[line[i]] = "resume" /\ point'[line[i]] = "resume"
    BY <1>1, <1>2, <1>3, <2>1, <2>2
  <2>4. \A i \in 1 .. j : i \in 1 .. k + 1
    BY <2>1
  <2>5. ASSUME NEW i \in 1 .. j PROVE Stack'[i] = Stack[i]
    <3>1. PICK c \in All : /\ c = line[i] /\ c = shorter[i]
                           /\ point[c] = "resume" /\ point'[c] = "resume"
      BY <2>2, <2>3
    <3>2. Stack[i] = Image(posts, todo, c) /\ Stack'[i] = Image(posts, todo, c)'
      BY <1>2, <1>7, <2>1, <2>4, <3>1
    <3> QED
      BY <3>1, <3>2 DEF Image
  <2> QED
    BY <2>5
<1>12. Stack' = [Abs!below EXCEPT ![k] = Stack'[k]] /\ Abs!below[k] = Stack[k]
  <2>1. PICK s \in Seq(Records), t \in Seq(Records) : s = Stack /\ t = Stack'
    BY <1>7
  <2>2. Len(s) = k + 1 /\ Len(t) = k /\ \A i \in 1 .. k - 1 : t[i] = s[i]
    BY <1>2, <1>7, <1>11, <2>1
  <2>3. t = [SubSeq(s, 1, k) EXCEPT ![k] = t[k]] /\ SubSeq(s, 1, k)[k] = s[k]
    BY <1>3, <2>2, TopPopped
  <2> QED
    BY <1>2, <2>1, <2>3
<1>13. Abs!top.who = self /\ ~Abs!top.busy
  BY <1>1, <1>2 DEF Image, Resuming
<1>14. Posted = [c \in All |-> posts[c]] /\ Posted' = [Posted EXCEPT ![self] = << >>]
  <2>1. Posted = [c \in All |-> posts[c]]
    BY <1>1 DEF Mirrors, HandedOn
  <2>2. \A c \in All : HandedOn(c)' <=> c = self
    BY <1>1 DEF HandedOn
  <2> QED
    BY <1>6, <2>1, <2>2 DEF Mirrors
<1>15. Stack' = [Abs!below EXCEPT ![Len(Stack) - 1].todo = Posted[Abs!top.who] \o @]
  <2>1. Len(Stack) - 1 = k /\ Posted[Abs!top.who] = posts[self]
    BY <1>1, <1>2, <1>13, <1>14
  <2>2. PICK r \in Records : r = Abs!below[k] /\ r = Abs!Busy(to, todo[to])
    BY <1>7, <1>8, <1>9, <1>12, <1>2, ElementOfSeq
  <2>3. r.todo = todo[to]
    BY <2>2 DEF Abs!Busy
  <2>4. PICK t : t = posts[self] \o todo[to]
    OBVIOUS
  <2>5. [r EXCEPT !.todo = t] = Abs!Busy(to, t)
    BY <2>2, TodoReplaced
  <2> QED
    BY <1>10, <1>12, <2>1, <2>2, <2>3, <2>4, <2>5
<1>16. Done' \in {Done, Done \cup {self}} /\ Born' = Born
  <2>1. \A c \in All : /\ c # self => (point'[c] = "done" <=> point[c] = "done")
                       /\ point'[c] # "none" <=> point[c] # "none"
    BY <1>1
  <2>2. Born' = Born
    BY <2>1 DEF Born
  <2>3. CASE saved = "yield"
    <3>1. point'[self] # "done" /\ point[self] # "done"
      BY <1>1, <2>3
    <3> QED
      BY <2>1, <2>2, <3>1 DEF Done
  <2>4. CASE saved = "done"
    <3>1. point'[self] = "done"
      BY <1>1, <2>4
    <3> QED
      BY <2>1, <2>2, <3>1 DEF Done
  <2> QED
    BY <2>3, <2>4
<1>17. ~Stopped /\ Stopped' = Stopped
  BY <1>5, Zenon DEF Mirrors, Stopped
<1>18. Len(Stack) > 1
  BY <1>2, <1>3
<1> QED
  BY <1>3, <1>13, <1>14, <1>15, <1>16, <1>17, <1>18 DEF Abs!GiveBack, Lined

(* The splice of what the callee has left is no step of the abstract       *)
(* scheduler: it was handed on when the callee gave control back.          *)
LEMMA SettleImplements ==
  ASSUME IsFiniteSet(Coroutines), IndInv, IndInv',
         NEW posts \in Lists, NEW todo \in Lists, Queues(posts, todo),
         NEW line \in Seq(All), Line(line), Mirrors(posts, todo, line),
         Settle, ~\E kind \in Faults : Stop(kind)
  PROVE  UNCHANGED <<Stack, Posted, Born, Done, Stopped>> /\ Lined'
<1>1. ~Misdirected /\ Standing
  BY DEF Mirrors, Stopped, IndInv
<1>2. PICK self \in All, from \in All :
        /\ self = current /\ from = callee[self] /\ point[self] = "woken"
        /\ fault = "none" /\ point' = [point EXCEPT ![self] = "loop"]
        /\ UNCHANGED <<current, caller, callee, fault>>
  <2>1. /\ point[current] = "woken" /\ fault = "none" /\ point' = [point EXCEPT ![current] = "loop"]
        /\ UNCHANGED <<current, caller, callee, fault>>
    BY DEF Settle, Faults
  <2>2. current \in All /\ callee[current] \in All
    BY <1>1, <2>1 DEF Standing, IndInv, TypeOK
  <2> QED
    BY <2>1, <2>2
<1>3. PICK k \in Nat :
        /\ Len(line) = k + 1 /\ DOMAIN line = 1 .. k + 1 /\ line[k + 1] = current /\ Len(Stack) = k + 1
        /\ \A i \in 1 .. k : line[i] \in All /\ point[line[i]] = "resume" /\ line[i] # current
        /\ \A i \in 1 .. k + 1 : Stack[i] = Image(posts, todo, line[i])
  BY TopIs
<1>4. PICK less, more : /\ less = Emptied(posts, callee[current])
                        /\ more = Prefixed(posts, todo, callee[current], current)
  OBVIOUS
<1>5. /\ less \in Lists /\ more \in Lists /\ Queues(less, more)'
      /\ \A d \in All : less[d] = IF d = from THEN << >> ELSE posts[d]
  BY <1>1, <1>2, <1>4, SettleQueues DEF IndInv
<1>6. \A d \in All : more[d] = IF d = self THEN posts[from] \o todo[self] ELSE todo[d]
  <2>1. Separate(posts, todo)
    BY DEF Queues
  <2>2. more = Prefixed(posts, todo, from, self)
    BY <1>2, <1>4
  <2> QED
    BY <2>1, <2>2, JoinedLists
<1>7. point'[self] = "loop" /\ \A c \in All : c # self => point'[c] = point[c]
  BY <1>2 DEF IndInv, TypeOK
<1>8. Line(line)' /\ Lined'
  <2>1. Active' = Active
    BY <1>2, <1>7 DEF Active, All
  <2>2. Line(line)'
    BY <1>2, <2>1, LineKept
  <2> QED
    BY <2>2 DEF Lined
<1>9. ~Stopped'
  BY <1>2, <1>7 DEF Stopped, Misdirected
<1>10. Mirrors(less, more, line)'
  BY <1>5, <1>8, <1>9, ReflectsNext
<1>11. /\ Len(Stack') = k + 1 /\ Stack' \in Seq(Records) /\ Stack \in Seq(Records)
       /\ \A i \in 1 .. k + 1 : Stack'[i] = Image(less, more, line[i])'
  BY <1>3, <1>10 DEF Mirrors
<1>12. k + 1 \in 1 .. k + 1 /\ \A i \in 1 .. k : i \in 1 .. k + 1
  OBVIOUS
<1>13. Stack'[k + 1] = Stack[k + 1]
  <2>1. PICK r \in Records : r = Stack[k + 1] /\ r = Image(posts, todo, self)
    BY <1>2, <1>3, <1>11, <1>12, ElementOfSeq
  <2>2. PICK t \in Records : t = Stack'[k + 1] /\ t = Image(less, more, self)'
    BY <1>2, <1>3, <1>11, <1>12, ElementOfSeq
  <2>3. r = Abs!Busy(self, posts[callee[self]] \o todo[self])
    BY <1>2, <2>1, WokenNow
  <2>4. t = Abs!Busy(self, more[self])
    BY <1>7, <2>2, BusyNext
  <2>5. more[self] = posts[callee[self]] \o todo[self]
    BY <1>2, <1>6
  <2> QED
    BY <2>1, <2>2, <2>3, <2>4, <2>5
<1>14. ASSUME NEW i \in 1 .. k PROVE Stack'[i] = Stack[i]
  <2>1. PICK c \in All : c = line[i] /\ c # self /\ point[c] = "resume"
    BY <1>2, <1>3
  <2>2. PICK r \in Records : r = Stack[i] /\ r = Image(posts, todo, c)
    BY <1>3, <1>11, <1>12, <2>1, ElementOfSeq
  <2>3. PICK t \in Records : t = Stack'[i] /\ t = Image(less, more, c)'
    BY <1>3, <1>11, <1>12, <2>1, ElementOfSeq
  <2>4. point'[c] = "resume" /\ more[c] = todo[c]
    BY <1>6, <1>7, <2>1
  <2>5. r = Abs!Busy(c, todo[c]) /\ t = Abs!Busy(c, more[c])
    BY <2>1, <2>2, <2>3, <2>4, BusyNow, BusyNext
  <2> QED
    BY <2>2, <2>3, <2>4, <2>5
<1>15. Stack' = Stack
  <2>1. \A i \in 1 .. k + 1 : i \in 1 .. k \/ i = k + 1
    OBVIOUS
  <2>2. \A i \in 1 .. k + 1 : Stack'[i] = Stack[i]
    BY <1>13, <1>14, <2>1
  <2> QED
    BY <1>3, <1>11, <2>2, SeqEqual
<1>16. Posted' = Posted
  <2>1. Posted = [c \in All |-> IF c = from THEN << >> ELSE posts[c]]
    BY <1>2 DEF Mirrors, HandedOn
  <2>2. Posted' = [c \in All |-> less[c]]
    BY <1>2, <1>7, <1>10 DEF Mirrors, HandedOn
  <2> QED
    BY <1>5, <2>1, <2>2
<1>17. Born' = Born /\ Done' = Done
  <2>1. \A c \in All : /\ point'[c] = "none" <=> point[c] = "none"
                       /\ point'[c] = "done" <=> point[c] = "done"
    BY <1>2, <1>7
  <2> QED
    BY <2>1 DEF Born, Done
<1>18. Stopped' = Stopped
  BY <1>9, Zenon DEF Mirrors, Stopped
<1> QED
  BY <1>8, <1>15, <1>16, <1>17, <1>18

(* A step that changes nothing.                                            *)
LEMMA StutterImplements ==
  ASSUME UNCHANGED vars
  PROVE  UNCHANGED Abs!vars /\ (Lined => Lined')
<1>1. UNCHANGED <<current, caller, point, heap, next, pendings, argument, callee, batch, ret, owed, fault>>
  BY DEF vars, locals
<1>2. Stopped' = Stopped /\ Posted' = Posted /\ Born' = Born /\ Done' = Done
  BY <1>1 DEF Stopped, Misdirected, Posted, HandedOn, Queue, Born, Done
<1>3. Stack' = Stack
  BY <1>1 DEF Stack, Stopped, Misdirected, Chain, Activity, Queue
<1>4. Lined => Lined'
  BY <1>1 DEF Lined, Misdirected, Line, Active
<1> QED
  BY <1>2, <1>3, <1>4 DEF Abs!vars

(* A step that stops the program.                                          *)
LEMMA StopImplements ==
  ASSUME Lined, NEW kind, Stop(kind), Stopped => kind # "none"
  PROVE  [Abs!Next]_(Abs!vars) /\ Lined'
<1>1. /\ UNCHANGED <<current, caller, point, heap, next, pendings, argument, callee, batch, ret, owed>>
      /\ fault' = kind
  BY DEF Stop, locals
<1>2. Lined'
  BY <1>1 DEF Lined, Misdirected, Line, Active
<1>3. CASE kind = "none"
  <2>1. UNCHANGED vars
    BY <1>1, <1>3 DEF Stopped, vars, locals
  <2> QED
    BY <2>1, StutterImplements
<1>4. CASE kind # "none"
  <2>1. Stopped' /\ Born' = Born /\ Done' = Done
    BY <1>1, <1>4 DEF Stopped, Born, Done
  <2>2. Abs!Halt
    BY <2>1, HaltsNext
  <2> QED
    BY <1>2, <2>2 DEF Abs!Next
<1> QED
  BY <1>3, <1>4

(* Once it has stopped, or is about to, no step does anything else.        *)
LEMMA StoppedStays ==
  ASSUME Stopped, Next
  PROVE  \E kind \in Faults \ {"none"} : Stop(kind)
<1>1. fault = "none" => point[current] = "woken" /\ ret = "Running"
  BY DEF Stopped, Misdirected
<1>2. ASSUME InUserCode \/ Fetch \/ Leave PROVE FALSE
  BY <1>1, <1>2 DEF InUserCode, Fetch, Leave
<1>3. ASSUME \/ \E c \in Coroutines : Create(c)
             \/ \E c \in All : Resume(c) \/ Process(c)
             \/ Yield \/ Finish
      PROVE  InUserCode
  BY <1>3 DEF Create, Resume, Process, Enqueue, Yield, Finish
<1>4. CASE Settle
  <2>1. Stop("use_after_free") \/ Stop("abort") \/ Stop("double_free")
    BY <1>1, <1>4 DEF Settle
  <2> QED
    BY <2>1 DEF Faults
<1> QED
  BY <1>2, <1>3, <1>4 DEF Next

(* Every step is one of the abstract scheduler's or changes nothing of it. *)
LEMMA NextImplements ==
  ASSUME IsFiniteSet(Coroutines), "relink" \notin Uses, IndInv, IndInv', Listable, Lined, [Next]_vars
  PROVE  [Abs!Next]_(Abs!vars) /\ Lined'
<1>1. CASE UNCHANGED vars
  BY <1>1, StutterImplements
<1>2. CASE Stopped /\ Next
  BY <1>2, StoppedStays, StopImplements
<1>3. CASE ~Stopped /\ Next
  <2>1. PICK posts \in Lists, todo \in Lists : Queues(posts, todo)
    BY DEF Listable
  <2>2. PICK line \in Seq(All) : Line(line)
    BY <1>3 DEF Lined, Stopped
  <2>3. Mirrors(posts, todo, line)
    BY <1>3, <2>1, <2>2, Reflects
  <2>4. ASSUME Line(line)' PROVE Lined'
    BY <2>4 DEF Lined
  <2>5. ASSUME \E kind \in Faults : Stop(kind) PROVE [Abs!Next]_(Abs!vars) /\ Lined'
    BY <1>3, <2>5, StopImplements
  <2>6. ASSUME NEW c \in Coroutines, Create(c) PROVE [Abs!Next]_(Abs!vars) /\ Lined'
    <3>1. Abs!Create(c) /\ Line(line)'
      BY <2>1, <2>2, <2>3, <2>6, CreateImplements
    <3> QED
      BY <2>4, <3>1 DEF Abs!Next, Abs!All
  <2>7. ASSUME NEW c \in All, Resume(c) PROVE [Abs!Next]_(Abs!vars) /\ Lined'
    <3>1. CASE Stop("use_after_free")
      BY <2>5, <3>1 DEF Faults
    <3>2. CASE ~Stop("use_after_free")
      <4>1. Abs!Resume(c) /\ Line(line)'
        BY <2>1, <2>2, <2>3, <2>7, <3>2, ResumeImplements
      <4> QED
        BY <2>4, <4>1 DEF Abs!Next, Abs!All, All
    <3> QED
      BY <3>1, <3>2
  <2>8. ASSUME NEW c \in All, Enqueue(c) PROVE [Abs!Next]_(Abs!vars) /\ Lined'
    <3>1. CASE ~\E kind \in Faults : Stop(kind)
      <4>1. Abs!Post(c) /\ Line(line)'
        BY <2>1, <2>2, <2>3, <2>8, <3>1, EnqueueImplements
      <4> QED
        BY <2>4, <4>1 DEF Abs!Next, Abs!All, All
    <3> QED
      BY <2>5, <3>1
  <2>9. CASE Fetch
    <3>1. CASE ~\E kind \in Faults : Stop(kind)
      <4>1. (Abs!Enter \/ Abs!Halt) /\ Lined'
        BY <2>1, <2>2, <2>3, <2>9, <3>1, FetchImplements
      <4> QED
        BY <4>1 DEF Abs!Next
    <3> QED
      BY <2>5, <3>1
  <2>10. CASE Settle
    <3>1. CASE ~\E kind \in Faults : Stop(kind)
      <4>1. UNCHANGED <<Stack, Posted, Born, Done, Stopped>> /\ Lined'
        BY <2>1, <2>2, <2>3, <2>10, <3>1, SettleImplements
      <4> QED
        BY <4>1 DEF Abs!vars
    <3> QED
      BY <2>5, <3>1
  <2>11. CASE Leave
    <3>1. Abs!Continue /\ Line(line)'
      BY <2>1, <2>2, <2>3, <2>11, LeaveImplements
    <3> QED
      BY <2>4, <3>1 DEF Abs!Next
  <2>12. CASE Yield
    <3>1. CASE Stop("abort")
      BY <2>5, <3>1 DEF Faults
    <3>2. CASE ~Stop("abort")
      <4>1. /\ InUserCode /\ caller[current] # NULL
            /\ caller' = [caller EXCEPT ![current] = NULL]
            /\ Exec(current, caller[current], "Suspend", "yield")
            /\ UNCHANGED <<next, pendings, callee, batch, owed, fault>>
        BY <2>12, <3>2 DEF Yield, locals
      <4>2. Abs!GiveBack /\ Lined'
        BY <2>1, <2>2, <2>3, <4>1, ReturnImplements
      <4> QED
        BY <4>2 DEF Abs!Next
    <3> QED
      BY <3>1, <3>2
  <2>13. CASE Finish
    <3>1. /\ InUserCode /\ caller[current] # NULL /\ caller' = caller
          /\ Exec(current, caller[current], "Terminated", "done")
          /\ UNCHANGED <<next, pendings, callee, batch, owed, fault>>
      BY <2>13, FinishHasCaller DEF Finish, locals
    <3>2. Abs!GiveBack /\ Lined'
      BY <2>1, <2>2, <2>3, <3>1, ReturnImplements
    <3> QED
      BY <3>2 DEF Abs!Next
  <2> QED
    BY <1>3, <2>6, <2>7, <2>8, <2>9, <2>10, <2>11, <2>12, <2>13 DEF Next, Process
<1> QED
  BY <1>1, <1>2, <1>3

(* Initially there is one activity, that of the thread itself.             *)
LEMMA InitImplements ==
  ASSUME IsFiniteSet(Coroutines), Init
  PROVE  Abs!Init /\ Lined
<1>1. /\ current = Dummy /\ caller = [c \in All |-> NULL]
      /\ point = [c \in All |-> IF c = Dummy THEN "body" ELSE "none"]
      /\ fault = "none" /\ Dummy \in All
  BY DEF Init, All
<1>2. IndInv /\ ~Misdirected /\ ~Stopped
  BY <1>1, InitInd DEF Misdirected, Stopped
<1>3. PICK posts \in Lists, todo \in Lists : Queues(posts, todo)
  BY InitListable DEF Listable
<1>4. \A c \in All : posts[c] = << >> /\ todo[c] = << >>
  <2>1. owed = {} /\ current = Dummy /\ point[current] = "body"
    BY <1>1 DEF Init
  <2>2. Listed(posts) = {} /\ Listed(todo) = {}
    <3>1. \A c \in All : c \notin Listed(posts) /\ c \notin Listed(todo)
      BY <1>3, <2>1, UnlistedInBody
    <3> QED
      BY <3>1 DEF Listed
  <2> SUFFICES ASSUME NEW f \in Lists, Listed(f) = {}, NEW c \in All PROVE f[c] = << >>
    BY <2>2
  <2>3. PICK s \in Seq(All) : s = f[c]
    BY DEF Lists
  <2>4. PICK a \in Nat : a = Len(s) /\ DOMAIN s = 1 .. a
    BY LenProperties
  <2>5. a = 0
    <3>1. a # 0 => 1 \in DOMAIN f[c]
      BY <2>3, <2>4
    <3> QED
      BY <3>1, OnAList
  <2> QED
    BY <2>3, <2>4, <2>5, EmptySeq
<1>5. PICK line \in Seq(All) : line = <<Dummy>> /\ Len(line) = 1 /\ line[1] = Dummy /\ DOMAIN line = 1 .. 1
  <2>1. <<Dummy>> \in Seq(All) /\ Len(<<Dummy>>) = 1 /\ <<Dummy>>[1] = Dummy
    BY <1>1
  <2>2. PICK s \in Seq(All) : s = <<Dummy>>
    BY <2>1
  <2>3. DOMAIN s = 1 .. 1
    BY <2>1, <2>2, LenProperties
  <2> QED
    BY <2>1, <2>2, <2>3
<1>6. Line(line) /\ Lined
  <2>1. Line(line)
    BY <1>1, <1>5 DEF Line, Active
  <2> QED
    BY <2>1 DEF Lined
<1>7. Mirrors(posts, todo, line)
  BY <1>2, <1>3, <1>6, Reflects
<1>8. Stack = <<Abs!Idle(Dummy)>>
  <2>1. Stack \in Seq(Records) /\ Len(Stack) = 1 /\ Stack[1] = Image(posts, todo, Dummy)
    <3>1. 1 \in 1 .. 1
      OBVIOUS
    <3> QED
      BY <1>5, <1>7, <3>1 DEF Mirrors
  <2>2. PICK r \in Records : r = Stack[1] /\ r = Image(posts, todo, Dummy)
    <3>1. 1 \in 1 .. Len(Stack)
      BY <2>1
    <3> QED
      BY <2>1, <3>1, ElementOfSeq
  <2>3. point[Dummy] \notin Resuming
    BY <1>1 DEF Resuming
  <2>4. r = Abs!Idle(Dummy)
    BY <1>1, <1>4, <2>2, <2>3, IdleNow
  <2> QED
    BY <2>1, <2>2, <2>4
<1>9. Posted = [c \in Abs!All |-> << >>]
  <2>1. Posted = [c \in All |-> posts[c]]
    BY <1>1, <1>7 DEF Mirrors, HandedOn
  <2> QED
    BY <1>4, <2>1 DEF Abs!All, All
<1>10. Born = {Dummy} /\ Done = {}
  BY <1>1 DEF Born, Done
<1>11. Stopped = FALSE
  BY <1>2, Zenon DEF Stopped
<1> QED
  BY <1>6, <1>8, <1>9, <1>10, <1>11 DEF Abs!Init

(* The scheduler of coroutine.c runs the coroutines in the order that      *)
(* coroutine.h promises, whatever the nesting of resumes and however many  *)
(* coroutines are pending, as long as none is handed over while it is.     *)
THEOREM Implements ==
  ASSUME "relink" \notin Uses, IsFiniteSet(Coroutines)
  PROVE  Spec => ImplementsScheduler
<1>1. Init => Abs!Init /\ Lined
  BY InitImplements
<1>2. IndInv /\ IndInv' /\ Listable /\ Lined /\ [Next]_vars => [Abs!Next]_(Abs!vars) /\ Lined'
  BY NextImplements
<1>3. Spec => []IndInv /\ []Listable
  BY Inductive, QueuesFormed
<1> QED
  BY <1>1, <1>2, <1>3, PTL DEF Spec, ImplementsScheduler, Abs!Spec
=============================================================================
