--------------------------- MODULE FdStreamProofs ---------------------------
(***************************************************************************)
(* Proofs about FdStream, for any number of readers, bytes and interrupts, *)
(* any capacity of the pipe and any counts and timeouts.                   *)
(***************************************************************************)
EXTENDS FdStream, SequenceTheorems, TLAPS

(* What a call of the writer has left to do, and when there is one.        *)
WriterInv ==
  /\ closed => wpc = "idle"
  /\ wpc = "idle" => wcount = 0 /\ wpos = 0 /\ ~sharing
  /\ wpc # "idle" => ~broken
  /\ wpos <= wcount /\ base + wcount <= Total
  /\ wpc = "sendmsg" => wpos = 0 /\ sharing /\ (wcount > 0 => base + 1 \in openings)

(* Only the last _send_shared_fd may have begun with a byte that is not    *)
(* sent, and it is still at its sendmsg or was the end of the stream.      *)
OpeningsInv ==
  \A b \in openings :
    \/ b <= base + wpos
    \/ b = base + 1 /\ wpos = 0 /\ (broken \/ (wpc = "sendmsg" /\ wcount > 0))

(* What a poll has waited and may still wait is as long as the timeout was *)
(* started.                                                                *)
ClockInv ==
  \A r \in Readers :
    timeout[r] > 0 =>
      left[r] >= 0 /\ waited[r] + left[r] <= timeout[r] * (1 + interrupts[r])

(* Bytes are read in the order in which they are in the pipe.              *)
Behind ==
  \A r \in Readers : \A x \in Elements(Received(r)), y \in Elements(pipe) : x < y

IInv ==
  /\ TypeOK /\ WriterInv
  /\ OpeningsInv /\ FdPassedOnce
  /\ ClockInv /\ ShortIsEnd
  /\ Conserved /\ Behind

-----------------------------------------------------------------------------
(* Sequences of numbers.                                                   *)

(* The elements of a concatenation, and when it is increasing.             *)
LEMMA Joined ==
  ASSUME NEW s \in Seq(Nat), NEW u \in Seq(Nat)
  PROVE  /\ Elements(s \o u) = Elements(s) \cup Elements(u)
         /\ Increasing(s) /\ Increasing(u) /\ (\A x \in Elements(s), y \in Elements(u) : x < y)
            => Increasing(s \o u)
  <1> DEFINE m == Len(s)
             n == Len(u)
             w == s \o u
  <1>1. /\ m \in Nat /\ n \in Nat /\ Len(w) = m + n
        /\ DOMAIN s = 1 .. m /\ DOMAIN u = 1 .. n /\ DOMAIN w = 1 .. m + n
        /\ \A i \in 1 .. m : w[i] = s[i] /\ s[i] \in Nat
        /\ \A i \in 1 .. n : w[m + i] = u[i] /\ u[i] \in Nat
    OBVIOUS
  <1>2. \A i \in 1 .. m + n : i \in 1 .. m \/ (i - m \in 1 .. n /\ w[i] = u[i - m])
    <2> SUFFICES ASSUME NEW i \in 1 .. m + n, i \notin 1 .. m
                 PROVE  i - m \in 1 .. n /\ w[i] = u[i - m]
      OBVIOUS
    <2>1. i - m \in 1 .. n /\ m + (i - m) = i
      BY <1>1
    <2> QED
      BY <1>1, <2>1
  <1> HIDE DEF m, n, w
  <1>3. Elements(w) = Elements(s) \cup Elements(u)
    <2>1. ASSUME NEW x \in Elements(w) PROVE x \in Elements(s) \cup Elements(u)
      <3>1. PICK i \in 1 .. m + n : x = w[i]
        BY <1>1, <2>1 DEF Elements
      <3>2. CASE i \in 1 .. m
        BY <1>1, <3>1, <3>2 DEF Elements
      <3>3. CASE i \notin 1 .. m
        <4>1. i - m \in 1 .. n /\ x = u[i - m]
          BY <1>2, <3>1, <3>3
        <4> QED
          BY <1>1, <4>1 DEF Elements
      <3> QED
        BY <3>2, <3>3
    <2>2. ASSUME NEW x \in Elements(s) PROVE x \in Elements(w)
      <3>1. PICK i \in 1 .. m : x = s[i]
        BY <1>1, <2>2 DEF Elements
      <3>2. i \in 1 .. m + n /\ x = w[i]
        BY <1>1, <3>1
      <3> QED
        BY <1>1, <3>2 DEF Elements
    <2>3. ASSUME NEW x \in Elements(u) PROVE x \in Elements(w)
      <3>1. PICK i \in 1 .. n : x = u[i]
        BY <1>1, <2>3 DEF Elements
      <3>2. m + i \in 1 .. m + n /\ x = w[m + i]
        BY <1>1, <3>1
      <3> QED
        BY <1>1, <3>2 DEF Elements
    <2> QED
      BY <2>1, <2>2, <2>3
  <1>4. ASSUME Increasing(s), Increasing(u), \A x \in Elements(s), y \in Elements(u) : x < y
        PROVE  Increasing(w)
    <2> SUFFICES ASSUME NEW i \in 1 .. m + n, NEW j \in 1 .. m + n, i < j
                 PROVE  w[i] < w[j]
      BY <1>1 DEF Increasing
    <2>1. CASE i \in 1 .. m /\ j \in 1 .. m
      BY <1>1, <1>4, <2>1 DEF Increasing
    <2>2. CASE i \in 1 .. m /\ j \notin 1 .. m
      <3>1. j - m \in 1 .. n /\ w[j] = u[j - m]
        BY <1>2, <2>2
      <3>2. s[i] \in Elements(s) /\ u[j - m] \in Elements(u)
        BY <1>1, <2>2, <3>1 DEF Elements
      <3> QED
        BY <1>1, <1>4, <2>2, <3>1, <3>2
    <2>3. CASE i \notin 1 .. m
      <3>1. i - m \in 1 .. n /\ w[i] = u[i - m]
        BY <1>2, <2>3
      <3>2. j \notin 1 .. m
        BY <1>1, <2>3
      <3>3. j - m \in 1 .. n /\ w[j] = u[j - m]
        BY <1>2, <3>2
      <3>4. i - m < j - m
        BY <1>1
      <3> QED
        BY <1>1, <1>4, <3>1, <3>3, <3>4 DEF Increasing
    <2> QED
      BY <2>1, <2>2, <2>3
  <1> QED
    BY <1>3, <1>4 DEF w

(* A sequence is cut in two.                                               *)
LEMMA Cut ==
  ASSUME NEW S, NEW s \in Seq(S), NEW n \in 0 .. Len(s)
  PROVE  LET a == SubSeq(s, 1, n)
             b == SubSeq(s, n + 1, Len(s))
         IN  /\ a \in Seq(S) /\ Len(a) = n
             /\ b \in Seq(S) /\ Len(b) = Len(s) - n
             /\ \A i \in 1 .. n : a[i] = s[i]
             /\ \A i \in 1 .. Len(s) - n : b[i] = s[n + i]
  BY SubSeqProperties

(* The parts have the elements between them, and keep their order.         *)
LEMMA Parted ==
  ASSUME NEW s \in Seq(Nat), NEW n \in 0 .. Len(s)
  PROVE  LET a == SubSeq(s, 1, n)
             b == SubSeq(s, n + 1, Len(s))
         IN  /\ Elements(s) = Elements(a) \cup Elements(b)
             /\ Increasing(s) => /\ Increasing(a) /\ Increasing(b)
                                 /\ \A x \in Elements(a), y \in Elements(b) : x < y
  <1> DEFINE a == SubSeq(s, 1, n)
             b == SubSeq(s, n + 1, Len(s))
             m == Len(s)
  <1>1. /\ m \in Nat /\ n \in Nat /\ n <= m
        /\ DOMAIN s = 1 .. m /\ DOMAIN a = 1 .. n /\ DOMAIN b = 1 .. m - n
        /\ \A i \in 1 .. m : s[i] \in Nat
        /\ \A i \in 1 .. n : a[i] = s[i]
        /\ \A i \in 1 .. m - n : b[i] = s[n + i]
    BY Cut, LenProperties, ElementOfSeq
  <1> HIDE DEF a, b, m
  <1>2. \A i \in 1 .. m : i \in 1 .. n \/ (i - n \in 1 .. m - n /\ s[i] = b[i - n])
    <2> SUFFICES ASSUME NEW i \in 1 .. m, i \notin 1 .. n
                 PROVE  i - n \in 1 .. m - n /\ s[i] = b[i - n]
      OBVIOUS
    <2>1. i - n \in 1 .. m - n /\ n + (i - n) = i
      BY <1>1
    <2> QED
      BY <1>1, <2>1
  <1>3. ASSUME NEW x \in Elements(s) PROVE x \in Elements(a) \cup Elements(b)
    <2>1. PICK i \in 1 .. m : x = s[i]
      BY <1>1, <1>3 DEF Elements
    <2>2. CASE i \in 1 .. n
      BY <1>1, <2>1, <2>2 DEF Elements
    <2>3. CASE i \notin 1 .. n
      <3>1. i - n \in 1 .. m - n /\ x = b[i - n]
        BY <1>2, <2>1, <2>3
      <3> QED
        BY <1>1, <3>1 DEF Elements
    <2> QED
      BY <2>2, <2>3
  <1>4. ASSUME NEW x \in Elements(a) PROVE \E i \in 1 .. n : i \in 1 .. m /\ x = a[i] /\ x = s[i]
    <2>1. PICK i \in 1 .. n : x = a[i]
      BY <1>1, <1>4 DEF Elements
    <2> QED
      BY <1>1, <2>1
  <1>5. ASSUME NEW x \in Elements(b)
        PROVE  \E i \in 1 .. m - n : n + i \in 1 .. m /\ x = b[i] /\ x = s[n + i]
    <2>1. PICK i \in 1 .. m - n : x = b[i]
      BY <1>1, <1>5 DEF Elements
    <2>2. n + i \in 1 .. m
      BY <1>1
    <2> QED
      BY <1>1, <2>1, <2>2
  <1>6. Elements(s) = Elements(a) \cup Elements(b)
    <2>1. \A x \in Elements(a) \cup Elements(b) : x \in Elements(s)
      BY <1>1, <1>4, <1>5 DEF Elements
    <2> QED
      BY <1>3, <2>1
  <1>7. ASSUME Increasing(s) PROVE Increasing(a)
    <2> SUFFICES ASSUME NEW i \in 1 .. n, NEW j \in 1 .. n, i < j
                 PROVE  a[i] < a[j]
      BY <1>1 DEF Increasing
    <2>1. i \in 1 .. m /\ j \in 1 .. m
      BY <1>1
    <2> QED
      BY <1>1, <1>7, <2>1 DEF Increasing
  <1>8. ASSUME Increasing(s) PROVE Increasing(b)
    <2> SUFFICES ASSUME NEW i \in 1 .. m - n, NEW j \in 1 .. m - n, i < j
                 PROVE  b[i] < b[j]
      BY <1>1 DEF Increasing
    <2>1. n + i \in 1 .. m /\ n + j \in 1 .. m /\ n + i < n + j
      BY <1>1
    <2> QED
      BY <1>1, <1>8, <2>1 DEF Increasing
  <1>9. ASSUME Increasing(s), NEW x \in Elements(a), NEW y \in Elements(b) PROVE x < y
    <2>1. PICK i \in 1 .. n : i \in 1 .. m /\ x = s[i]
      BY <1>4
    <2>2. PICK j \in 1 .. m - n : n + j \in 1 .. m /\ y = s[n + j]
      BY <1>5
    <2>3. i < n + j
      BY <1>1
    <2> QED
      BY <1>1, <1>9, <2>1, <2>2, <2>3 DEF Increasing
  <1> QED
    BY <1>6, <1>7, <1>8, <1>9 DEF a, b, m
-----------------------------------------------------------------------------
(* Initial states.                                                         *)
LEMMA InitInv == Init => IInv
  <1> SUFFICES ASSUME Init PROVE IInv
    OBVIOUS
  <1>0. /\ Total \in Nat /\ Capacity \in Nat /\ MaxInterrupts \in Nat /\ 1 .. 0 = {}
        /\ 0 \in 0 .. Total /\ 0 \in 0 .. MaxInterrupts
    BY StreamAssumption
  <1>1. << >> \in Seq(Bytes) /\ Len(<< >>) = 0 /\ DOMAIN << >> = {} /\ << >> \o << >> = << >>
    OBVIOUS
  <1>2. TypeOK
    <2>1. pipe \in Seq(Bytes) /\ Len(pipe) <= Capacity
      BY <1>0, <1>1 DEF Init
    <2>2. /\ rpc \in [Readers -> {"idle", "poll", "read"}]
          /\ count \in [Readers -> Counts \cup {0}] /\ timeout \in [Readers -> Timeouts \cup {0}]
          /\ left \in [Readers -> Int] /\ waited \in [Readers -> Nat]
          /\ ret \in [Readers -> Nat \cup {ERRNO}]
      BY DEF Init
    <2>3. buf \in [Readers -> Seq(Bytes)] /\ known \in [Readers -> Seq(Bytes)]
      BY <1>1 DEF Init
    <2>4. interrupts \in [Readers -> 0 .. MaxInterrupts]
      BY <1>0 DEF Init
    <2> QED
      BY <1>0, <2>1, <2>2, <2>3, <2>4 DEF TypeOK, Init
  <1>3. WriterInv /\ OpeningsInv /\ FdPassedOnce
    BY <1>0 DEF Init, WriterInv, OpeningsInv, FdPassedOnce
  <1>4. ClockInv /\ ShortIsEnd
    BY DEF Init, ClockInv, ShortIsEnd
  <1>5. Elements(pipe) = {} /\ \A r \in Readers : Elements(Received(r)) = {} /\ Received(r) = << >>
    BY <1>1 DEF Init, Elements, Received
  <1>6. Conserved /\ Behind
    <2>1. Increasing(pipe) /\ \A r \in Readers : Increasing(Received(r))
      BY <1>1, <1>5 DEF Increasing, Init
    <2>2. 1 .. base + wpos = {}
      BY <1>0 DEF Init
    <2>3. UNION {Elements(Received(r)) : r \in Readers} = {}
      BY <1>5
    <2> QED
      BY <1>5, <2>1, <2>2, <2>3 DEF Conserved, Behind
  <1> QED
    BY <1>2, <1>3, <1>4, <1>6 DEF IInv

-----------------------------------------------------------------------------
(* Steps of the writer.                                                    *)

(* What n bytes in the pipe do to it, and to the numbers of its bytes.     *)
LEMMA TransferEffect ==
  ASSUME TypeOK, WriterInv, NEW n \in 0 .. Capacity, Transfers(n)
  PROVE  LET sent == [i \in 1 .. n |-> base + wpos + i]
         IN  /\ sent \in Seq(Bytes) /\ Len(sent) = n /\ pipe' = pipe \o sent
             /\ Elements(sent) = base + wpos + 1 .. base + wpos + n
             /\ Increasing(sent)
             /\ pipe' \in Seq(Bytes) /\ Len(pipe') <= Capacity
  <1> DEFINE sent == [i \in 1 .. n |-> base + wpos + i]
  <1>0. n \in Nat /\ base + wpos \in Nat /\ wcount \in Nat /\ base + wpos + n <= Total /\ Total \in Nat
    BY StreamAssumption DEF TypeOK, WriterInv, Transfers
  <1>1. \A i \in 1 .. n : base + wpos + i \in Bytes
    BY <1>0 DEF Bytes
  <1>2. sent \in Seq(Bytes)
    BY <1>0, <1>1, IsASeq
  <1>3. DOMAIN sent = 1 .. n /\ Len(sent) = n /\ \A i \in 1 .. n : sent[i] = base + wpos + i
    BY <1>0, <1>2, LenProperties
  <1>4. pipe' = pipe \o sent
    BY DEF Transfers
  <1> HIDE DEF sent
  <1>5. pipe' \in Seq(Bytes) /\ Len(pipe') <= Capacity
    <2>1. pipe \in Seq(Bytes) /\ Len(pipe) + n <= Capacity
      BY DEF TypeOK, Transfers
    <2> QED
      BY <1>2, <1>3, <1>4, <2>1, ConcatProperties
  <1>6. Increasing(sent)
    BY <1>0, <1>3 DEF Increasing
  <1>7. Elements(sent) = base + wpos + 1 .. base + wpos + n
    <2>1. ASSUME NEW x \in Elements(sent) PROVE x \in base + wpos + 1 .. base + wpos + n
      <3>1. PICK i \in 1 .. n : x = base + wpos + i
        BY <1>3, <2>1 DEF Elements
      <3> QED
        BY <1>0, <3>1
    <2>2. ASSUME NEW x \in base + wpos + 1 .. base + wpos + n PROVE x \in Elements(sent)
      <3>1. x - (base + wpos) \in 1 .. n /\ x = base + wpos + (x - (base + wpos))
        BY <1>0
      <3>2. x = sent[x - (base + wpos)]
        BY <1>3, <3>1
      <3> QED
        BY <1>3, <3>1, <3>2 DEF Elements
    <2> QED
      BY <2>1, <2>2
  <1> QED
    BY <1>2, <1>3, <1>4, <1>5, <1>6, <1>7 DEF sent

(* Sending n bytes keeps what is known about them.                         *)
LEMMA SentKept ==
  ASSUME IInv, NEW n \in 0 .. Capacity, Transfers(n), (base + wpos)' = base + wpos + n,
         UNCHANGED <<known, buf>>
  PROVE  Conserved' /\ Behind'
  <1> DEFINE k == base + wpos
             sent == [i \in 1 .. n |-> k + i]
             got == UNION {Elements(Received(r)) : r \in Readers}
  <1>1. /\ sent \in Seq(Bytes) /\ pipe' = pipe \o sent
        /\ Elements(sent) = k + 1 .. k + n /\ Increasing(sent) /\ pipe \in Seq(Bytes)
    BY TransferEffect DEF IInv, TypeOK
  <1>2. k \in Nat /\ n \in Nat /\ (base + wpos)' = k + n
    BY StreamAssumption DEF IInv, TypeOK
  <1>3. sent \in Seq(Nat) /\ pipe \in Seq(Nat)
    <2>1. Bytes \subseteq Nat
      BY StreamAssumption DEF Bytes
    <2> QED
      BY <1>1, <2>1, SeqMonotonic
  <1> HIDE DEF k, sent, got
  <1>4. \A r \in Readers : Received(r)' = Received(r)
    BY DEF Received
  <1>5. got \cup Elements(pipe) = 1 .. k /\ Increasing(pipe)
    <2>1. got \cup Elements(pipe) = 1 .. k
      BY Zenon DEF IInv, Conserved, k, got
    <2>2. Increasing(pipe)
      BY DEF IInv, Conserved
    <2> QED
      BY <2>1, <2>2
  <1>6. \A x \in Elements(pipe), y \in Elements(sent) : x < y
    <2>1. \A x \in Elements(pipe) : x \in 1 .. k
      BY <1>5
    <2> QED
      BY <1>1, <1>2, <2>1
  <1>7. Elements(pipe') = Elements(pipe) \cup Elements(sent) /\ Increasing(pipe')
    BY <1>1, <1>3, <1>5, <1>6, Joined
  <1>8. \A r \in Readers : \A x \in Elements(Received(r)) : x \in 1 .. k
    <2>1. \A r \in Readers : \A x \in Elements(Received(r)) : x \in got
      BY DEF got
    <2> QED
      BY <1>5, <2>1
  <1>9. Behind'
    <2> SUFFICES ASSUME NEW r \in Readers, NEW x \in Elements(Received(r)), NEW y \in Elements(pipe')
                 PROVE  x < y
      BY <1>4 DEF Behind, Elements
    <2>1. CASE y \in Elements(pipe)
      BY <2>1 DEF IInv, Behind
    <2>2. CASE y \in Elements(sent)
      BY <1>1, <1>2, <1>8, <2>2
    <2> QED
      BY <1>7, <2>1, <2>2
  <1>10. \A r \in Readers : Elements(Received(r))' = Elements(Received(r))
    BY <1>4 DEF Elements
  <1>11. (UNION {Elements(Received(r))' : r \in Readers}) \cup Elements(pipe') = 1 .. k + n
    <2>1. 1 .. k + n = (1 .. k) \cup (k + 1 .. k + n)
      BY <1>2
    <2>2. UNION {Elements(Received(r))' : r \in Readers} = got
      BY <1>10 DEF got
    <2>3. got \cup (Elements(pipe) \cup Elements(sent)) = 1 .. k + n
      BY <1>1, <1>5, <2>1
    <2> QED
      BY <1>7, <2>2, <2>3, Zenon
  <1>12. ASSUME NEW r \in Readers PROVE Elements(Received(r)) \cap Elements(pipe') = {}
    <2>1. Elements(Received(r)) \cap Elements(pipe) = {}
      BY DEF IInv, Conserved
    <2>2. Elements(Received(r)) \cap Elements(sent) = {}
      BY <1>1, <1>2, <1>8
    <2> QED
      BY <1>7, <2>1, <2>2
  <1>13. \A r \in Readers : Increasing(Received(r)) /\ \A q \in Readers \ {r} : Elements(Received(r)) \cap Elements(Received(q)) = {}
    BY DEF IInv, Conserved
  <1>14. \A r \in Readers : Increasing(Received(r))'
    BY <1>4, <1>13 DEF Increasing
  <1>15. Elements(pipe)' = Elements(pipe') /\ Increasing(pipe)' = Increasing(pipe')
    BY DEF Elements, Increasing
  <1>16. Conserved'
    BY <1>2, <1>7, <1>10, <1>11, <1>12, <1>13, <1>14, <1>15 DEF Conserved
  <1> QED
    BY <1>9, <1>16

(* The types of the writer's variables and of the readers'.                *)
WriterType ==
  /\ closed \in BOOLEAN
  /\ wpc \in {"idle", "sendmsg", "write"} /\ sharing \in BOOLEAN /\ broken \in BOOLEAN
  /\ carriers \in SUBSET Bytes /\ openings \in SUBSET Bytes
  /\ wcount \in Counts \cup {0} /\ wpos \in 0 .. Total /\ base \in 0 .. Total

ReaderType ==
  /\ rpc \in [Readers -> {"idle", "poll", "read"}]
  /\ count \in [Readers -> Counts \cup {0}] /\ timeout \in [Readers -> Timeouts \cup {0}]
  /\ buf \in [Readers -> Seq(Bytes)]
  /\ left \in [Readers -> Int] /\ waited \in [Readers -> Nat]
  /\ interrupts \in [Readers -> 0 .. MaxInterrupts]
  /\ ret \in [Readers -> Nat \cup {ERRNO}]
  /\ known \in [Readers -> Seq(Bytes)]

WriterPart == WriterType /\ WriterInv /\ OpeningsInv /\ FdPassedOnce

PipePart == pipe \in Seq(Bytes) /\ Len(pipe) <= Capacity

StreamPart == ShortIsEnd /\ Conserved /\ Behind

(* The invariant in the parts that the steps of the writer, of the readers *)
(* and of the clock disturb.                                               *)
LEMMA Parts == IInv <=> WriterPart /\ PipePart /\ ReaderType /\ ClockInv /\ StreamPart
  BY DEF IInv, TypeOK, WriterPart, WriterType, ReaderType, PipePart, StreamPart

(* Parts that hold after a step are the invariant after it.                *)
LEMMA PartsNext ==
  ASSUME WriterPart', PipePart', ReaderType', ClockInv', StreamPart'
  PROVE  IInv'
  BY DEF IInv, TypeOK, WriterPart, WriterType, ReaderType, PipePart, StreamPart

(* A step of the writer leaves the readers' part alone, ...                *)
LEMMA ReaderQuiet ==
  ASSUME IInv, UNCHANGED reader
  PROVE  ReaderType' /\ ClockInv'
  BY Parts DEF ReaderType, ClockInv, reader, clock

(* ... one of a reader the writer's.                                       *)
LEMMA WriterQuiet ==
  ASSUME IInv, UNCHANGED <<closed, writer>>
  PROVE  WriterPart'
  BY Parts DEF WriterPart, WriterType, WriterInv, OpeningsInv, FdPassedOnce, writer

(* Nothing is said of the bytes if none is moved.                          *)
LEMMA BytesQuiet ==
  ASSUME IInv, UNCHANGED pipe, (base + wpos)' = base + wpos,
         \A r \in Readers : Received(r)' = Received(r)
  PROVE  PipePart' /\ Conserved' /\ Behind'
  <1>1. PipePart'
    BY DEF IInv, TypeOK, PipePart
  <1>2. Conserved'
    <2>2. /\ Increasing(pipe)' = Increasing(pipe) /\ Elements(pipe)' = Elements(pipe)
          /\ \A r \in Readers : /\ Increasing(Received(r))' = Increasing(Received(r))
                               /\ Elements(Received(r))' = Elements(Received(r))
      BY Zenon DEF Increasing, Elements
    <2>3. UNION {Elements(Received(r))' : r \in Readers} = UNION {Elements(Received(r)) : r \in Readers}
      BY <2>2
    <2> QED
      BY <2>2, <2>3, Zenon DEF IInv, Conserved
  <1>3. Behind'
    <2>1. Elements(pipe)' = Elements(pipe) /\ \A r \in Readers : Elements(Received(r))' = Elements(Received(r))
      BY DEF Elements
    <2> QED
      BY <2>1 DEF IInv, Behind
  <1> QED
    BY <1>1, <1>2, <1>3

(* A call of the writer begins.                                            *)
LEMMA BeginsKept ==
  ASSUME IInv, NEW n \in Counts, WriteAll(n) \/ SendSharedFd(n)
  PROVE  IInv'
  <1>0. /\ n \in Nat /\ base \in Nat /\ Total \in Nat /\ base + n <= Total
        /\ wpc = "idle" /\ ~closed /\ ~broken /\ wcount = 0 /\ wpos = 0
    BY StreamAssumption DEF IInv, TypeOK, WriterInv, WriteAll, SendSharedFd, MayWrite
  <1>1. UNCHANGED <<reader, pipe, closed, base, wpos, broken, carriers>> /\ wcount' = n
    BY DEF WriteAll, SendSharedFd
  <1>2. openings' \in SUBSET Bytes /\ \A b \in openings' : b \in openings \/ (b = base + 1 /\ n > 0)
    <2>1. openings \in SUBSET Bytes /\ (n > 0 => base + 1 \in Bytes)
      BY <1>0 DEF IInv, TypeOK, Bytes
    <2>2. openings' = openings \/ (n > 0 /\ openings' = openings \cup {base + 1})
      BY DEF WriteAll, SendSharedFd
    <2> QED
      BY <2>1, <2>2
  <1>3. \A b \in openings : b \in openings' /\ b <= base
    BY <1>0 DEF IInv, OpeningsInv, WriteAll, SendSharedFd
  <1>4. WriterType'
    BY <1>0, <1>1, <1>2 DEF IInv, TypeOK, WriterType, WriteAll, SendSharedFd
  <1>5. WriterInv'
    BY <1>0, <1>1 DEF IInv, WriterInv, WriteAll, SendSharedFd
  <1>6. OpeningsInv'
    <2>1. CASE WriteAll(n)
      BY <1>0, <1>1, <1>3, <2>1 DEF OpeningsInv, WriteAll
    <2>2. CASE SendSharedFd(n)
      BY <1>0, <1>1, <1>2, <1>3, <2>2 DEF OpeningsInv, SendSharedFd
    <2> QED
      BY <2>1, <2>2
  <1>7. FdPassedOnce'
    BY <1>0, <1>1, <1>2, <1>3 DEF IInv, FdPassedOnce
  <1>8. PipePart' /\ Conserved' /\ Behind'
    BY <1>1, BytesQuiet DEF reader, Received
  <1>9. ShortIsEnd'
    BY <1>1 DEF IInv, ShortIsEnd, reader
  <1> QED
    BY <1>1, <1>4, <1>5, <1>6, <1>7, <1>8, <1>9, ReaderQuiet, PartsNext DEF WriterPart, StreamPart

(* A write, or a sendmsg, moves n bytes.                                   *)
LEMMA SendsKept ==
  ASSUME IInv, NEW n \in 0 .. Capacity, Write(n) \/ SendMsg(n)
  PROVE  IInv'
  <1>0. /\ n \in Nat /\ base \in Nat /\ wpos \in Nat /\ wcount \in Nat /\ Total \in Nat
        /\ wpos + n <= wcount /\ base + wcount <= Total /\ (n = 0 => wcount = wpos)
        /\ wpc # "idle" /\ ~closed /\ ~broken
    BY StreamAssumption DEF IInv, TypeOK, WriterInv, Write, SendMsg, Transfers
  <1>1. UNCHANGED <<reader, closed, openings>> /\ Transfers(n) /\ GoesOn(n, "write")
    BY DEF Write, SendMsg, AfterSendMsg
  <1>2. /\ (base + wpos)' = base + wpos + n
        /\ base' + wpos' = base + wpos + n
        /\ base' \in 0 .. Total /\ wpos' \in 0 .. Total /\ wcount' \in Counts \cup {0}
    BY <1>0, <1>1 DEF IInv, TypeOK, GoesOn, WriteReturns
  <1>3. /\ wpc' \in {"idle", "write"} /\ broken' = FALSE /\ sharing' \in BOOLEAN
        /\ (wpc' = "idle" => wcount' = 0 /\ wpos' = 0 /\ ~sharing')
        /\ (wpc' = "write" => wcount' = wcount /\ wpos' = wpos + n /\ base' = base)
    BY <1>0, <1>1 DEF IInv, TypeOK, GoesOn, WriteReturns
  <1>4. carriers' = carriers \cup {b \in openings : base + wpos < b /\ b <= base + wpos + n}
    <2>1. CASE Write(n)
      <3>1. \A b \in openings : b <= base + wpos
        BY <1>0, <2>1 DEF IInv, OpeningsInv, Write
      <3>2. \A b \in openings : b \in Nat
        BY DEF IInv, TypeOK, Bytes
      <3>3. {b \in openings : base + wpos < b /\ b <= base + wpos + n} = {}
        BY <1>0, <3>1, <3>2
      <3> QED
        BY <2>1, <3>3 DEF Write
    <2>2. CASE SendMsg(n)
      <3>1. wpos = 0 /\ (wcount > 0 => base + 1 \in openings)
        BY <2>2 DEF IInv, WriterInv, SendMsg
      <3>2. \A b \in openings : b \in Nat /\ (b <= base + wpos \/ b = base + wpos + 1)
        BY <1>0, <3>1 DEF IInv, OpeningsInv, TypeOK, Bytes
      <3>3. CASE n > 0
        <4>1. {b \in openings : base + wpos < b /\ b <= base + wpos + n} = {base + wpos + 1}
          BY <1>0, <3>1, <3>2, <3>3
        <4> QED
          BY <2>2, <3>3, <4>1 DEF SendMsg
      <3>4. CASE n = 0
        <4>1. {b \in openings : base + wpos < b /\ b <= base + wpos + n} = {}
          BY <1>0, <3>2, <3>4
        <4> QED
          BY <2>2, <3>4, <4>1 DEF SendMsg
      <3> QED
        BY <1>0, <3>3, <3>4
    <2> QED
      BY <2>1, <2>2
  <1>5. WriterType'
    BY <1>1, <1>2, <1>3, <1>4 DEF IInv, TypeOK, WriterType
  <1>6. WriterInv'
    BY <1>0, <1>1, <1>2, <1>3 DEF WriterInv
  <1>7. OpeningsInv'
    <2> SUFFICES ASSUME NEW b \in openings PROVE b <= base' + wpos'
      BY <1>1 DEF OpeningsInv
    <2>1. b \in Nat
      BY DEF IInv, TypeOK, Bytes
    <2>0. base' + wpos' = base + wpos + n
      BY <1>2
    <2>2. CASE b <= base + wpos
      BY <1>0, <2>0, <2>1, <2>2
    <2>3. CASE b > base + wpos
      <3>1. b = base + 1 /\ wpos = 0 /\ wcount > 0
        BY <1>0, <2>1, <2>3 DEF IInv, OpeningsInv
      <3>2. n > 0
        BY <1>0, <3>1
      <3> QED
        BY <1>0, <2>0, <3>1, <3>2
    <2> QED
      BY <1>0, <2>1, <2>2, <2>3
  <1>8. FdPassedOnce'
    <2>1. carriers = {b \in openings : b <= base + wpos} /\ openings \subseteq Nat
      BY DEF IInv, FdPassedOnce, TypeOK, Bytes
    <2>2. \A b \in openings : b \in Nat /\
            (b <= base + wpos + n <=> b <= base + wpos \/ (base + wpos < b /\ b <= base + wpos + n))
      BY <1>0, <2>1
    <2>3. carriers' = {b \in openings : b <= base + wpos + n}
      BY <1>4, <2>1, <2>2, Zenon
    <2> QED
      BY <1>1, <1>2, <2>3 DEF FdPassedOnce
  <1>9. PipePart'
    BY <1>1, TransferEffect DEF IInv, PipePart
  <1>10. Conserved' /\ Behind'
    BY <1>1, <1>2, SentKept DEF reader
  <1>11. ShortIsEnd'
    BY <1>0, <1>1 DEF IInv, ShortIsEnd, reader
  <1> QED
    BY <1>1, <1>5, <1>6, <1>7, <1>8, <1>9, <1>10, <1>11, ReaderQuiet, PartsNext DEF WriterPart, StreamPart

(* A call of the writer fails.                                             *)
LEMMA WriteFailsKept == ASSUME IInv, WriteFails PROVE IInv'
  <1>0. /\ base \in Nat /\ wpos \in Nat /\ wcount \in Nat /\ Total \in Nat
        /\ wpos <= wcount /\ base + wcount <= Total
        /\ wpc # "idle" /\ ~closed /\ ~broken
    BY StreamAssumption DEF IInv, TypeOK, WriterInv, WriteFails
  <1>1. /\ UNCHANGED <<reader, pipe, closed, openings, carriers>>
        /\ wpc' = "idle" /\ wcount' = 0 /\ wpos' = 0 /\ sharing' = FALSE
        /\ base' = base + wpos /\ (broken' <=> sharing /\ wpos < wcount) /\ broken' \in BOOLEAN
    BY DEF WriteFails, WriteReturns
  <1>2. (base + wpos)' = base + wpos
    BY <1>0, <1>1
  <1>3. WriterType'
    <2>1. base + wpos \in 0 .. Total /\ 0 \in 0 .. Total
      BY <1>0
    <2> QED
      BY <1>1, <2>1 DEF IInv, TypeOK, WriterType
  <1>4. WriterInv'
    BY <1>0, <1>1 DEF WriterInv
  <1>5. OpeningsInv'
    <2> SUFFICES ASSUME NEW b \in openings, ~(b <= base' + wpos')
                 PROVE  b = base' + 1 /\ wpos' = 0 /\ broken'
      BY <1>1 DEF OpeningsInv
    <2>1. b = base + 1 /\ wpos = 0 /\ wpc = "sendmsg" /\ wcount > 0
      BY <1>0, <1>1 DEF IInv, OpeningsInv
    <2>2. sharing
      BY <2>1 DEF IInv, WriterInv
    <2> QED
      BY <1>0, <1>1, <2>1, <2>2
  <1>6. FdPassedOnce'
    BY <1>0, <1>1 DEF IInv, FdPassedOnce
  <1>7. PipePart' /\ Conserved' /\ Behind'
    BY <1>1, <1>2, BytesQuiet DEF reader, Received
  <1>8. ShortIsEnd'
    BY <1>1 DEF IInv, ShortIsEnd, reader
  <1> QED
    BY <1>1, <1>3, <1>4, <1>5, <1>6, <1>7, <1>8, ReaderQuiet, PartsNext DEF WriterPart, StreamPart

(* The writer that closes its end adds no byte and leaves no call          *)
(* unfinished.                                                             *)
LEMMA CloseWriterKept == ASSUME IInv, CloseWriter PROVE IInv'
  <1>1. UNCHANGED <<reader, writer, pipe>> /\ closed' = TRUE /\ wpc = "idle"
    BY DEF CloseWriter
  <1>2. WriterPart'
    BY <1>1 DEF IInv, TypeOK, WriterPart, WriterType, WriterInv, OpeningsInv, FdPassedOnce, writer
  <1>3. PipePart' /\ Conserved' /\ Behind'
    BY <1>1, BytesQuiet DEF reader, Received, writer
  <1>4. ShortIsEnd'
    BY <1>1 DEF IInv, ShortIsEnd, reader
  <1> QED
    BY <1>1, <1>2, <1>3, <1>4, ReaderQuiet, PartsNext DEF StreamPart

-----------------------------------------------------------------------------
(* Steps of the readers.                                                   *)

(* A call returns, with any value and any bytes.                           *)
LEMMA ReturnsKept ==
  ASSUME IInv, NEW r \in Readers, NEW value \in Nat \cup {ERRNO}, NEW bytes \in Seq(Bytes),
         ReadReturns(r, value, bytes)
  PROVE  ReaderType' /\ ClockInv'
  <1>0. 0 \in 0 .. MaxInterrupts /\ << >> \in Seq(Bytes)
    BY StreamAssumption
  <1>1. known[r] \o bytes \in Seq(Bytes)
    BY ConcatProperties DEF IInv, TypeOK
  <1>2. known' \in [Readers -> Seq(Bytes)] /\ buf' \in [Readers -> Seq(Bytes)]
    BY <1>0, <1>1 DEF IInv, TypeOK, ReadReturns
  <1>3. ReaderType'
    BY <1>0, <1>2 DEF IInv, TypeOK, ReaderType, ReadReturns
  <1>4. ClockInv'
    <2> SUFFICES ASSUME NEW q \in Readers, timeout'[q] > 0
                 PROVE  left'[q] >= 0 /\ waited'[q] + left'[q] <= timeout'[q] * (1 + interrupts'[q])
      BY DEF ClockInv
    <2>1. q # r
      BY DEF IInv, TypeOK, ReadReturns
    <2>2. /\ timeout'[q] = timeout[q] /\ left'[q] = left[q]
          /\ waited'[q] = waited[q] /\ interrupts'[q] = interrupts[q]
      BY <2>1 DEF IInv, TypeOK, ReadReturns
    <2> QED
      BY <2>2 DEF IInv, ClockInv
  <1> QED
    BY <1>3, <1>4

(* The next round of waiting begins, with the timeout that is set.         *)
LEMMA WaitKept ==
  ASSUME IInv, NEW r \in Readers, WaitRead(r, timeout'[r]),
         timeout' \in [Readers -> Timeouts \cup {0}],
         \A q \in Readers \ {r} : timeout'[q] = timeout[q]
  PROVE  /\ rpc' \in [Readers -> {"idle", "poll", "read"}]
         /\ left' \in [Readers -> Int] /\ waited' \in [Readers -> Nat]
         /\ interrupts' \in [Readers -> 0 .. MaxInterrupts]
         /\ ClockInv'
  <1>0. 0 \in 0 .. MaxInterrupts /\ timeout'[r] \in Int
    <2>1. Timeouts \cup {0} \subseteq Int /\ MaxInterrupts \in Nat
      BY StreamAssumption
    <2>2. timeout'[r] \in Timeouts \cup {0}
      OBVIOUS
    <2> QED
      BY <2>1, <2>2
  <1>1. /\ rpc' \in [Readers -> {"idle", "poll", "read"}]
        /\ left' \in [Readers -> Int] /\ waited' \in [Readers -> Nat]
        /\ interrupts' \in [Readers -> 0 .. MaxInterrupts]
    BY <1>0 DEF IInv, TypeOK, WaitRead
  <1>2. ASSUME NEW q \in Readers, timeout'[q] > 0
        PROVE  left'[q] >= 0 /\ waited'[q] + left'[q] <= timeout'[q] * (1 + interrupts'[q])
    <2>1. CASE q = r
      <3>1. left'[r] = timeout'[r] /\ waited'[r] = 0 /\ interrupts'[r] = 0
        BY DEF IInv, TypeOK, WaitRead
      <3> QED
        BY <1>0, <1>2, <2>1, <3>1
    <2>2. CASE q # r
      <3>1. /\ timeout'[q] = timeout[q] /\ left'[q] = left[q]
            /\ waited'[q] = waited[q] /\ interrupts'[q] = interrupts[q]
        BY <2>2 DEF IInv, TypeOK, WaitRead
      <3> QED
        BY <1>2, <3>1 DEF IInv, ClockInv
    <2> QED
      BY <2>1, <2>2
  <1> QED
    BY <1>1, <1>2 DEF ClockInv

(* A failing call reports what is in its buffer: nothing moves.            *)
LEMMA ReportedKept ==
  ASSUME IInv, NEW r \in Readers, NEW value, ReadReturns(r, value, buf[r])
  PROVE  \A q \in Readers : Received(q)' = Received(q)
  <1> SUFFICES ASSUME NEW q \in Readers PROVE known'[q] \o buf'[q] = known[q] \o buf[q]
    BY DEF Received
  <1>1. CASE q = r
    <2>1. known'[r] = known[r] \o buf[r] /\ buf'[r] = << >>
      BY DEF IInv, TypeOK, ReadReturns
    <2>2. known[r] \o buf[r] \in Seq(Bytes)
      BY ConcatProperties DEF IInv, TypeOK
    <2> QED
      BY <1>1, <2>1, <2>2, ConcatEmptySeq
  <1>2. CASE q # r
    BY <1>2 DEF IInv, TypeOK, ReadReturns
  <1> QED
    BY <1>1, <1>2

(* The first n bytes go from the pipe to the reader r.                     *)
LEMMA TakenKept ==
  ASSUME IInv, NEW r \in Readers, NEW n \in 0 .. Len(pipe),
         pipe' = SubSeq(pipe, n + 1, Len(pipe)), (base + wpos)' = base + wpos,
         Received(r)' = Received(r) \o SubSeq(pipe, 1, n),
         \A q \in Readers \ {r} : Received(q)' = Received(q)
  PROVE  PipePart' /\ Conserved' /\ Behind'
  <1> DEFINE a == SubSeq(pipe, 1, n)
             b == SubSeq(pipe, n + 1, Len(pipe))
             rest == UNION {Elements(Received(q)) : q \in Readers \ {r}}
  <1>0. pipe \in Seq(Bytes) /\ Len(pipe) <= Capacity /\ Bytes \subseteq Nat /\ n \in Nat /\ Capacity \in Nat
    BY StreamAssumption DEF IInv, TypeOK, Bytes
  <1>1. a \in Seq(Bytes) /\ b \in Seq(Bytes) /\ Len(b) = Len(pipe) - n
    BY <1>0, Cut
  <1>2. pipe \in Seq(Nat) /\ a \in Seq(Nat) /\ b \in Seq(Nat)
    BY <1>0, <1>1, SeqMonotonic
  <1>3. \A q \in Readers : Received(q) \in Seq(Nat)
    <2>1. \A q \in Readers : Received(q) \in Seq(Bytes)
      BY ConcatProperties DEF IInv, TypeOK, Received
    <2> QED
      BY <1>0, <2>1, SeqMonotonic
  <1>4. Elements(pipe) = Elements(a) \cup Elements(b)
    BY <1>2, Parted
  <1>5. Increasing(a) /\ Increasing(b) /\ \A x \in Elements(a), y \in Elements(b) : x < y
    BY <1>2, Parted DEF IInv, Conserved
  <1> HIDE DEF a, b
  <1>6. \A q \in Readers : \A x \in Elements(Received(q)), y \in Elements(pipe) : x < y
    BY DEF IInv, Behind
  <1>7. /\ Elements(Received(r) \o a) = Elements(Received(r)) \cup Elements(a)
        /\ Increasing(Received(r) \o a)
    <2>1. \A x \in Elements(Received(r)), y \in Elements(a) : x < y
      BY <1>4, <1>6
    <2>2. Increasing(Received(r))
      BY DEF IInv, Conserved
    <2> QED
      BY <1>2, <1>3, <1>5, <2>1, <2>2, Joined
  <1>8. /\ pipe' = b /\ Received(r)' = Received(r) \o a
        /\ \A q \in Readers \ {r} : Received(q)' = Received(q)
    BY DEF a, b
  <1>9. /\ Elements(pipe)' = Elements(b) /\ Increasing(pipe)' = Increasing(b)
        /\ Elements(Received(r))' = Elements(Received(r)) \cup Elements(a)
        /\ Increasing(Received(r))'
    BY <1>7, <1>8, Zenon DEF Elements, Increasing
  <1>10. \A q \in Readers \ {r} : /\ Elements(Received(q))' = Elements(Received(q))
                                  /\ Increasing(Received(q))' = Increasing(Received(q))
    BY <1>8, Zenon DEF Elements, Increasing
  <1>11. PipePart'
    <2>1. Len(b) <= Capacity
      BY <1>0, <1>1
    <2> QED
      BY <1>1, <1>8, <2>1 DEF PipePart
  <1>12. Behind'
    <2> SUFFICES ASSUME NEW q \in Readers, NEW x \in Elements(Received(q))', NEW y \in Elements(b)
                 PROVE  x < y
      BY <1>9 DEF Behind
    <2>1. y \in Elements(pipe)
      BY <1>4
    <2>2. x \in Elements(Received(q)) \/ x \in Elements(a)
      BY <1>9, <1>10
    <2> QED
      BY <1>5, <1>6, <2>1, <2>2
  <1>13. (UNION {Elements(Received(q)) : q \in Readers})' \cup Elements(pipe)' = (1 .. base + wpos)'
    <2>1. UNION {Elements(Received(q)) : q \in Readers} = rest \cup Elements(Received(r))
      OBVIOUS
    <2>2. UNION {Elements(Received(q))' : q \in Readers} = rest \cup Elements(Received(r))'
      BY <1>10
    <2>3. (rest \cup Elements(Received(r))) \cup Elements(pipe) = 1 .. base + wpos
      BY <2>1, Zenon DEF IInv, Conserved
    <2> HIDE DEF rest
    <2>4. (rest \cup Elements(Received(r))') \cup Elements(pipe)'
            = (rest \cup Elements(Received(r))) \cup Elements(pipe)
      BY <1>4, <1>9
    <2>5. (1 .. base + wpos)' = 1 .. base + wpos
      OBVIOUS
    <2> QED
      BY <2>2, <2>3, <2>4, <2>5, Zenon
  <1>14. \A q \in Readers : \A x \in Elements(Received(q))' : x \notin Elements(b) /\ x \in Nat
    <2>1. Elements(b) \subseteq Nat
      BY <1>2, ElementOfSeq, LenProperties DEF Elements
    <2>2. \A q \in Readers : Elements(Received(q)) \subseteq Nat
      BY <1>3, ElementOfSeq, LenProperties DEF Elements
    <2>3. Elements(a) \subseteq Nat
      BY <1>2, ElementOfSeq, LenProperties DEF Elements
    <2> SUFFICES ASSUME NEW q \in Readers, NEW x \in Elements(Received(q))'
                 PROVE  x \notin Elements(b) /\ x \in Nat
      OBVIOUS
    <2>4. x \in Elements(Received(q)) \/ x \in Elements(a)
      BY <1>9, <1>10
    <2>5. x \in Nat
      BY <2>2, <2>3, <2>4
    <2>6. \A y \in Elements(b) : x < y
      BY <1>4, <1>5, <1>6, <2>4
    <2> QED
      BY <2>5, <2>6
  <1>15. ASSUME NEW p \in Readers, NEW q \in Readers \ {p}
         PROVE  Elements(Received(p))' \cap Elements(Received(q))' = {}
    <2>1. Elements(Received(p)) \cap Elements(Received(q)) = {}
      BY DEF IInv, Conserved
    <2>2. Elements(Received(p)) \cap Elements(a) = {} /\ Elements(Received(q)) \cap Elements(a) = {}
      BY <1>4 DEF IInv, Conserved
    <2> QED
      BY <1>9, <1>10, <2>1, <2>2
  <1>16. \A q \in Readers : Increasing(Received(q))'
    <2>1. \A q \in Readers : Increasing(Received(q))
      BY DEF IInv, Conserved
    <2> QED
      BY <1>9, <1>10, <2>1
  <1>17. Conserved'
    <2>1. Increasing(pipe)'
      BY <1>5, <1>9
    <2>2. \A q \in Readers : Elements(Received(q))' \cap Elements(pipe)' = {}
      BY <1>9, <1>14
    <2> QED
      BY <1>13, <1>15, <1>16, <2>1, <2>2, Zenon DEF Conserved
  <1> QED
    BY <1>11, <1>12, <1>17

(* ShortIsEnd asks about the reader that has moved only.                   *)
LEMMA ShortKept ==
  ASSUME IInv, NEW r \in Readers, closed' = closed, pipe = << >> => pipe' = << >>,
         \A q \in Readers \ {r} : rpc'[q] = rpc[q] /\ ret'[q] = ret[q] /\ count'[q] = count[q],
         rpc'[r] = "idle" /\ ret'[r] # ERRNO /\ ret'[r] < count'[r] => closed /\ pipe' = << >>
  PROVE  ShortIsEnd'
  BY DEF IInv, ShortIsEnd

(* A call begins.                                                          *)
LEMMA ReadAllKept ==
  ASSUME IInv, NEW r \in Readers, NEW n \in Counts, NEW ms \in Timeouts, ReadAll(r, n, ms)
  PROVE  IInv'
  <1>1. /\ UNCHANGED <<pipe, closed, writer, buf, ret, known>>
        /\ count' \in [Readers -> Counts \cup {0}] /\ timeout' \in [Readers -> Timeouts \cup {0}]
        /\ timeout'[r] = ms /\ WaitRead(r, ms)
        /\ \A q \in Readers \ {r} : timeout'[q] = timeout[q] /\ count'[q] = count[q] /\ rpc'[q] = rpc[q]
        /\ rpc'[r] # "idle"
    BY DEF IInv, TypeOK, ReadAll, WaitRead
  <1>2. /\ rpc' \in [Readers -> {"idle", "poll", "read"}]
        /\ left' \in [Readers -> Int] /\ waited' \in [Readers -> Nat]
        /\ interrupts' \in [Readers -> 0 .. MaxInterrupts]
        /\ ClockInv'
    BY <1>1, WaitKept
  <1>3. ReaderType'
    BY <1>1, <1>2 DEF IInv, TypeOK, ReaderType
  <1>4. PipePart' /\ Conserved' /\ Behind'
    BY <1>1, BytesQuiet DEF Received, writer
  <1>5. ShortIsEnd'
    BY <1>1, ShortKept
  <1> QED
    BY <1>1, <1>2, <1>3, <1>4, <1>5, WriterQuiet, PartsNext DEF StreamPart

(* A poll returns, or is called again.                                     *)
LEMMA PollReadyKept == ASSUME IInv, NEW r \in Readers, PollReady(r) PROVE IInv'
  <1>1. /\ UNCHANGED <<pipe, closed, writer, count, timeout, buf, clock, ret, known>>
        /\ rpc' = [rpc EXCEPT ![r] = "read"]
    BY DEF PollReady
  <1>2. ReaderType'
    BY <1>1 DEF IInv, TypeOK, ReaderType, clock
  <1>3. ClockInv'
    BY <1>1 DEF IInv, ClockInv, clock
  <1>4. PipePart' /\ Conserved' /\ Behind'
    BY <1>1, BytesQuiet DEF Received, writer
  <1>5. ShortIsEnd'
    BY <1>1, ShortKept DEF IInv, TypeOK
  <1> QED
    BY <1>1, <1>2, <1>3, <1>4, <1>5, WriterQuiet, PartsNext DEF StreamPart

(* A call fails, or times out.                                             *)
LEMMA FailureKept ==
  ASSUME IInv, NEW r \in Readers, ReadReturns(r, ERRNO, buf[r]), UNCHANGED <<pipe, closed, writer>>
  PROVE  IInv'
  <1>0. buf[r] \in Seq(Bytes) /\ ERRNO \in Nat \cup {ERRNO}
    BY DEF IInv, TypeOK
  <1>1. ReaderType' /\ ClockInv'
    BY <1>0, ReturnsKept
  <1>2. \A q \in Readers : Received(q)' = Received(q)
    BY <1>0, ReportedKept
  <1>3. PipePart' /\ Conserved' /\ Behind'
    BY <1>2, BytesQuiet DEF writer
  <1>4. ShortIsEnd'
    BY ShortKept DEF ReadReturns, IInv, TypeOK
  <1> QED
    BY <1>1, <1>3, <1>4, WriterQuiet, PartsNext DEF StreamPart

(* A poll that a signal interrupts starts its whole timeout again.         *)
LEMMA PollInterruptedKept == ASSUME IInv, NEW r \in Readers, PollInterrupted(r) PROVE IInv'
  <1>1. /\ UNCHANGED <<pipe, closed, writer, count, timeout, buf, waited, ret, known>>
        /\ rpc' = [rpc EXCEPT ![r] = "poll"]
        /\ interrupts' = [interrupts EXCEPT ![r] = @ + 1]
        /\ left' = [left EXCEPT ![r] = timeout[r]]
        /\ interrupts[r] < MaxInterrupts
    BY DEF PollInterrupted, AfterEINTR
  <1>2. /\ interrupts[r] \in Nat /\ interrupts[r] + 1 \in 0 .. MaxInterrupts
        /\ timeout[r] \in Int /\ waited[r] \in Nat /\ left[r] \in Int
    <2>1. Timeouts \cup {0} \subseteq Int /\ MaxInterrupts \in Nat
      BY StreamAssumption
    <2>2. timeout[r] \in Timeouts \cup {0} /\ waited[r] \in Nat /\ left[r] \in Int
      BY DEF IInv, TypeOK
    <2>3. interrupts[r] \in 0 .. MaxInterrupts
      BY DEF IInv, TypeOK
    <2> QED
      BY <1>1, <2>1, <2>2, <2>3
  <1>3. ReaderType'
    BY <1>1, <1>2 DEF IInv, TypeOK, ReaderType
  <1>4. ASSUME NEW q \in Readers, timeout'[q] > 0
        PROVE  left'[q] >= 0 /\ waited'[q] + left'[q] <= timeout'[q] * (1 + interrupts'[q])
    <2>1. CASE q = r
      <3>1. /\ left'[r] = timeout[r] /\ waited'[r] = waited[r] /\ timeout'[r] = timeout[r]
            /\ interrupts'[r] = interrupts[r] + 1
        BY <1>1 DEF IInv, TypeOK
      <3>2. left[r] >= 0 /\ waited[r] + left[r] <= timeout[r] * (1 + interrupts[r])
        BY <1>4, <2>1, <3>1 DEF IInv, ClockInv
      <3>3. timeout[r] * (1 + (interrupts[r] + 1)) = timeout[r] * (1 + interrupts[r]) + timeout[r]
        BY <1>2
      <3>4. timeout[r] * (1 + interrupts[r]) \in Int
        BY <1>2
      <3> QED
        BY <1>2, <1>4, <2>1, <3>1, <3>2, <3>3, <3>4
    <2>2. CASE q # r
      <3>1. /\ timeout'[q] = timeout[q] /\ left'[q] = left[q]
            /\ waited'[q] = waited[q] /\ interrupts'[q] = interrupts[q]
        BY <1>1, <2>2 DEF IInv, TypeOK
      <3> QED
        BY <1>4, <3>1 DEF IInv, ClockInv
    <2> QED
      BY <2>1, <2>2
  <1>5. PipePart' /\ Conserved' /\ Behind'
    BY <1>1, BytesQuiet DEF Received, writer
  <1>6. ShortIsEnd'
    BY <1>1, ShortKept DEF IInv, TypeOK
  <1> QED
    BY <1>1, <1>3, <1>4, <1>5, <1>6, WriterQuiet, PartsNext DEF StreamPart, ClockInv

(* A read returns n bytes.                                                 *)
LEMMA ReadsKept == ASSUME IInv, NEW r \in Readers, Reads(r) PROVE IInv'
  <1>1. PICK n \in 0 .. Len(pipe) :
          /\ n <= count[r] - Len(buf[r])
          /\ (n = 0 <=> count[r] = Len(buf[r]) \/ (closed /\ pipe = << >>))
          /\ Read(r, n)
    BY DEF Reads
  <1> DEFINE a     == SubSeq(pipe, 1, n)
             bytes == buf[r] \o a
  <1>2. /\ pipe' = SubSeq(pipe, n + 1, Len(pipe)) /\ UNCHANGED <<closed, writer>>
        /\ IF n = 0 \/ Len(bytes) >= count[r]
           THEN ReadReturns(r, Len(bytes), bytes)
           ELSE /\ buf' = [buf EXCEPT ![r] = bytes]
                /\ WaitRead(r, timeout[r])
                /\ UNCHANGED <<count, timeout, ret, known>>
    BY <1>1 DEF Read, Ends
  <1>3. /\ a \in Seq(Bytes) /\ Len(a) = n /\ bytes \in Seq(Bytes) /\ Len(bytes) = Len(buf[r]) + n
        /\ buf[r] \in Seq(Bytes) /\ known[r] \in Seq(Bytes) /\ pipe \in Seq(Bytes)
    <2>1. buf[r] \in Seq(Bytes) /\ known[r] \in Seq(Bytes) /\ pipe \in Seq(Bytes)
      BY DEF IInv, TypeOK
    <2>2. a \in Seq(Bytes) /\ Len(a) = n
      BY <2>1, Cut
    <2> HIDE DEF a
    <2>3. bytes \in Seq(Bytes) /\ Len(bytes) = Len(buf[r]) + Len(a)
      BY <2>1, <2>2, ConcatProperties
    <2> QED
      BY <2>1, <2>2, <2>3
  <1>4. Len(bytes) \in Nat /\ n \in Nat /\ Len(buf[r]) \in Nat
    BY <1>3, LenProperties
  <1>5. count[r] \in Nat
    <2>1. Counts \cup {0} \subseteq Nat
      BY StreamAssumption
    <2>2. count[r] \in Counts \cup {0}
      BY DEF IInv, TypeOK
    <2> QED
      BY <2>1, <2>2
  <1>6. pipe = << >> => pipe' = << >>
    <2> SUFFICES ASSUME pipe = << >> PROVE pipe' = << >>
      OBVIOUS
    <2>1. Len(pipe) = 0 /\ n = 0
      BY <1>4
    <2> QED
      BY <1>2, <2>1, SubSeqEmpty
  <1> HIDE DEF a, bytes
  <1>7. known[r] \o bytes \in Seq(Bytes) /\ (known[r] \o buf[r]) \o a = known[r] \o bytes
    <2>1. known[r] \o bytes \in Seq(Bytes)
      BY <1>3, ConcatProperties
    <2>2. (known[r] \o buf[r]) \o a = known[r] \o (buf[r] \o a)
      <3>1. known[r] \in Seq(Bytes) /\ buf[r] \in Seq(Bytes) /\ a \in Seq(Bytes)
        BY <1>3
      <3>2. \A s, t, u \in Seq(Bytes) : (s \o t) \o u = s \o (t \o u)
        BY ConcatAssociative
      <3> QED
        BY <3>1, <3>2, Zenon
    <2> QED
      BY <2>1, <2>2 DEF bytes
  <1>8. ReaderType' /\ ClockInv'
    <2>1. CASE n = 0 \/ Len(bytes) >= count[r]
      BY <1>2, <1>3, <1>4, <2>1, ReturnsKept
    <2>2. CASE ~(n = 0 \/ Len(bytes) >= count[r])
      <3>1. /\ buf' = [buf EXCEPT ![r] = bytes] /\ WaitRead(r, timeout'[r])
            /\ UNCHANGED <<count, timeout, ret, known>>
        BY <1>2, <2>2
      <3>2. timeout \in [Readers -> Timeouts \cup {0}]
        BY DEF IInv, TypeOK
      <3>3. /\ rpc' \in [Readers -> {"idle", "poll", "read"}]
            /\ left' \in [Readers -> Int] /\ waited' \in [Readers -> Nat]
            /\ interrupts' \in [Readers -> 0 .. MaxInterrupts]
            /\ ClockInv'
        BY <3>1, <3>2, WaitKept
      <3> QED
        BY <1>3, <3>1, <3>3 DEF IInv, TypeOK, ReaderType
    <2> QED
      BY <2>1, <2>2
  <1>9. known'[r] \o buf'[r] = (known[r] \o buf[r]) \o a
    <2>1. CASE n = 0 \/ Len(bytes) >= count[r]
      <3>1. known'[r] = known[r] \o bytes /\ buf'[r] = << >>
        BY <1>2, <2>1 DEF ReadReturns, IInv, TypeOK
      <3> QED
        BY <1>7, <3>1, ConcatEmptySeq
    <2>2. CASE ~(n = 0 \/ Len(bytes) >= count[r])
      <3>1. known'[r] = known[r] /\ buf'[r] = bytes
        BY <1>2, <2>2 DEF IInv, TypeOK
      <3> QED
        BY <1>7, <3>1
    <2> QED
      BY <2>1, <2>2
  <1>10. ASSUME NEW q \in Readers \ {r}
         PROVE  /\ known'[q] = known[q] /\ buf'[q] = buf[q]
                /\ rpc'[q] = rpc[q] /\ ret'[q] = ret[q] /\ count'[q] = count[q]
    BY <1>2 DEF ReadReturns, WaitRead, IInv, TypeOK
  <1>11. PipePart' /\ Conserved' /\ Behind'
    <2>1. Received(r)' = Received(r) \o SubSeq(pipe, 1, n)
      BY <1>9 DEF Received, a
    <2>2. \A q \in Readers \ {r} : Received(q)' = Received(q)
      BY <1>10 DEF Received
    <2>3. (base + wpos)' = base + wpos
      BY <1>2 DEF writer
    <2> QED
      BY <1>2, <2>1, <2>2, <2>3, TakenKept
  <1>12. rpc'[r] = "idle" /\ ret'[r] # ERRNO /\ ret'[r] < count'[r] => closed /\ pipe' = << >>
    <2> SUFFICES ASSUME rpc'[r] = "idle", ret'[r] # ERRNO, ret'[r] < count'[r]
                 PROVE  closed /\ pipe' = << >>
      OBVIOUS
    <2>1. CASE n = 0 \/ Len(bytes) >= count[r]
      <3>0. Len(bytes) # ERRNO
        BY <1>4 DEF ERRNO
      <3>1. ret'[r] = Len(bytes) /\ count'[r] = count[r]
        BY <1>2, <2>1, <3>0 DEF ReadReturns, IInv, TypeOK
      <3>2. Len(bytes) < count[r] /\ n = 0
        BY <1>4, <1>5, <2>1, <3>1
      <3>3. Len(bytes) = Len(buf[r]) + 0
        BY <1>3, <3>2
      <3>4. count[r] # Len(buf[r])
        BY <1>4, <1>5, <3>2, <3>3
      <3>5. closed /\ pipe = << >>
        BY <1>1, <3>2, <3>4
      <3> QED
        BY <1>6, <3>5
    <2>2. CASE ~(n = 0 \/ Len(bytes) >= count[r])
      <3>1. rpc'[r] # "idle"
        BY <1>2, <2>2 DEF WaitRead, IInv, TypeOK
      <3> QED
        BY <3>1
    <2> QED
      BY <2>1, <2>2
  <1>13. ShortIsEnd'
    BY <1>2, <1>6, <1>10, <1>12, ShortKept
  <1> QED
    BY <1>2, <1>8, <1>11, <1>13, WriterQuiet, PartsNext DEF StreamPart

(* Time passes.                                                            *)
LEMMA TickKept == ASSUME IInv, Tick PROVE IInv'
  <1> DEFINE Runs(r) == rpc[r] = "poll" /\ left[r] > 0
  <1>1. /\ UNCHANGED <<pipe, closed, writer, rpc, count, timeout, buf, interrupts, ret, known>>
        /\ left' = [r \in Readers |-> IF Runs(r) THEN left[r] - 1 ELSE left[r]]
        /\ waited' = [r \in Readers |-> IF Runs(r) THEN waited[r] + 1 ELSE waited[r]]
    BY DEF Tick
  <1>2. ASSUME NEW r \in Readers
        PROVE  /\ left[r] \in Int /\ waited[r] \in Nat
               /\ \/ left'[r] = left[r] /\ waited'[r] = waited[r]
                  \/ left[r] > 0 /\ left'[r] = left[r] - 1 /\ waited'[r] = waited[r] + 1
    BY <1>1 DEF IInv, TypeOK
  <1> HIDE DEF Runs
  <1>3. left' \in [Readers -> Int] /\ waited' \in [Readers -> Nat]
    BY <1>1, <1>2
  <1>4. ReaderType'
    BY <1>1, <1>3 DEF IInv, TypeOK, ReaderType
  <1>5. ClockInv'
    <2> SUFFICES ASSUME NEW r \in Readers, timeout[r] > 0
                 PROVE  left'[r] >= 0 /\ waited'[r] + left'[r] <= timeout[r] * (1 + interrupts[r])
      BY <1>1 DEF ClockInv
    <2>1. left[r] >= 0 /\ waited[r] + left[r] <= timeout[r] * (1 + interrupts[r])
      BY DEF IInv, ClockInv
    <2>2. left'[r] >= 0 /\ waited'[r] + left'[r] = waited[r] + left[r]
      BY <1>2, <2>1
    <2> QED
      BY <2>1, <2>2
  <1>6. PipePart' /\ Conserved' /\ Behind'
    BY <1>1, BytesQuiet DEF Received, writer
  <1>7. ShortIsEnd'
    BY <1>1 DEF IInv, ShortIsEnd
  <1> QED
    BY <1>1, <1>4, <1>5, <1>6, <1>7, WriterQuiet, PartsNext DEF StreamPart

-----------------------------------------------------------------------------
(* IInv holds in every reachable state.                                    *)
LEMMA StepKept == ASSUME IInv, [Next]_vars PROVE IInv'
  <1>1. ASSUME NEW n \in Counts, WriteAll(n) \/ SendSharedFd(n) PROVE IInv'
    BY <1>1, BeginsKept
  <1>2. ASSUME NEW n \in 0 .. Capacity, Write(n) \/ SendMsg(n) PROVE IInv'
    BY <1>2, SendsKept
  <1>3. ASSUME NEW r \in Readers, NEW n \in Counts, NEW ms \in Timeouts, ReadAll(r, n, ms) PROVE IInv'
    BY <1>3, ReadAllKept
  <1>4. ASSUME NEW r \in Readers, PollExpires(r) PROVE IInv'
    BY <1>4, FailureKept DEF PollExpires, Expired
  <1>5. ASSUME NEW r \in Readers, ReadFails(r) PROVE IInv'
    BY <1>5, FailureKept DEF ReadFails
  <1>6. ASSUME NEW r \in Readers, PollReady(r) \/ Reads(r) \/ PollInterrupted(r) PROVE IInv'
    BY <1>6, PollReadyKept, ReadsKept, PollInterruptedKept
  <1>7. CASE UNCHANGED vars
    <2>1. UNCHANGED <<pipe, closed, writer, reader>> /\ UNCHANGED <<known, buf, base, wpos>>
      BY <1>7 DEF vars, writer, reader
    <2>2. PipePart' /\ Conserved' /\ Behind'
      BY <2>1, BytesQuiet DEF Received
    <2>3. ShortIsEnd'
      BY <2>1 DEF IInv, ShortIsEnd, reader
    <2> QED
      BY <2>1, <2>2, <2>3, WriterQuiet, ReaderQuiet, PartsNext DEF StreamPart
  <1> QED
    BY <1>1, <1>2, <1>3, <1>4, <1>5, <1>6, <1>7, WriteFailsKept, CloseWriterKept, TickKept
       DEF Next, ReaderStep

(* The inductive invariant holds for any number of readers, bytes and      *)
(* interrupts.                                                             *)
LEMMA Inductive == Spec => []IInv
  BY InitInv, StepKept, PTL DEF Spec

(* Every variable has its type: the pipe never holds more than its         *)
(* capacity, and no offset leaves the data.                                *)
THEOREM TypeCorrect == Spec => []TypeOK
<1>1. IInv => TypeOK
  BY DEF IInv
<1> QED
  BY <1>1, Inductive, PTL

(* Reading and writing in parts lose, repeat and reorder no byte, however  *)
(* many readers share the descriptor.                                      *)
THEOREM BytesAreConserved == Spec => []Conserved
<1>1. IInv => Conserved
  BY DEF IInv
<1> QED
  BY <1>1, Inductive, PTL

(* Every xcp_sock_send_shared_fd that gets a byte through passes its       *)
(* descriptor once.                                                        *)
THEOREM DescriptorsPassOnce == Spec => []FdPassedOnce
<1>1. IInv => FdPassedOnce
  BY DEF IInv
<1> QED
  BY <1>1, Inductive, PTL

(* A short result of xcp_fd_read_all is the end of the stream.             *)
THEOREM ShortMeansEnd == Spec => []ShortIsEnd
<1>1. IInv => ShortIsEnd
  BY DEF IInv
<1> QED
  BY <1>1, Inductive, PTL

(* The bound that the code keeps, in place of WaitIsBounded: a wait lasts  *)
(* its timeout, and as long again for each EINTR, which restarts the       *)
(* timeout (io.c 66-72).                                                   *)
EachSignalRestarts ==
  \A r \in Readers : timeout[r] > 0 => waited[r] <= timeout[r] * (1 + interrupts[r])

(* No wait lasts longer than its timeout and the restarts of it.           *)
THEOREM WaitsAreBounded == Spec => []EachSignalRestarts
<1>1. IInv => EachSignalRestarts
  <2> SUFFICES ASSUME IInv, NEW r \in Readers, timeout[r] > 0
               PROVE  waited[r] <= timeout[r] * (1 + interrupts[r])
    BY DEF EachSignalRestarts
  <2>1. left[r] >= 0 /\ waited[r] + left[r] <= timeout[r] * (1 + interrupts[r])
    BY DEF IInv, ClockInv
  <2>2. left[r] \in Int /\ waited[r] \in Nat /\ interrupts[r] \in Nat
    BY StreamAssumption DEF IInv, TypeOK
  <2>3. timeout[r] \in Int
    <3>1. timeout[r] \in Timeouts \cup {0}
      BY DEF IInv, TypeOK
    <3>2. Timeouts \cup {0} \subseteq Int
      BY StreamAssumption
    <3> QED
      BY <3>1, <3>2
  <2>4. timeout[r] * (1 + interrupts[r]) \in Int
    BY <2>2, <2>3
  <2> QED
    BY <2>1, <2>2, <2>4
<1> QED
  BY <1>1, Inductive, PTL

(* EINTR is all that makes a wait longer than io.h 41 says: the documented *)
(* bound holds where no signal can come.                                   *)
THEOREM WaitsWithoutSignals ==
  ASSUME MaxInterrupts = 0
  PROVE  Spec => []WaitIsBounded
<1>1. TypeOK /\ EachSignalRestarts => WaitIsBounded
  <2> SUFFICES ASSUME TypeOK, EachSignalRestarts, NEW r \in Readers, timeout[r] > 0
               PROVE  waited[r] <= timeout[r]
    BY DEF WaitIsBounded
  <2>1. interrupts[r] = 0
    BY DEF TypeOK
  <2>2. timeout[r] \in Int
    <3>1. timeout[r] \in Timeouts \cup {0}
      BY DEF TypeOK
    <3>2. Timeouts \cup {0} \subseteq Int
      BY StreamAssumption
    <3> QED
      BY <3>1, <3>2
  <2>3. timeout[r] * (1 + 0) = timeout[r]
    BY <2>2
  <2> QED
    BY <2>1, <2>3 DEF EachSignalRestarts
<1> QED
  BY <1>1, TypeCorrect, WaitsAreBounded, PTL

(* With one reader, a step keeps what its poll has announced.              *)
LEMMA ReadyStep ==
  ASSUME \A r, q \in Readers : r = q, IInv, ReadyWhenRead, [Next]_vars
  PROVE  ReadyWhenRead'
  <1> SUFFICES ASSUME NEW r \in Readers, rpc'[r] = "read", timeout'[r] # 0
               PROVE  pipe' # << >> \/ closed'
    BY DEF ReadyWhenRead
  <1>1. ASSUME UNCHANGED <<rpc, timeout>>, pipe # << >> => pipe' # << >>, closed => closed'
        PROVE  pipe' # << >> \/ closed'
    BY <1>1 DEF ReadyWhenRead
  <1>2. ASSUME NEW n \in Counts, WriteAll(n) \/ SendSharedFd(n) PROVE pipe' # << >> \/ closed'
    BY <1>1, <1>2 DEF WriteAll, SendSharedFd, reader
  <1>3. ASSUME NEW n \in 0 .. Capacity, Write(n) \/ SendMsg(n) PROVE pipe' # << >> \/ closed'
    <2>1. UNCHANGED <<rpc, timeout, closed>> /\ Transfers(n)
      BY <1>3 DEF Write, SendMsg, reader
    <2>2. pipe # << >> => pipe' # << >>
      <3>1. PICK sent \in Seq(Bytes) : pipe' = pipe \o sent
        BY <2>1, TransferEffect DEF IInv
      <3>2. pipe \in Seq(Bytes)
        BY DEF IInv, TypeOK
      <3> QED
        BY <3>1, <3>2
    <2> QED
      BY <1>1, <2>1, <2>2
  <1>4. ASSUME WriteFails \/ CloseWriter \/ Tick \/ UNCHANGED vars PROVE pipe' # << >> \/ closed'
    BY <1>1, <1>4 DEF WriteFails, CloseWriter, Tick, vars, writer, reader
  <1>5. ASSUME NEW n \in Counts, NEW ms \in Timeouts, ReadAll(r, n, ms) PROVE FALSE
    BY <1>5 DEF ReadAll, WaitRead, IInv, TypeOK
  <1>6. ASSUME PollReady(r) PROVE pipe' # << >> \/ closed'
    BY <1>6 DEF PollReady
  <1>7. ASSUME NEW value, NEW bytes, ReadReturns(r, value, bytes) PROVE FALSE
    BY <1>7 DEF ReadReturns, IInv, TypeOK
  <1>8. ASSUME PollInterrupted(r) PROVE FALSE
    BY <1>8 DEF PollInterrupted, AfterEINTR, IInv, TypeOK
  <1>9. ASSUME Reads(r) PROVE FALSE
    <2>1. PICK n \in 0 .. Len(pipe) : Read(r, n)
      BY <1>9 DEF Reads
    <2>2. WaitRead(r, timeout[r]) /\ timeout' = timeout
      BY <1>7, <2>1 DEF Read
    <2> QED
      BY <2>2 DEF WaitRead, IInv, TypeOK
  <1>10. ASSUME ReaderStep(r) \/ ReadFails(r) PROVE pipe' # << >> \/ closed'
    BY <1>6, <1>7, <1>9, <1>10 DEF ReaderStep, PollExpires, Expired, ReadFails
  <1> QED
    BY <1>2, <1>3, <1>4, <1>5, <1>8, <1>10 DEF Next

(* A process that reads alone is never blocked by a read after its poll.   *)
THEOREM AloneIsReady == ASSUME \A r, q \in Readers : r = q PROVE Spec => []ReadyWhenRead
<1>1. Init => ReadyWhenRead
  BY DEF Init, ReadyWhenRead
<1>2. IInv /\ ReadyWhenRead /\ [Next]_vars => ReadyWhenRead'
  BY ReadyStep
<1> QED
  BY <1>1, <1>2, Inductive, PTL DEF Spec
=============================================================================
