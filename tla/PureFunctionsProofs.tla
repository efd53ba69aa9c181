------------------------ MODULE PureFunctionsProofs -------------------------
(***************************************************************************)
(* Proofs about path.c, string.c, endian.h, math.h and algorithm.h, for    *)
(* every input: any alphabet and length, any limits of the C types, any    *)
(* base and any widths.                                                    *)
(***************************************************************************)
EXTENDS PureFunctions, TLAPS, SequenceTheorems, WellFoundedInduction

-----------------------------------------------------------------------------
(* The least and the greatest number of a set, and sequences.              *)

(* A set of natural numbers that is not empty has a least element.         *)
LEMMA LeastNumber ==
  ASSUME NEW T \in SUBSET Nat, T # {}
  PROVE  \E m \in T : \A k \in T : m <= k
<1>1. PICK m \in T : \A k \in T : <<k, m>> \notin OpToRel(<, Nat)
  BY NatLessThanWellFounded, WFMin
<1>2. \A k \in T : ~(k < m)
  BY <1>1 DEF OpToRel
<1> QED
  BY <1>2

(* Min is that element.                                                    *)
LEMMA MinIs ==
  ASSUME NEW T \in SUBSET Nat, T # {}
  PROVE  Min(T) \in T /\ \A k \in T : Min(T) <= k
<1>1. \E m \in T : \A k \in T : m <= k
  BY LeastNumber
<1> QED
  BY <1>1 DEF Min

(* Max is an upper bound that is reached, if there is an upper bound.      *)
LEMMA MaxIs ==
  ASSUME NEW n \in Nat, NEW T \in SUBSET (0 .. n), T # {}
  PROVE  Max(T) \in T /\ \A k \in T : k <= Max(T)
<1> DEFINE U == {n - k : k \in T}
<1>1. U \in SUBSET Nat /\ U # {}
  <2>1. \A k \in T : k \in 0 .. n /\ n - k \in Nat
    OBVIOUS
  <2>2. PICK k \in T : TRUE
    OBVIOUS
  <2>3. n - k \in U
    OBVIOUS
  <2> QED
    BY <2>1, <2>3
<1>2. PICK m \in U : \A k \in U : m <= k
  BY <1>1, LeastNumber
<1>3. PICK t \in T : m = n - t
  BY <1>2
<1>4. \A k \in T : t >= k
  <2> SUFFICES ASSUME NEW k \in T PROVE t >= k
    OBVIOUS
  <2>1. n - k \in U
    OBVIOUS
  <2>2. m <= n - k
    BY <1>2, <2>1
  <2> QED
    BY <1>3, <2>2
<1>5. \E x \in T : \A y \in T : x >= y
  BY <1>4
<1>6. Max(T) \in T /\ \A y \in T : Max(T) >= y
  BY <1>5 DEF Max
<1> QED
  BY <1>6

(* The last of the first n positions that belong to a set P, 0 if there is *)
(* none.                                                                   *)
LEMMA LastPosition ==
  ASSUME NEW n \in Int, NEW P
  PROVE  LET m == Max({0} \cup {k \in 1 .. n : k \in P})
         IN  /\ m \in Nat /\ (m = 0 \/ m <= n)
             /\ m > 0 => m \in P
             /\ \A k \in 1 .. n : k \in P => k <= m
<1> DEFINE T == {0} \cup {k \in 1 .. n : k \in P}
           m == Max(T)
<1>1. PICK b \in Nat : T \in SUBSET (0 .. b)
  <2>1. CASE n >= 0
    BY <2>1
  <2>2. CASE n < 0
    <3>1. T \in SUBSET (0 .. 0)
      BY <2>2
    <3> QED
      BY <3>1
  <2> QED
    BY <2>1, <2>2
<1>2. T # {}
  OBVIOUS
<1>3. m \in T /\ \A k \in T : k <= m
  BY <1>1, <1>2, MaxIs
<1> QED
  BY <1>3

(* A function on 1 .. n is a sequence.                                     *)
LEMMA FunctionIsSeq ==
  ASSUME NEW S, NEW n \in Nat, NEW f \in [1 .. n -> S]
  PROVE  f \in Seq(S) /\ Len(f) = n
<1>1. f \in Seq(S)
  BY SeqDef
<1> QED
  BY <1>1, LenProperties

(* The first m elements of a sequence.                                     *)
LEMMA PrefixProperties ==
  ASSUME NEW S, NEW s \in Seq(S), NEW m \in 0 .. Len(s)
  PROVE  /\ SubSeq(s, 1, m) \in Seq(S) /\ Len(SubSeq(s, 1, m)) = m
         /\ \A i \in 1 .. m : SubSeq(s, 1, m)[i] = s[i]
<1>1. Len(s) \in Nat /\ \A i \in 1 .. Len(s) : s[i] \in S
  BY LenProperties, ElementOfSeq
<1>2. \A i \in 1 .. m : s[i] \in S
  BY <1>1
<1>3. /\ SubSeq(s, 1, m) \in Seq(S)
      /\ Len(SubSeq(s, 1, m)) = IF 1 <= m THEN m - 1 + 1 ELSE 0
      /\ \A i \in 1 .. m - 1 + 1 : SubSeq(s, 1, m)[i] = s[1 + i - 1]
  BY <1>2, SubSeqProperties
<1> QED
  BY <1>1, <1>3

(* Equal prefixes of two sequences.                                        *)
LEMMA PrefixesEqual ==
  ASSUME NEW S, NEW s \in Seq(S), NEW t \in Seq(S),
         NEW m \in 0 .. Len(s), m <= Len(t), \A i \in 1 .. m : s[i] = t[i]
  PROVE  SubSeq(s, 1, m) = SubSeq(t, 1, m)
<1>1. Len(t) \in Nat /\ Len(s) \in Nat
  BY LenProperties
<1>2. /\ SubSeq(s, 1, m) \in Seq(S) /\ Len(SubSeq(s, 1, m)) = m
      /\ \A i \in 1 .. m : SubSeq(s, 1, m)[i] = s[i]
  BY PrefixProperties
<1>3. m \in 0 .. Len(t)
  BY <1>1
<1>4. /\ SubSeq(t, 1, m) \in Seq(S) /\ Len(SubSeq(t, 1, m)) = m
      /\ \A i \in 1 .. m : SubSeq(t, 1, m)[i] = t[i]
  BY <1>3, PrefixProperties
<1> QED
  BY <1>2, <1>4, SeqEqual

-----------------------------------------------------------------------------
(* path.c.                                                                 *)

(* strrchr and memrchr: the last slash among the first n characters.       *)
LEMMA LastSlashIs ==
  ASSUME NEW s, NEW n \in Int
  PROVE  /\ LastSlash(s, n) \in Nat /\ (LastSlash(s, n) = 0 \/ LastSlash(s, n) <= n)
         /\ LastSlash(s, n) > 0 => s[LastSlash(s, n)] = Slash
         /\ \A k \in 1 .. n : s[k] = Slash => k <= LastSlash(s, n)
<1> DEFINE P == {k \in Int : s[k] = Slash}
           m == Max({0} \cup {k \in 1 .. n : k \in P})
<1>1. {k \in 1 .. n : k \in P} = {k \in 1 .. n : s[k] = Slash}
  OBVIOUS
<1>2. m = LastSlash(s, n)
  BY <1>1 DEF LastSlash
<1>3. /\ m \in Nat /\ (m = 0 \/ m <= n)
      /\ m > 0 => m \in P
      /\ \A k \in 1 .. n : k \in P => k <= m
  <2> HIDE DEF P
  <2> QED
    BY LastPosition
<1> HIDE DEF m
<1> QED
  BY <1>2, <1>3

(* The last of the first n characters that is no slash.                    *)
LastOther(s, n) == Max({0} \cup {k \in 1 .. n : s[k] # Slash})

(* It is none, or such a character after which there are slashes only.     *)
LEMMA LastOtherIs ==
  ASSUME NEW s, NEW n \in Int
  PROVE  /\ LastOther(s, n) \in Nat /\ (LastOther(s, n) = 0 \/ LastOther(s, n) <= n)
         /\ LastOther(s, n) > 0 => s[LastOther(s, n)] # Slash
         /\ \A k \in 1 .. n : s[k] # Slash => k <= LastOther(s, n)
<1> DEFINE P == {k \in Int : s[k] # Slash}
           m == Max({0} \cup {k \in 1 .. n : k \in P})
<1>1. {k \in 1 .. n : k \in P} = {k \in 1 .. n : s[k] # Slash}
  OBVIOUS
<1>2. m = LastOther(s, n)
  BY <1>1 DEF LastOther
<1>3. /\ m \in Nat /\ (m = 0 \/ m <= n)
      /\ m > 0 => m \in P
      /\ \A k \in 1 .. n : k \in P => k <= m
  <2> HIDE DEF P
  <2> QED
    BY LastPosition
<1> HIDE DEF m
<1> QED
  BY <1>2, <1>3

(* It depends on the first n characters only.                              *)
LEMMA LastOtherSame ==
  ASSUME NEW s, NEW t, NEW n \in Int, \A k \in 1 .. n : s[k] = t[k]
  PROVE  LastOther(s, n) = LastOther(t, n)
<1>1. {k \in 1 .. n : s[k] # Slash} = {k \in 1 .. n : t[k] # Slash}
  OBVIOUS
<1> QED
  BY <1>1 DEF LastOther

(* How much of a path remains without the slashes at its end.              *)
Rest(s, n) ==
  IF LastOther(s, n) > 0 THEN LastOther(s, n) ELSE IF n \in {0, 2} THEN n ELSE 1

(* Trimmed leaves a prefix: a root of slashes is a prefix too.             *)
LEMMA TrimmedIs ==
  ASSUME NEW S, NEW s \in Seq(S)
  PROVE  Rest(s, Len(s)) \in 0 .. Len(s) /\ Trimmed(s) = SubSeq(s, 1, Rest(s, Len(s)))
<1> DEFINE n == Len(s)
           e == LastOther(s, n)
<1>1. n \in Nat /\ (n = 0 <=> s = << >>)
  BY LenProperties, EmptySeq
<1>2. /\ e \in Nat /\ (e = 0 \/ e <= n)
      /\ \A k \in 1 .. n : s[k] # Slash => k <= e
  BY <1>1, LastOtherIs
<1>3. Trimmed(s) = IF e > 0
                   THEN SubSeq(s, 1, e)
                   ELSE CASE n = 0 -> << >>
                          [] n = 2 -> <<Slash, Slash>>
                          [] OTHER -> <<Slash>>
  BY DEF Trimmed, LastOther
<1>4. Rest(s, n) \in 0 .. n
  BY <1>1, <1>2 DEF Rest
<1>5. CASE e > 0
  BY <1>1, <1>2, <1>3, <1>4, <1>5 DEF Rest
<1>6. CASE n = 0
  <2>1. Rest(s, n) = 0 /\ Trimmed(s) = << >>
    BY <1>1, <1>2, <1>3, <1>6 DEF Rest
  <2>2. SubSeq(s, 1, 0) = << >>
    BY SubSeqEmpty
  <2> QED
    BY <1>4, <2>1, <2>2
<1>7. CASE e = 0 /\ n > 0
  <2>1. \A k \in 1 .. n : s[k] = Slash
    BY <1>1, <1>2, <1>7
  <2>2. Rest(s, n) = (IF n = 2 THEN 2 ELSE 1)
        /\ Trimmed(s) = (IF n = 2 THEN <<Slash, Slash>> ELSE <<Slash>>)
    BY <1>1, <1>2, <1>3, <1>7 DEF Rest
  <2>3. 1 \in 0 .. n /\ (n = 2 => 2 \in 0 .. n)
    <3> HIDE DEF n, e
    <3> QED
      BY <1>1, <1>7
  <2>4. 1 \in 1 .. n /\ Slash \in S
    BY <1>1, <1>7, <2>1, ElementOfSeq
  <2>5. <<Slash>> \in Seq(S) /\ <<Slash, Slash>> \in Seq(S)
    BY <2>4
  <2>6. CASE n = 2
    <3>1. /\ SubSeq(s, 1, 2) \in Seq(S) /\ Len(SubSeq(s, 1, 2)) = 2
          /\ \A i \in 1 .. 2 : SubSeq(s, 1, 2)[i] = s[i]
      BY <2>3, <2>6, PrefixProperties
    <3>2. \A i \in 1 .. 2 : SubSeq(s, 1, 2)[i] = <<Slash, Slash>>[i]
      BY <2>1, <2>6, <3>1
    <3>3. Len(<<Slash, Slash>>) = 2
      OBVIOUS
    <3>4. SubSeq(s, 1, 2) = <<Slash, Slash>>
      BY <2>5, <3>1, <3>2, <3>3, SeqEqual
    <3> QED
      BY <1>4, <2>2, <2>6, <3>4
  <2>7. CASE n # 2
    <3>1. /\ SubSeq(s, 1, 1) \in Seq(S) /\ Len(SubSeq(s, 1, 1)) = 1
          /\ \A i \in 1 .. 1 : SubSeq(s, 1, 1)[i] = s[i]
      BY <2>3, PrefixProperties
    <3>2. \A i \in 1 .. 1 : SubSeq(s, 1, 1)[i] = <<Slash>>[i]
      BY <2>1, <2>4, <3>1
    <3>3. Len(<<Slash>>) = 1
      OBVIOUS
    <3>4. SubSeq(s, 1, 1) = <<Slash>>
      BY <2>5, <3>1, <3>2, <3>3, SeqEqual
    <3> QED
      BY <1>4, <2>2, <2>7, <3>4
  <2> QED
    BY <2>6, <2>7
<1> QED
  BY <1>1, <1>2, <1>5, <1>6, <1>7

(* There is only one position like that for the slash ...                  *)
LEMMA LastSlashUnique ==
  ASSUME NEW s, NEW n \in Int, NEW m \in Nat, m = 0 \/ m <= n, m > 0 => s[m] = Slash,
         \A k \in 1 .. n : s[k] = Slash => k <= m
  PROVE  LastSlash(s, n) = m
<1> DEFINE l == LastSlash(s, n)
<1>1. /\ l \in Nat /\ (l = 0 \/ l <= n)
      /\ l > 0 => s[l] = Slash
      /\ \A k \in 1 .. n : s[k] = Slash => k <= l
  BY LastSlashIs
<1> HIDE DEF l
<1>2. l <= m
  BY <1>1
<1>3. m <= l
  BY <1>1
<1> QED
  BY <1>1, <1>2, <1>3 DEF l

(* ... and only one for the other characters.                              *)
LEMMA LastOtherUnique ==
  ASSUME NEW s, NEW n \in Int, NEW m \in Nat, m = 0 \/ m <= n, m > 0 => s[m] # Slash,
         \A k \in 1 .. n : s[k] # Slash => k <= m
  PROVE  LastOther(s, n) = m
<1> DEFINE l == LastOther(s, n)
<1>1. /\ l \in Nat /\ (l = 0 \/ l <= n)
      /\ l > 0 => s[l] # Slash
      /\ \A k \in 1 .. n : s[k] # Slash => k <= l
  BY LastOtherIs
<1> HIDE DEF l
<1>2. l <= m
  BY <1>1
<1>3. m <= l
  BY <1>1
<1> QED
  BY <1>1, <1>2, <1>3 DEF l

(* get_first_slash and the last character that is no slash.                *)
LEMMA FirstSlashIs ==
  ASSUME NEW s, NEW pos \in Int
  PROVE  GetFirstSlash(s, pos) = LastOther(s, pos - 1) + 1
BY DEF GetFirstSlash, LastOther

(* Steps 1 and 2 of xcp_path_parent_dir find the slash before the last     *)
(* component, or the last one of a root.                                   *)
LEMMA SlashFound ==
  ASSUME NEW S, NEW s \in Seq(S)
  PROVE  LET e == LastOther(s, Len(s)) IN SlashOf(s) = IF e > 0 THEN LastSlash(s, e) ELSE Len(s)
<1>1. PICK n \in Nat : n = Len(s)
  BY LenProperties
<1>2. PICK e \in Nat : e = LastOther(s, n)
  BY LastOtherIs
<1>3. /\ e <= n /\ (e > 0 => s[e] # Slash)
      /\ \A k \in 1 .. n : s[k] # Slash => k <= e
  BY <1>2, LastOtherIs
<1>4. PICK last \in Nat : last = LastSlash(s, n)
  BY LastSlashIs
<1>5. /\ last <= n /\ (last > 0 => s[last] = Slash)
      /\ \A k \in 1 .. n : s[k] = Slash => k <= last
  BY <1>4, LastSlashIs
<1>6. SlashOf(s) = IF last > 1 /\ last = n /\ LastOther(s, last - 1) + 1 # 1
                   THEN LastSlash(s, (LastOther(s, last - 1) + 1) - 1)
                   ELSE last
  BY <1>1, <1>4, FirstSlashIs DEF SlashOf
<1>7. CASE e > 0 /\ e < n
  <2>1. last = n
    <3>1. n \in 1 .. n /\ s[n] = Slash
      BY <1>3, <1>7
    <3> QED
      BY <1>5, <3>1
  <2>2. LastOther(s, n - 1) = e
    <3>1. e <= n - 1 /\ \A k \in 1 .. n - 1 : s[k] # Slash => k <= e
      BY <1>3, <1>7
    <3> QED
      BY <1>3, <1>7, <3>1, LastOtherUnique
  <2>3. last > 1 /\ (e + 1) - 1 = e /\ e + 1 # 1
    BY <1>7, <2>1
  <2>4. SlashOf(s) = LastSlash(s, e)
    BY <1>6, <2>1, <2>2, <2>3
  <2> QED
    BY <1>1, <1>2, <1>7, <2>4
<1>8. CASE e > 0 /\ e = n
  <2>1. last # n
    BY <1>3, <1>5, <1>8
  <2> QED
    BY <1>1, <1>2, <1>4, <1>6, <1>8, <2>1
<1>9. CASE e = 0
  <2>1. \A k \in 1 .. n : s[k] = Slash
    BY <1>3, <1>9
  <2>2. last = n
    <3>1. n > 0 => n \in 1 .. n
      OBVIOUS
    <3> QED
      BY <1>5, <2>1, <3>1
  <2>3. LastOther(s, n - 1) = 0
    <3>1. PICK l \in Int : l = n - 1
      OBVIOUS
    <3>2. \A k \in 1 .. l : ~(s[k] # Slash)
      BY <2>1, <3>1
    <3>3. LastOther(s, l) = 0
      BY <3>2, LastOtherIs
    <3> QED
      BY <3>1, <3>3
  <2> QED
    BY <1>1, <1>2, <1>6, <1>9, <2>2, <2>3
<1> QED
  BY <1>3, <1>7, <1>8, <1>9

(* What step 3 keeps before a slash is the path up to it, trimmed.         *)
LEMMA KeptIs ==
  ASSUME NEW s, NEW b \in Nat, b > 0, s[b] = Slash
  PROVE  KeptLength(s, b) = Rest(s, b)
<1>1. PICK e \in Nat : e = LastOther(s, b)
  BY LastOtherIs
<1>2. /\ e <= b /\ (e > 0 => s[e] # Slash)
      /\ \A k \in 1 .. b : s[k] # Slash => k <= e
  BY <1>1, LastOtherIs
<1>3. LastOther(s, b - 1) = e
  <2>1. (e = 0 \/ e <= b - 1) /\ \A k \in 1 .. b - 1 : s[k] # Slash => k <= e
    BY <1>2
  <2> QED
    BY <1>2, <2>1, LastOtherUnique
<1>4. KeptLength(s, b) = IF e + 1 = 1 THEN IF b = 2 THEN 2 ELSE 1 ELSE (e + 1) - 1
  BY <1>3, FirstSlashIs DEF KeptLength
<1> QED
  BY <1>1, <1>4 DEF Rest

(* xcp_path_parent_dir in terms of these positions.                        *)
LEMMA ParentDirIs ==
  ASSUME NEW S, NEW s \in Seq(S)
  PROVE  LET n == Len(s)
             e == LastOther(s, n)
             b == LastSlash(s, e)
         IN  ParentDir(s) = IF e = 0 /\ n > 0
                            THEN SubSeq(s, 1, Rest(s, n))
                            ELSE IF b = 0 THEN <<".">> ELSE SubSeq(s, 1, Rest(s, b))
<1>1. PICK n \in Nat : n = Len(s)
  BY LenProperties
<1>2. PICK e \in Nat : e = LastOther(s, n)
  BY LastOtherIs
<1>3. PICK b \in Nat : b = LastSlash(s, e)
  BY LastSlashIs
<1>4. SlashOf(s) = IF e > 0 THEN b ELSE n
  BY <1>1, <1>2, <1>3, SlashFound
<1>5. ParentDir(s) = IF SlashOf(s) = 0 THEN <<".">> ELSE SubSeq(s, 1, KeptLength(s, SlashOf(s)))
  BY DEF ParentDir
<1>6. CASE e = 0 /\ n > 0
  <2>1. s[n] = Slash
    <3>1. \A k \in 1 .. n : s[k] # Slash => k <= e
      BY <1>2, LastOtherIs
    <3>2. n \in 1 .. n
      BY <1>6
    <3> QED
      BY <1>6, <3>1, <3>2
  <2>2. KeptLength(s, n) = Rest(s, n)
    BY <1>6, <2>1, KeptIs
  <2>3. ParentDir(s) = SubSeq(s, 1, Rest(s, n))
    <3>1. SlashOf(s) = n
      BY <1>4, <1>6
    <3>2. n # 0
      BY <1>6
    <3> QED
      BY <1>5, <2>2, <3>1, <3>2, Zenon
  <2> QED
    BY <1>1, <1>2, <1>6, <2>3
<1>7. CASE e = 0 /\ n = 0
  <2>1. b = 0
    BY <1>3, <1>7, LastSlashIs
  <2> QED
    BY <1>1, <1>2, <1>3, <1>4, <1>5, <1>7, <2>1
<1>8. CASE e > 0
  <2>1. b > 0 => KeptLength(s, b) = Rest(s, b)
    <3>1. b > 0 => s[b] = Slash
      BY <1>3, LastSlashIs
    <3> QED
      BY <3>1, KeptIs
  <2> QED
    BY <1>1, <1>2, <1>3, <1>4, <1>5, <1>8, <2>1
<1> QED
  BY <1>6, <1>7, <1>8

(* The reference in terms of the same positions.                           *)
LEMMA ParentIs ==
  ASSUME NEW S, NEW s \in Seq(S)
  PROVE  LET n == Len(s)
             e == LastOther(s, n)
             b == LastSlash(s, e)
         IN  Parent(s) = IF e = 0 /\ n > 0
                         THEN SubSeq(s, 1, Rest(s, n))
                         ELSE IF b = 0 THEN <<".">> ELSE SubSeq(s, 1, Rest(s, b))
<1>1. PICK n \in Nat : n = Len(s)
  BY LenProperties
<1>2. PICK e \in Nat : e = LastOther(s, n)
  BY LastOtherIs
<1>3. PICK b \in Nat : b = LastSlash(s, e)
  BY LastSlashIs
<1>4. /\ e <= n /\ (e > 0 => s[e] # Slash)
      /\ \A k \in 1 .. n : s[k] # Slash => k <= e
  BY <1>2, LastOtherIs
<1>5. /\ b <= e /\ (b > 0 => s[b] = Slash)
      /\ \A k \in 1 .. e : s[k] = Slash => k <= b
  BY <1>3, LastSlashIs
<1>6. PICK t \in 0 .. n : t = Rest(s, n) /\ Trimmed(s) = SubSeq(s, 1, t)
  BY <1>1, TrimmedIs
<1>7. PICK T \in Seq(S) : T = SubSeq(s, 1, t) /\ Len(T) = t /\ \A i \in 1 .. t : T[i] = s[i]
  BY <1>1, <1>6, PrefixProperties
<1>8. DOMAIN T = 1 .. t
  BY <1>7, LenProperties
<1> DEFINE ends   == {k \in 0 .. Len(T) - 1 : k = 0 \/ T[k] = Slash}
           isRoot == T # << >> /\ \A k \in DOMAIN T : T[k] = Slash
           before == SubSeq(T, 1, Max(ends \cup {0}))
<1>9. Parent(s) = IF isRoot THEN T ELSE IF before = << >> THEN <<".">> ELSE Trimmed(before)
  BY <1>6, <1>7 DEF Parent
<1>10. Max(ends \cup {0}) = LastSlash(T, t - 1)
  <2>1. ends \cup {0} = {0} \cup {k \in 1 .. t - 1 : T[k] = Slash}
    BY <1>7
  <2> QED
    BY <2>1 DEF LastSlash
<1> HIDE DEF ends
<1>11. T = << >> <=> t = 0
  BY <1>7, EmptySeq
<1>12. CASE e = 0 /\ n > 0
  <2>1. t > 0
    BY <1>2, <1>6, <1>12 DEF Rest
  <2>2. isRoot
    BY <1>4, <1>7, <1>8, <1>11, <1>12, <2>1
  <2> QED
    BY <1>1, <1>2, <1>6, <1>7, <1>9, <1>12, <2>2
<1>13. CASE ~(e = 0 /\ n > 0)
  <2>1. t = e
    BY <1>2, <1>4, <1>6, <1>13 DEF Rest
  <2>2. ~isRoot
    <3>1. e > 0 => e \in DOMAIN T /\ T[e] # Slash
      BY <1>4, <1>7, <1>8, <2>1
    <3> QED
      BY <1>11, <2>1, <3>1
  <2>3. LastSlash(T, t - 1) = b
    <3>1. /\ b = 0 \/ b <= t - 1
          /\ b > 0 => T[b] = Slash
          /\ \A k \in 1 .. t - 1 : T[k] = Slash => k <= b
      <4>1. b # e \/ b = 0
        BY <1>4, <1>5
      <4> QED
        BY <1>5, <1>7, <2>1, <4>1
    <3>2. t - 1 \in Int
      BY <1>6
    <3> QED
      BY <3>1, <3>2, LastSlashUnique
  <2>4. before = SubSeq(s, 1, b)
    <3>1. before = SubSeq(T, 1, b)
      BY <1>10, <2>3
    <3>2. b \in 0 .. Len(T) /\ b <= Len(s) /\ \A i \in 1 .. b : T[i] = s[i]
      BY <1>1, <1>4, <1>5, <1>7, <2>1
    <3> QED
      BY <3>1, <3>2, PrefixesEqual
  <2>5. b \in 0 .. Len(s)
    BY <1>1, <1>4, <1>5
  <2>6. PICK B \in Seq(S) : B = before /\ Len(B) = b /\ \A i \in 1 .. b : B[i] = s[i]
    BY <2>4, <2>5, PrefixProperties
  <2> HIDE DEF before
  <2>7. Rest(B, b) \in 0 .. b /\ Trimmed(B) = SubSeq(B, 1, Rest(B, b))
    BY <2>6, TrimmedIs
  <2>8. Rest(B, b) = Rest(s, b)
    <3>1. LastOther(B, b) = LastOther(s, b)
      BY <2>6, LastOtherSame
    <3> QED
      BY <3>1 DEF Rest
  <2>9. Trimmed(B) = SubSeq(s, 1, Rest(s, b))
    <3>1. Rest(B, b) \in 0 .. Len(B) /\ Rest(B, b) <= Len(s)
      BY <1>1, <1>4, <1>5, <2>6, <2>7
    <3>2. \A i \in 1 .. Rest(B, b) : B[i] = s[i]
      BY <2>6, <2>7
    <3>3. SubSeq(B, 1, Rest(B, b)) = SubSeq(s, 1, Rest(B, b))
      BY <3>1, <3>2, PrefixesEqual
    <3> QED
      BY <2>7, <2>8, <3>3
  <2>10. before = << >> <=> b = 0
    BY <2>6, EmptySeq
  <2>11. Parent(s) = IF b = 0 THEN <<".">> ELSE SubSeq(s, 1, Rest(s, b))
    BY <1>9, <2>2, <2>6, <2>9, <2>10
  <2> QED
    BY <1>1, <1>2, <1>3, <1>13, <2>11
<1> QED
  BY <1>12, <1>13

(* xcp_path_parent_dir agrees with the reference for every path.           *)
LEMMA ParentDirCorrect ==
  ASSUME NEW S, NEW s \in Seq(S)
  PROVE  ParentDir(s) = Parent(s)
BY ParentDirIs, ParentIs

(* Three parts of a path.                                                  *)
Parts(S, s, t, u) == s \in Seq(S) /\ t \in Seq(S) /\ u \in Seq(S)

(* It does not matter how they are grouped.                                *)
LEMMA Regrouped ==
  ASSUME NEW S, NEW s, NEW t, NEW u, Parts(S, s, t, u)
  PROVE  (s \o t) \o u = s \o (t \o u)
<1>1. s \in Seq(S) /\ t \in Seq(S) /\ u \in Seq(S)
  BY DEF Parts
<1> QED
  BY <1>1, ConcatAssociative

(* The slash that xcp_path_combine puts between the two parts, if any.     *)
Separator(s) == IF s[Len(s)] # Slash THEN <<Slash>> ELSE << >>

(* A path of at least one character, with its separator.                   *)
LEMMA Separated ==
  ASSUME NEW S, Slash \in S, NEW p \in Seq(S), p # << >>
  PROVE  /\ Separator(p) \in Seq(S) /\ p \o Separator(p) \in Seq(S)
         /\ Len(p) \in Nat /\ Len(p) > 0
         /\ Len(p \o Separator(p)) = Len(p) + (IF p[Len(p)] # Slash THEN 1 ELSE 0)
         /\ \A i \in 1 .. Len(p) : (p \o Separator(p))[i] = p[i]
         /\ (p \o Separator(p))[Len(p \o Separator(p))] = Slash
         /\ p \o Separator(p) # << >>
<1>1. PICK n \in Nat : n = Len(p) /\ n > 0
  BY EmptySeq, LenProperties
<1>2. PICK t \in Seq(S) : t = Separator(p) /\ Len(t) = IF p[n] # Slash THEN 1 ELSE 0
  <2>1. <<Slash>> \in Seq(S) /\ << >> \in Seq(S) /\ Len(<<Slash>>) = 1 /\ Len(<< >>) = 0
    OBVIOUS
  <2>2. CASE p[n] # Slash
    <3>1. Separator(p) = <<Slash>>
      BY <1>1, <2>2 DEF Separator
    <3>2. Separator(p) \in Seq(S) /\ Len(Separator(p)) = 1
      BY <2>1, <3>1, Zenon
    <3> QED
      BY <2>2, <3>2
  <2>3. CASE p[n] = Slash
    <3>1. Separator(p) = << >>
      BY <1>1, <2>3 DEF Separator
    <3>2. Separator(p) \in Seq(S) /\ Len(Separator(p)) = 0
      BY <2>1, <3>1, Zenon
    <3> QED
      BY <2>3, <3>2
  <2> QED
    BY <2>2, <2>3
<1>3. t[1] = Slash \/ Len(t) = 0
  BY <1>2 DEF Separator
<1>4. PICK q \in Seq(S) : q = p \o t
  BY ConcatProperties
<1>5. /\ Len(q) = n + Len(t)
      /\ \A i \in 1 .. n + Len(t) : q[i] = IF i <= n THEN p[i] ELSE t[i - n]
  BY <1>1, <1>4, ConcatProperties
<1>6. \A i \in 1 .. n : q[i] = p[i]
  BY <1>2, <1>5
<1>7. q[Len(q)] = Slash
  <2>1. CASE p[n] # Slash
    <3>1. Len(t) = 1 /\ t[1] = Slash /\ Len(q) = n + 1
      BY <1>2, <1>3, <1>5, <2>1
    <3>2. q[n + 1] = t[(n + 1) - n]
      BY <1>5, <3>1
    <3>3. (n + 1) - n = 1
      OBVIOUS
    <3> QED
      BY <3>1, <3>2, <3>3
  <2>2. CASE p[n] = Slash
    <3>1. Len(q) = n /\ n \in 1 .. n
      BY <1>1, <1>2, <1>5, <2>2
    <3> QED
      BY <1>6, <2>2, <3>1
  <2> QED
    BY <2>1, <2>2
<1>8. q # << >>
  BY <1>1, <1>2, <1>5, EmptySeq
<1> QED
  BY <1>1, <1>2, <1>4, <1>5, <1>6, <1>7, <1>8

(* Combining with one component and taking the parent trims the path.      *)
LEMMA ParentOfCombined ==
  ASSUME NEW S, {Slash, "a"} \subseteq S, NEW p \in Seq(S), p # << >>
  PROVE  ParentDir(Combine(p, <<"a">>)) = Trimmed(p)
<1>1. PICK n \in Nat : n = Len(p) /\ n > 0
  BY Separated
<1>2. PICK q \in Seq(S) : q = p \o Separator(p)
  BY Separated
<1>3. PICK m \in Nat : m = Len(q)
  BY LenProperties
<1>4. /\ m = n + (IF p[n] # Slash THEN 1 ELSE 0)
      /\ \A i \in 1 .. n : q[i] = p[i]
      /\ q[m] = Slash
  BY <1>1, <1>2, <1>3, Separated
<1>5. <<"a">> \in Seq(S) /\ Len(<<"a">>) = 1 /\ <<"a">>[1] = "a"
  OBVIOUS
<1>6. PICK c \in Seq(S) : c = q \o <<"a">>
  BY <1>5, ConcatProperties
<1>7. /\ Len(c) = m + 1
      /\ \A i \in 1 .. m + 1 : c[i] = IF i <= m THEN q[i] ELSE <<"a">>[i - m]
  BY <1>3, <1>5, <1>6, ConcatProperties
<1>8. "a" # Slash
  BY DEF Slash
<1>9. Combine(p, <<"a">>) = c
  <2>1. ~IsAbs(<<"a">>)
    BY <1>5, <1>8 DEF IsAbs
  <2> QED
    BY <1>2, <1>6, <2>1 DEF Combine, Separator
<1>10. c[m + 1] = "a" /\ \A i \in 1 .. m : c[i] = q[i]
  <2>1. (m + 1) - m = 1 /\ m + 1 \in 1 .. m + 1 /\ ~(m + 1 <= m)
    OBVIOUS
  <2> QED
    BY <1>5, <1>7, <2>1
<1>11. LastOther(c, m + 1) = m + 1
  <2>1. PICK k \in Nat : k = m + 1
    OBVIOUS
  <2>2. c[k] # Slash /\ \A l \in 1 .. k : c[l] # Slash => l <= k
    BY <1>8, <1>10, <2>1
  <2>3. LastOther(c, k) = k
    BY <2>2, LastOtherUnique
  <2> QED
    BY <2>1, <2>3
<1>12. LastSlash(c, m + 1) = m
  <2>1. c[m] = Slash /\ m > 0
    BY <1>1, <1>4, <1>10
  <2>2. \A k \in 1 .. m + 1 : c[k] = Slash => k <= m
    BY <1>8, <1>10
  <2> QED
    BY <2>1, <2>2, LastSlashUnique
<1>13. ParentDir(c) = SubSeq(c, 1, Rest(c, m))
  <2>1. m > 0 /\ m + 1 > 0
    BY <1>1, <1>4
  <2> QED
    BY <1>7, <1>11, <1>12, <2>1, ParentDirIs
<1>14. PICK e \in Nat : e = LastOther(p, n)
  BY LastOtherIs
<1>15. /\ e <= n /\ (e > 0 => p[e] # Slash)
       /\ \A k \in 1 .. n : p[k] # Slash => k <= e
  BY <1>14, LastOtherIs
<1>16. LastOther(c, m) = e
  <2>1. e <= m /\ (e > 0 => c[e] # Slash)
    BY <1>4, <1>10, <1>15
  <2>2. \A k \in 1 .. m : c[k] # Slash => k <= e
    BY <1>4, <1>10, <1>15
  <2>3. \A l \in Nat : LastOther(c, m) = l <=>
          (l = 0 \/ l <= m) /\ (l > 0 => c[l] # Slash) /\ \A k \in 1 .. m : c[k] # Slash => k <= l
    BY LastOtherUnique, LastOtherIs
  <2> QED
    BY <2>1, <2>2, <2>3
<1>17. Rest(c, m) = Rest(p, n)
  <2>1. CASE p[n] = Slash
    BY <1>4, <1>14, <1>16, <2>1 DEF Rest
  <2>2. CASE p[n] # Slash
    <3>1. e > 0
      BY <1>1, <1>15, <2>2
    <3> QED
      BY <1>14, <1>16, <3>1 DEF Rest
  <2> QED
    BY <2>1, <2>2
<1>18. Rest(p, n) \in 0 .. n /\ Trimmed(p) = SubSeq(p, 1, Rest(p, n))
  BY <1>1, TrimmedIs
<1>19. SubSeq(p, 1, Rest(p, n)) = SubSeq(c, 1, Rest(p, n))
  <2>1. PICK k \in 0 .. n : k = Rest(p, n)
    BY <1>18
  <2>2. k \in 0 .. Len(p) /\ k <= Len(c) /\ \A i \in 1 .. k : p[i] = c[i]
    BY <1>1, <1>4, <1>7, <1>10
  <2>3. SubSeq(p, 1, k) = SubSeq(c, 1, k)
    BY <2>2, PrefixesEqual
  <2> QED
    BY <2>1, <2>3
<1> QED
  BY <1>9, <1>13, <1>17, <1>18, <1>19

(* It does not matter in which order three paths are combined.             *)
LEMMA CombinedInAnyOrder ==
  ASSUME NEW S, Slash \in S, NEW p \in Seq(S), NEW q \in Seq(S), NEW r \in Seq(S)
  PROVE  Combine(Combine(p, q), r) = Combine(p, Combine(q, r))
<1>1. \A s, t \in Seq(S) :
        Combine(s, t) = IF s = << >> \/ IsAbs(t) THEN t ELSE (s \o Separator(s)) \o t
  BY DEF Combine, Separator
<1>2. ~IsAbs(<< >>)
  BY DEF IsAbs
<1>3. CASE IsAbs(r)
  <2>1. Combine(q, r) = r /\ Combine(p, r) = r
    BY <1>1, <1>3
  <2>2. Combine(p, q) \in Seq(S)
    <3>1. p # << >> => (p \o Separator(p)) \o q \in Seq(S)
      BY Separated, ConcatProperties
    <3> QED
      BY <1>1, <3>1
  <2> QED
    BY <1>1, <1>3, <2>1, <2>2
<1>4. CASE ~IsAbs(r) /\ p = << >>
  <2>1. Combine(p, q) = q
    BY <1>1, <1>4
  <2>2. Combine(q, r) \in Seq(S)
    <3>1. q # << >> => (q \o Separator(q)) \o r \in Seq(S)
      BY Separated, ConcatProperties
    <3> QED
      BY <1>1, <3>1
  <2> QED
    BY <1>1, <1>4, <2>1, <2>2
<1>5. CASE ~IsAbs(r) /\ p # << >> /\ q = << >>
  <2>1. PICK u \in Seq(S) : u = p \o Separator(p)
    BY <1>5, Separated
  <2>2. u # << >> /\ u[Len(u)] = Slash
    BY <1>5, <2>1, Separated
  <2>3. Combine(p, q) = u
    <3>1. u \o << >> = u
      BY ConcatEmptySeq
    <3> QED
      BY <1>1, <1>2, <1>5, <2>1, <3>1
  <2>4. Combine(u, r) = u \o r
    <3>1. Separator(u) = << >> /\ u \o << >> = u
      BY <2>2, ConcatEmptySeq DEF Separator
    <3>2. Combine(u, r) = (u \o Separator(u)) \o r
      BY <1>1, <1>5, <2>2
    <3> QED
      BY <3>1, <3>2
  <2>5. Combine(p, r) = u \o r
    BY <1>1, <1>5, <2>1
  <2> QED
    BY <1>1, <1>5, <2>3, <2>4, <2>5
<1>6. CASE ~IsAbs(r) /\ p # << >> /\ q # << >>
  <2>1. PICK u : u = q \o Separator(q) /\ u \in Seq(S)
    BY <1>6, Separated
  <2>2. PICK v : v = u \o r /\ v \in Seq(S)
    BY <2>1, ConcatProperties
  <2>3. Combine(q, r) = v
    BY <1>1, <1>6, <2>1, <2>2
  <2>4. IsAbs(v) <=> IsAbs(q)
    <3>1. /\ Len(q) \in Nat /\ Len(q) > 0 /\ Len(u) \in Nat /\ Len(u) >= Len(q)
          /\ \A i \in 1 .. Len(q) : u[i] = q[i]
      BY <1>6, <2>1, Separated, LenProperties
    <3>2. /\ Len(v) = Len(u) + Len(r) /\ Len(r) \in Nat
          /\ \A i \in 1 .. Len(u) + Len(r) : v[i] = IF i <= Len(u) THEN u[i] ELSE r[i - Len(u)]
      BY <2>1, <2>2, ConcatProperties, LenProperties
    <3>3. v[1] = q[1] /\ Len(v) > 0
      BY <3>1, <3>2
    <3>4. v # << >>
      BY <2>2, <3>3, EmptySeq
    <3> QED
      BY <1>6, <3>3, <3>4 DEF IsAbs
  <2>5. CASE IsAbs(q)
    <3>1. Combine(p, q) = q /\ Combine(p, v) = v
      BY <1>1, <2>2, <2>4, <2>5
    <3> QED
      BY <2>3, <3>1
  <2>6. CASE ~IsAbs(q)
    <3>1. PICK w : w = p \o Separator(p) /\ w \in Seq(S)
      BY <1>6, Separated
    <3>2. PICK x : x = w \o q /\ x \in Seq(S)
      BY <3>1, ConcatProperties
    <3>3. Combine(p, q) = x
      BY <1>1, <1>6, <2>6, <3>1, <3>2
    <3>4. Combine(p, v) = w \o v
      BY <1>1, <1>6, <2>2, <2>4, <2>6, <3>1
    <3>5. x # << >> /\ Separator(x) = Separator(q)
      <4>1. Len(q) \in Nat /\ Len(q) > 0 /\ Len(w) \in Nat
        BY <1>6, <3>1, Separated, LenProperties
      <4>2. /\ Len(x) = Len(w) + Len(q)
            /\ \A i \in 1 .. Len(w) + Len(q) : x[i] = IF i <= Len(w) THEN w[i] ELSE q[i - Len(w)]
        BY <3>1, <3>2, ConcatProperties
      <4>3. x[Len(x)] = q[Len(q)]
        <5>1. /\ Len(w) + Len(q) \in 1 .. Len(w) + Len(q) /\ ~(Len(w) + Len(q) <= Len(w))
              /\ (Len(w) + Len(q)) - Len(w) = Len(q)
          BY <4>1
        <5> QED
          BY <4>2, <5>1
      <4>4. x # << >>
        BY <3>2, <4>1, <4>2, EmptySeq
      <4> QED
        BY <4>3, <4>4 DEF Separator
    <3>6. Combine(x, r) = (x \o Separator(q)) \o r
      BY <1>1, <1>6, <3>2, <3>5
    <3>7. Separator(q) \in Seq(S)
      BY <1>6, Separated
    <3>8. (x \o Separator(q)) \o r = w \o v
      <4>1. (w \o q) \o Separator(q) = w \o u
        <5>1. PICK z : z = Separator(q) /\ z \in Seq(S)
          BY <3>7
        <5>2. Parts(S, w, q, z)
          BY <3>1, <5>1 DEF Parts
        <5>3. (w \o q) \o z = w \o (q \o z)
          BY <5>2, Regrouped
        <5> QED
          BY <2>1, <5>1, <5>3
      <4>2. (w \o u) \o r = w \o v
        <5>1. Parts(S, w, u, r)
          BY <2>1, <3>1 DEF Parts
        <5>2. (w \o u) \o r = w \o (u \o r)
          BY <5>1, Regrouped
        <5> QED
          BY <2>2, <5>2
      <4> QED
        BY <3>2, <4>1, <4>2
    <3> QED
      BY <2>3, <3>3, <3>4, <3>6, <3>8
  <2> QED
    BY <2>5, <2>6
<1> QED
  BY <1>3, <1>4, <1>5, <1>6

-----------------------------------------------------------------------------
(* The input is any string, and what holds for every string is invariant.  *)

InputInv == input \in Seq(Alphabet)

(* The only step appends a character.                                      *)
LEMMA InputIsString == Spec => []InputInv
<1>1. Init => InputInv
  BY EmptySeq DEF Init, InputInv
<1>2. InputInv /\ [Next]_input => InputInv'
  <2> SUFFICES ASSUME InputInv, [Next]_input PROVE InputInv'
    OBVIOUS
  <2>1. CASE Next
    <3>1. PICK c \in Alphabet : input' = Append(input, c)
      BY <2>1 DEF Next
    <3> QED
      BY <3>1, AppendProperties DEF InputInv
  <2>2. CASE UNCHANGED input
    BY <2>2 DEF InputInv
  <2> QED
    BY <2>1, <2>2
<1> QED
  BY <1>1, <1>2, PTL DEF Spec

(* A part of a string is one.                                              *)
LEMMA PartIsSeq ==
  ASSUME NEW S, NEW s \in Seq(S), NEW m \in Nat, NEW n \in Int, 1 <= m, n <= Len(s)
  PROVE  /\ SubSeq(s, m, n) \in Seq(S)
         /\ Len(SubSeq(s, m, n)) = IF m <= n THEN n - m + 1 ELSE 0
         /\ \A i \in 1 .. n - m + 1 : SubSeq(s, m, n)[i] = s[m + i - 1]
<1>1. Len(s) \in Nat /\ \A i \in 1 .. Len(s) : s[i] \in S
  BY LenProperties, ElementOfSeq
<1>2. \A i \in m .. n : s[i] \in S
  BY <1>1
<1> QED
  BY <1>2, SubSeqProperties

(* xcp_path_parent_dir is the reference dirname and undoes                 *)
(* xcp_path_combine with one component, for every path.                    *)
THEOREM ParentIsReferenceHolds == Spec => []ParentIsReference
<1>1. InputInv => ParentIsReference
  <2> SUFFICES ASSUME InputInv PROVE ParentIsReference
    OBVIOUS
  <2> DEFINE S == Alphabet \cup {Slash, "a"}
  <2>1. input \in Seq(S)
    BY SeqMonotonic DEF InputInv
  <2>2. {Slash, "a"} \subseteq S
    OBVIOUS
  <2> HIDE DEF S
  <2>3. ParentDir(input) = Parent(input)
    BY <2>1, ParentDirCorrect
  <2>4. input # << >> => ParentDir(Combine(input, <<"a">>)) = Trimmed(input)
    BY <2>1, <2>2, ParentOfCombined
  <2> QED
    BY <2>3, <2>4 DEF ParentIsReference
<1> QED
  BY <1>1, InputIsString, PTL

(* Any three parts of a path can be combined in either order.              *)
THEOREM CombineAssociativeHolds == Spec => []CombineAssociative
<1>1. InputInv => CombineAssociative
  <2> SUFFICES ASSUME InputInv, NEW k \in 0 .. Len(input), NEW l \in 0 .. Len(input), k <= l
               PROVE  LET p == SubSeq(input, 1, k)
                          q == SubSeq(input, k + 1, l)
                          r == SubSeq(input, l + 1, Len(input))
                      IN  Combine(Combine(p, q), r) = Combine(p, Combine(q, r))
    BY DEF CombineAssociative
  <2> DEFINE S == Alphabet \cup {Slash}
  <2>1. input \in Seq(S) /\ Slash \in S
    BY SeqMonotonic DEF InputInv
  <2> HIDE DEF S
  <2>2. Len(input) \in Nat
    BY <2>1, LenProperties
  <2>3. /\ SubSeq(input, 1, k) \in Seq(S)
        /\ SubSeq(input, k + 1, l) \in Seq(S)
        /\ SubSeq(input, l + 1, Len(input)) \in Seq(S)
    <3>1. SubSeq(input, 1, k) \in Seq(S)
      BY <2>1, <2>2, PartIsSeq
    <3>2. PICK m \in Nat : m = k + 1 /\ m >= 1
      BY <2>2
    <3>3. SubSeq(input, m, l) \in Seq(S)
      BY <2>1, <2>2, <3>2, PartIsSeq
    <3>4. PICK n \in Nat : n = l + 1 /\ n >= 1
      BY <2>2
    <3>5. SubSeq(input, n, Len(input)) \in Seq(S)
      BY <2>1, <2>2, <3>4, PartIsSeq
    <3> QED
      BY <3>1, <3>2, <3>3, <3>4, <3>5
  <2>4. PICK p \in Seq(S), q \in Seq(S), r \in Seq(S) :
          /\ p = SubSeq(input, 1, k) /\ q = SubSeq(input, k + 1, l)
          /\ r = SubSeq(input, l + 1, Len(input))
    BY <2>3
  <2>5. Combine(Combine(p, q), r) = Combine(p, Combine(q, r))
    BY <2>1, CombinedInAnyOrder
  <2> QED
    BY <2>4, <2>5
<1> QED
  BY <1>1, InputIsString, PTL

-----------------------------------------------------------------------------
(* string.c.                                                               *)

(* xcp_str_trim_end keeps the string up to its last character that is no   *)
(* space.                                                                  *)
LEMMA TrimEndIs ==
  ASSUME NEW S, NEW s \in Seq(S)
  PROVE  LET kept == TrimEnd(s)
             rest == SubSeq(s, Len(kept) + 1, Len(s))
         IN  /\ s = kept \o rest
             /\ \A k \in DOMAIN rest : rest[k] \in Space
             /\ kept # << >> => Last(kept) \notin Space
<1>1. PICK n \in Nat : n = Len(s)
  BY LenProperties
<1> DEFINE P == {k \in Int : s[k] \notin Space}
           last == Max({0} \cup {k \in 1 .. n : k \in P})
<1>2. {k \in 1 .. n : k \in P} = {k \in 1 .. n : s[k] \notin Space}
  OBVIOUS
<1>3. /\ last \in Nat /\ (last = 0 \/ last <= n)
      /\ last > 0 => last \in P
      /\ \A k \in 1 .. n : k \in P => k <= last
  <2> HIDE DEF P
  <2>1. n \in Int
    OBVIOUS
  <2> QED
    BY <2>1, LastPosition
<1>4. TrimEnd(s) = SubSeq(s, 1, last)
  BY <1>1, <1>2 DEF TrimEnd
<1>5. PICK m \in Nat :
        /\ m = last /\ m \in 0 .. n
        /\ m > 0 => s[m] \notin Space
        /\ \A k \in 1 .. n : k > m => s[k] \in Space
  <2> HIDE DEF last
  <2>1. last > 0 => s[last] \notin Space
    BY <1>3
  <2>2. \A k \in 1 .. n : s[k] \notin Space => k <= last
    BY <1>3
  <2>3. last \in 0 .. n
    BY <1>3
  <2>4. \A k \in 1 .. n : k > last => s[k] \in Space
    BY <2>2, <2>3
  <2> QED
    BY <2>1, <2>3, <2>4
<1> HIDE DEF last
<1>6. PICK kept \in Seq(S) :
        /\ kept = TrimEnd(s)
        /\ Len(kept) = m
        /\ \A i \in 1 .. m : kept[i] = s[i]
  BY <1>1, <1>4, <1>5, PrefixProperties
<1>7. PICK j \in Nat : j = m + 1 /\ j >= 1
  OBVIOUS
<1>8. PICK rest \in Seq(S) :
        /\ rest = SubSeq(s, j, n)
        /\ Len(rest) = IF j <= n THEN n - j + 1 ELSE 0
        /\ \A i \in 1 .. n - j + 1 : rest[i] = s[j + i - 1]
  <2>1. /\ SubSeq(s, j, n) \in Seq(S)
        /\ Len(SubSeq(s, j, n)) = IF j <= n THEN n - j + 1 ELSE 0
        /\ \A i \in 1 .. n - j + 1 : SubSeq(s, j, n)[i] = s[j + i - 1]
    BY <1>1, <1>7, PartIsSeq
  <2> QED
    BY <2>1
<1>9. s = kept \o rest
  <2>1. SubSeq(s, 1, m) \o SubSeq(s, m + 1, n) = SubSeq(s, 1, n)
    <3>1. 1 \in 1 .. Len(s) + 1 /\ m \in 1 - 1 .. Len(s) /\ n \in m .. Len(s)
      BY <1>1, <1>5
    <3>2. SubSeq(s, 1, m) \o SubSeq(s, m + 1, n) = SubSeq(s, 1, n)
      BY <3>1, ConcatAdjacentSubSeq
    <3> QED
      BY <3>2
  <2>2. SubSeq(s, 1, n) = s
    BY <1>1, SubSeqFull
  <2> QED
    BY <1>4, <1>5, <1>6, <1>7, <1>8, <2>1, <2>2
<1>10. \A k \in DOMAIN rest : rest[k] \in Space
  <2> SUFFICES ASSUME NEW k \in DOMAIN rest PROVE rest[k] \in Space
    OBVIOUS
  <2>1. k \in 1 .. Len(rest)
    BY LenProperties
  <2>2. k \in 1 .. n - j + 1 /\ j + k - 1 \in 1 .. n /\ j + k - 1 > m
    BY <1>5, <1>7, <1>8, <2>1
  <2> QED
    BY <1>5, <1>8, <2>2
<1>11. kept # << >> => Last(kept) \notin Space
  <2>1. kept # << >> => m > 0
    BY <1>6, EmptySeq
  <2> QED
    BY <1>5, <1>6, <2>1 DEF Last
<1> QED
  BY <1>1, <1>6, <1>7, <1>8, <1>9, <1>10, <1>11

(* The spaces at the end are what is removed, from every string.           *)
THEOREM TrimmedAtEndHolds == Spec => []TrimmedAtEnd
<1>1. InputInv => TrimmedAtEnd
  BY TrimEndIs DEF InputInv, TrimmedAtEnd
<1> QED
  BY <1>1, InputIsString, PTL

(* The halves of a byte make the byte.                                     *)
LEMMA Halves ==
  ASSUME NEW b \in Nat
  PROVE  16 * (b \div 16) + (b % 16) = b
OBVIOUS

(* Each pair of digits is a byte of the buffer, in either direction.       *)
LEMMA HexPairs ==
  ASSUME NEW n \in Nat, NEW buf \in Seq(Nat), n = Len(buf), NEW k \in 1 .. n,
         NEW reverse \in BOOLEAN
  PROVE  16 * HexDigits(buf, reverse)[2 * k - 1] + HexDigits(buf, reverse)[2 * k]
         = buf[IF reverse THEN n - k + 1 ELSE k]
<1> DEFINE i == IF reverse THEN n - k + 1 ELSE k
           b == buf[i]
<1>1. i \in 1 .. n /\ b \in Nat
  <2>1. i \in 1 .. n
    OBVIOUS
  <2> QED
    BY <2>1, ElementOfSeq
<1>2. PICK odd \in Nat : odd = 2 * k - 1 /\ odd \in 1 .. 2 * n
  OBVIOUS
<1>3. PICK even \in Nat : even = 2 * k /\ even \in 1 .. 2 * n
  OBVIOUS
<1>4. odd % 2 = 1 /\ (odd + 1) \div 2 = k /\ (odd - 1) \div 2 = k - 1
  BY <1>2
<1>5. even % 2 = 0 /\ (even + 1) \div 2 = k /\ (even - 1) \div 2 = k - 1
  BY <1>3
<1>6. HexDigits(buf, reverse)[odd] = b \div 16
  <2>1. HexDigits(buf, reverse)[odd]
        = (IF reverse THEN buf[n - (odd - 1) \div 2] ELSE buf[(odd + 1) \div 2]) \div 16
    BY <1>2, <1>4 DEF HexDigits
  <2>2. (IF reverse THEN buf[n - (odd - 1) \div 2] ELSE buf[(odd + 1) \div 2]) = b
    <3>1. n - (odd - 1) \div 2 = n - k + 1
      BY <1>4
    <3> QED
      BY <1>4, <3>1
  <2> QED
    BY <2>1, <2>2
<1>7. HexDigits(buf, reverse)[even] = b % 16
  <2>1. HexDigits(buf, reverse)[even]
        = (IF reverse THEN buf[n - (even - 1) \div 2] ELSE buf[(even + 1) \div 2]) % 16
    BY <1>3, <1>5 DEF HexDigits
  <2>2. (IF reverse THEN buf[n - (even - 1) \div 2] ELSE buf[(even + 1) \div 2]) = b
    <3>1. n - (even - 1) \div 2 = n - k + 1
      BY <1>5
    <3> QED
      BY <1>5, <3>1
  <2> QED
    BY <2>1, <2>2
<1>8. 16 * (b \div 16) + (b % 16) = b
  BY <1>1, Halves
<1> QED
  BY <1>2, <1>3, <1>6, <1>7, <1>8

(* The hexadecimal forms read back, for every buffer.                      *)
THEOREM HexReadsBackHolds == Spec => []HexReadsBack
<1>1. InputInv => HexReadsBack
  <2> SUFFICES ASSUME InputInv PROVE HexReadsBack
    OBVIOUS
  <2> DEFINE bytes == [k \in DOMAIN input |-> Code[input[k]]]
             ReadBack(hex) == [k \in DOMAIN input |-> 16 * hex[2 * k - 1] + hex[2 * k]]
  <2>1. PICK n \in Nat : n = Len(input) /\ DOMAIN input = 1 .. n
    BY LenProperties DEF InputInv
  <2>2. \A k \in 1 .. n : Code[input[k]] \in Nat
    <3>1. \A k \in 1 .. n : input[k] \in Alphabet
      BY <2>1, ElementOfSeq DEF InputInv
    <3> QED
      BY <3>1, CharacterAssumption
  <2>3. bytes \in Seq(Nat) /\ Len(bytes) = n /\ DOMAIN bytes = 1 .. n
    <3>1. bytes \in [1 .. n -> Nat]
      BY <2>1, <2>2
    <3> HIDE DEF bytes
    <3> QED
      BY <3>1, FunctionIsSeq
  <2>4. bytes = [k \in 1 .. n |-> bytes[k]]
    BY <2>1
  <2>5. Reverse(bytes) = [k \in 1 .. n |-> bytes[n - k + 1]]
    <3> HIDE DEF bytes
    <3>1. Reverse(bytes) = [k \in 1 .. Len(bytes) |-> bytes[(Len(bytes) - k) + 1]]
      BY DEF Reverse
    <3> QED
      BY <2>3, <3>1
  <2>6. ReadBack(HexDigits(bytes, FALSE)) = bytes
    <3> HIDE DEF bytes
    <3>1. \A k \in 1 .. n :
            16 * HexDigits(bytes, FALSE)[2 * k - 1] + HexDigits(bytes, FALSE)[2 * k] = bytes[k]
      BY <2>3, HexPairs
    <3> QED
      BY <2>1, <2>4, <3>1
  <2>7. ReadBack(HexDigits(bytes, TRUE)) = Reverse(bytes)
    <3> HIDE DEF bytes
    <3>1. \A k \in 1 .. n :
            16 * HexDigits(bytes, TRUE)[2 * k - 1] + HexDigits(bytes, TRUE)[2 * k] = bytes[n - k + 1]
      BY <2>3, HexPairs
    <3> QED
      BY <2>1, <2>5, <3>1
  <2>8. \A reverse \in BOOLEAN :
          /\ HexBuf(bytes, reverse).null <=> input = << >>
          /\ HexBuf(bytes, reverse).digits = HexDigits(bytes, reverse)
    <3>1. bytes = << >> <=> input = << >>
      <4>1. bytes = << >> <=> n = 0
        <5> HIDE DEF bytes
        <5> QED
          BY <2>3
      <4>2. input = << >> <=> n = 0
        BY <2>1 DEF InputInv
      <4> QED
        BY <4>1, <4>2
    <3> HIDE DEF bytes
    <3> QED
      BY <3>1 DEF HexBuf
  <2> QED
    BY <2>6, <2>7, <2>8 DEF HexReadsBack
<1> QED
  BY <1>1, InputIsString, PTL

-----------------------------------------------------------------------------
(* algorithm.h.                                                            *)

(* Multiplication is monotonic.                                            *)
LEMMA TimesMonotonic ==
  ASSUME NEW a \in Nat, NEW b \in Nat, NEW c \in Nat, a <= b
  PROVE  a * c <= b * c
OBVIOUS

(* A positive factor keeps a strict order.                                 *)
LEMMA TimesStrict ==
  ASSUME NEW a \in Nat, NEW b \in Nat, NEW c \in Nat, a < b, c > 0
  PROVE  a * c < b * c
<1>1. (a + 1) * c <= b * c
  BY TimesMonotonic
<1>2. (a + 1) * c = a * c + c
  OBVIOUS
<1>3. a * c \in Nat /\ b * c \in Nat
  OBVIOUS
<1> QED
  BY <1>1, <1>2, <1>3

(* The offsets of the elements are the multiples of their size.            *)
LEMMA OffsetsAre ==
  ASSUME NEW n \in Nat, NEW size \in Nat, size > 0
  PROVE  /\ \A i \in 0 .. n - 1 : i * size \in Offsets(n, size)
         /\ \A p \in Offsets(n, size) : \E i \in 0 .. n - 1 : p = i * size /\ p \div size = i
<1>1. ASSUME NEW i \in 0 .. n - 1
      PROVE  i * size \in Offsets(n, size)
  <2>1. i \in Nat /\ i < n
    OBVIOUS
  <2>2. i * size \in Nat /\ n * size \in Nat /\ i * size < n * size
    BY <2>1, TimesStrict
  <2>3. (i * size) % size = 0
    BY <2>1
  <2> QED
    BY <2>2, <2>3 DEF Offsets
<1>2. ASSUME NEW p \in Offsets(n, size)
      PROVE  \E i \in 0 .. n - 1 : p = i * size /\ p \div size = i
  <2>1. n * size \in Nat
    OBVIOUS
  <2>2. p \in Nat /\ p < n * size /\ p % size = 0
    BY <2>1 DEF Offsets
  <2>3. PICK i \in Nat : i = p \div size
    BY <2>2
  <2>4. p = size * i + (p % size)
    BY <2>2, <2>3
  <2>5. p = i * size
    BY <2>2, <2>4
  <2>6. i < n
    <3>1. SUFFICES ASSUME n <= i PROVE FALSE
      OBVIOUS
    <3>2. n * size <= i * size
      BY <3>1, TimesMonotonic
    <3> QED
      BY <2>1, <2>2, <2>5, <3>2
  <2> QED
    BY <2>3, <2>5, <2>6
<1> QED
  BY <1>1, <1>2

(* The search visits the elements in order and returns the index of the    *)
(* first for which the predicate holds, whatever the predicate.            *)
THEOREM FirstFound ==
  ASSUME NEW arr, NEW size \in Nat, size > 0, NEW n \in Nat, NEW predicate
  PROVE  LET index == ArrIndexOf(arr, size, n, predicate)
             Holds(i) == Element(arr, i * size, size) \in predicate
         IN  IF index = NotFound
             THEN \A i \in 0 .. n - 1 : ~Holds(i)
             ELSE index \in 0 .. n - 1 /\ Holds(index) /\ \A i \in 0 .. index - 1 : ~Holds(i)
<1> DEFINE found == {p \in Offsets(n, size) : Element(arr, p, size) \in predicate}
           index == ArrIndexOf(arr, size, n, predicate)
           Holds(i) == Element(arr, i * size, size) \in predicate
<1>1. \A i \in 0 .. n - 1 : Holds(i) => i * size \in found
  BY OffsetsAre
<1>2. CASE found = {}
  <2>1. index = NotFound
    BY <1>2 DEF ArrIndexOf
  <2>2. \A i \in 0 .. n - 1 : ~Holds(i)
    BY <1>1, <1>2
  <2> QED
    BY <2>1, <2>2
<1>3. CASE found # {}
  <2>1. found \in SUBSET Nat
    <3>1. n * size \in Nat
      OBVIOUS
    <3> QED
      BY <3>1 DEF Offsets
  <2>2. PICK m \in found : m = Min(found) /\ \A p \in found : m <= p
    <3> HIDE DEF found
    <3> QED
      BY <1>3, <2>1, MinIs
  <2>3. PICK j \in 0 .. n - 1 : m = j * size /\ m \div size = j
    BY OffsetsAre
  <2>4. index = j /\ j # NotFound
    BY <1>3, <2>2, <2>3 DEF ArrIndexOf, IndexAt, NotFound
  <2>5. Holds(j)
    BY <2>3
  <2>6. ASSUME NEW i \in 0 .. j - 1 PROVE ~Holds(i)
    <3>1. i \in 0 .. n - 1 /\ i \in Nat /\ j \in Nat /\ i < j
      OBVIOUS
    <3>2. i * size < j * size /\ i * size \in Nat /\ j * size \in Nat
      BY <3>1, TimesStrict
    <3>3. i * size \notin found
      <4> HIDE DEF found
      <4> SUFFICES ASSUME i * size \in found PROVE FALSE
        OBVIOUS
      <4>1. j * size <= i * size
        BY <2>2, <2>3
      <4> QED
        BY <3>2, <4>1
    <3> QED
      BY <1>1, <3>1, <3>3
  <2> HIDE DEF index, Holds
  <2>7. index \in 0 .. n - 1 /\ Holds(index) /\ \A i \in 0 .. index - 1 : ~Holds(i)
    BY <2>4, <2>5, <2>6
  <2> QED
    BY <2>4, <2>7 DEF index, Holds
<1> QED
  BY <1>2, <1>3

(* The index returned is that of the first element equal to the needle,    *)
(* for elements of any size and as many of them as one likes.              *)
THEOREM FindsFirstHolds == Spec => []FindsFirst
<1>1. InputInv => FindsFirst
  <2> SUFFICES ASSUME InputInv, NEW size \in 1 .. Len(input), NEW n \in 0 .. Len(input) \div size,
                      NEW needle
               PROVE  LET Equal(i) == SubSeq(input, i * size + 1, (i + 1) * size) = needle
                          index    == StrArrIndexOf(input, size, n, needle)
                      IN  IF index = NotFound
                          THEN \A i \in 0 .. n - 1 : ~Equal(i)
                          ELSE index \in 0 .. n - 1 /\ Equal(index)
                               /\ \A i \in 0 .. index - 1 : ~Equal(i)
    BY DEF FindsFirst
  <2> DEFINE Holds(i) == Element(input, i * size, size) \in {needle}
             Equal(i) == SubSeq(input, i * size + 1, (i + 1) * size) = needle
             index    == StrArrIndexOf(input, size, n, needle)
  <2>1. Len(input) \in Nat
    BY LenProperties DEF InputInv
  <2>2. size \in Nat /\ size > 0 /\ n \in Nat
    BY <2>1
  <2>3. \A i \in Int : Holds(i) <=> Equal(i)
    <3>1. \A i \in Int : (i + 1) * size = i * size + size
      BY <2>2
    <3> QED
      BY <3>1 DEF Element
  <2>4. IF index = NotFound
        THEN \A i \in 0 .. n - 1 : ~Holds(i)
        ELSE index \in 0 .. n - 1 /\ Holds(index) /\ \A i \in 0 .. index - 1 : ~Holds(i)
    BY <2>2, FirstFound DEF StrArrIndexOf
  <2> HIDE DEF index, Holds, Equal
  <2>5. IF index = NotFound
        THEN \A i \in 0 .. n - 1 : ~Equal(i)
        ELSE index \in 0 .. n - 1 /\ Equal(index) /\ \A i \in 0 .. index - 1 : ~Equal(i)
    BY <2>2, <2>3, <2>4
  <2> QED
    BY <2>5 DEF index, Equal
<1> QED
  BY <1>1, InputIsString, PTL

-----------------------------------------------------------------------------
(* Induction and recursion up to a number.                                 *)

(* A set that has 0 and with each number below n the next one has them all.*)
LEMMA UpTo ==
  ASSUME NEW n \in Nat, NEW P, 0 \in P, \A k \in 0 .. n - 1 : k \in P => k + 1 \in P
  PROVE  \A k \in 0 .. n : k \in P
<1> DEFINE T == {k \in 0 .. n : k \notin P}
<1> SUFFICES ASSUME T # {} PROVE FALSE
  OBVIOUS
<1>1. T \in SUBSET Nat
  OBVIOUS
<1>2. PICK m \in T : \A k \in T : m <= k
  <2> HIDE DEF T
  <2> QED
    BY <1>1, LeastNumber
<1>3. m \in 0 .. n /\ m # 0
  OBVIOUS
<1>4. PICK k \in 0 .. n - 1 : m = k + 1
  BY <1>3
<1>5. k \notin T
  BY <1>2, <1>4
<1>6. k \in P
  BY <1>5
<1> QED
  BY <1>4, <1>6

(* f has the value z at 0 and goes from one number to the next as G says.  *)
Follows(f, z, G, n) == f[0] = z /\ \A k \in 1 .. n : f[k] = G[<<k, f[k - 1]>>]

(* There is such a function.                                               *)
LEMMA Recursion ==
  ASSUME NEW n \in Nat, NEW S, NEW z \in S, NEW G \in [(1 .. n) \X S -> S]
  PROVE  \E f \in [0 .. n -> S] : Follows(f, z, G, n)
<1> DEFINE Is(f, m) == f[0] = z /\ \A k \in 1 .. m : f[k] = G[<<k, f[k - 1]>>]
           P == {m \in 0 .. n : \E f \in [0 .. m -> S] : Is(f, m)}
<1>1. 0 \in P
  <2> DEFINE f == [k \in 0 .. 0 |-> z]
  <2>1. f \in [0 .. 0 -> S] /\ Is(f, 0)
    OBVIOUS
  <2> HIDE DEF f
  <2>2. \E h \in [0 .. 0 -> S] : Is(h, 0)
    BY <2>1
  <2> QED
    BY <2>2
<1>2. ASSUME NEW m \in 0 .. n - 1, m \in P
      PROVE  m + 1 \in P
  <2>1. PICK f \in [0 .. m -> S] : Is(f, m)
    BY <1>2
  <2>2. PICK next \in S : next = G[<<m + 1, f[m]>>]
    <3>1. m + 1 \in 1 .. n /\ f[m] \in S
      OBVIOUS
    <3>2. <<m + 1, f[m]>> \in (1 .. n) \X S
      BY <3>1
    <3> QED
      BY <3>2
  <2> DEFINE g == [k \in 0 .. m + 1 |-> IF k <= m THEN f[k] ELSE next]
  <2>3. g \in [0 .. m + 1 -> S]
    OBVIOUS
  <2>4. g[0] = z
    BY <2>1
  <2>5. ASSUME NEW k \in 1 .. m + 1 PROVE g[k] = G[<<k, g[k - 1]>>]
    <3>1. k - 1 \in 0 .. m /\ g[k - 1] = f[k - 1]
      OBVIOUS
    <3>2. CASE k <= m
      <4>1. k \in 1 .. m /\ g[k] = f[k]
        BY <3>2
      <4> QED
        BY <2>1, <3>1, <4>1
    <3>3. CASE k = m + 1
      <4>1. g[k] = next /\ k - 1 = m
        BY <3>3
      <4> QED
        BY <2>2, <3>1, <3>3, <4>1
    <3> QED
      BY <3>2, <3>3
  <2>6. m + 1 \in 0 .. n
    OBVIOUS
  <2> HIDE DEF g
  <2> QED
    BY <2>3, <2>4, <2>5, <2>6
<1>3. \A m \in 0 .. n : m \in P
  <2> HIDE DEF P
  <2> QED
    BY <1>1, <1>2, UpTo
<1>4. n \in P
  BY <1>3
<1> QED
  BY <1>4 DEF Follows

-----------------------------------------------------------------------------
(* strtoll.                                                                *)

(* The first position from pos on outside a set of characters.             *)
LEMMA SkipIs ==
  ASSUME NEW S, NEW s \in Seq(S), NEW pos \in Nat, NEW set
  PROVE  /\ Skip(s, pos, set) \in Nat
         /\ Skip(s, pos, set) >= pos \/ Skip(s, pos, set) = Len(s) + 1
         /\ Skip(s, pos, set) <= Len(s) + 1
         /\ \A i \in pos .. Skip(s, pos, set) - 1 : s[i] \in set
<1> DEFINE T == {k \in pos .. Len(s) : s[k] \notin set} \cup {Len(s) + 1}
<1>1. Len(s) \in Nat
  BY LenProperties
<1>2. T \in SUBSET Nat /\ T # {}
  BY <1>1
<1>3. PICK r \in T : r = Skip(s, pos, set) /\ \A k \in T : r <= k
  <2>1. Min(T) \in T /\ \A k \in T : Min(T) <= k
    <3> HIDE DEF T
    <3> QED
      BY <1>2, MinIs
  <2> QED
    BY <2>1 DEF Skip
<1>4. r \in Nat /\ r <= Len(s) + 1 /\ (r >= pos \/ r = Len(s) + 1)
  BY <1>1, <1>2, <1>3
<1>5. ASSUME NEW i \in pos .. r - 1 PROVE s[i] \in set
  <2>1. i \in pos .. Len(s) /\ i \in Nat /\ ~(r <= i)
    BY <1>1, <1>4
  <2>2. i \notin T
    BY <1>3, <2>1
  <2> QED
    BY <2>1, <2>2
<1> QED
  BY <1>3, <1>4, <1>5

(* The numeral of a string consists of digits.                             *)
LEMMA NumeralIs ==
  ASSUME NEW S, NEW s \in Seq(S)
  PROVE  Numeral(s) \in Seq(DigitChars) /\ SignAt(s) \in Nat /\ DigitsAt(s) \in Nat
<1>1. SignAt(s) \in Nat
  BY SkipIs DEF SignAt
<1>2. PICK p \in Nat : p = DigitsAt(s)
  BY <1>1 DEF DigitsAt
<1>3. PICK q \in Nat : q = Skip(s, p, DigitChars) /\ \A i \in p .. q - 1 : s[i] \in DigitChars
  BY SkipIs
<1>4. PICK last \in Int : last = q - 1
  OBVIOUS
<1>5. SubSeq(s, p, last) \in Seq(DigitChars)
  BY <1>3, <1>4, SubSeqProperties
<1> QED
  BY <1>1, <1>2, <1>3, <1>4, <1>5 DEF Numeral

(* The value of a numeral is a natural number.                             *)
LEMMA MagnitudeIs ==
  ASSUME NEW digits \in Seq(DigitChars)
  PROVE  Magnitude(digits) \in Nat
<1>1. PICK n \in Nat : n = Len(digits)
  BY LenProperties
<1> DEFINE ValueOf(k) == CHOOSE d \in 0 .. 9 : Digits[d + 1] = digits[k]
<1>2. ASSUME NEW k \in 1 .. n PROVE ValueOf(k) \in 0 .. 9
  <2>1. digits[k] \in DigitChars
    BY <1>1, ElementOfSeq
  <2>2. DOMAIN Digits = 1 .. 10
    BY DEF Digits
  <2>3. PICK i \in 1 .. 10 : Digits[i] = digits[k]
    BY <2>1, <2>2 DEF DigitChars
  <2>4. i - 1 \in 0 .. 9 /\ (i - 1) + 1 = i
    OBVIOUS
  <2>5. \E d \in 0 .. 9 : Digits[d + 1] = digits[k]
    BY <2>3, <2>4
  <2> QED
    BY <2>5
<1> HIDE DEF ValueOf
<1> DEFINE G == [kv \in (1 .. n) \X Nat |-> 10 * kv[2] + ValueOf(kv[1])]
           Is(f) == f = [k \in 0 .. n |-> IF k = 0 THEN 0 ELSE 10 * f[k - 1] + ValueOf(k)]
<1>3. G \in [(1 .. n) \X Nat -> Nat]
  BY <1>2
<1>4. \E f : Is(f)
  <2>1. PICK f \in [0 .. n -> Nat] : f[0] = 0 /\ \A k \in 1 .. n : f[k] = G[<<k, f[k - 1]>>]
    <3> HIDE DEF G
    <3> HIDE DEF G
    <3>1. \E f \in [0 .. n -> Nat] : Follows(f, 0, G, n)
      BY <1>3, Recursion
    <3> QED
      BY <3>1 DEF Follows
  <2>2. \A k \in 1 .. n : f[k] = 10 * f[k - 1] + ValueOf(k)
    <3> SUFFICES ASSUME NEW k \in 1 .. n PROVE f[k] = 10 * f[k - 1] + ValueOf(k)
      OBVIOUS
    <3>1. k - 1 \in 0 .. n /\ f[k - 1] \in Nat
      OBVIOUS
    <3>2. G[<<k, f[k - 1]>>] = 10 * f[k - 1] + ValueOf(k)
      BY <3>1
    <3> QED
      BY <2>1, <3>2
  <2>3. f = [k \in 0 .. n |-> f[k]]
    OBVIOUS
  <2>4. \A k \in 0 .. n : f[k] = IF k = 0 THEN 0 ELSE 10 * f[k - 1] + ValueOf(k)
    BY <2>1, <2>2
  <2>5. Is(f)
    BY <2>3, <2>4
  <2> QED
    BY <2>5
<1>5. PICK f : Is(f) /\ Magnitude(digits) = f[n]
  <2> DEFINE g == CHOOSE f : Is(f)
  <2>1. Is(g)
    BY <1>4
  <2>2. Magnitude(digits) = g[n]
    BY <1>1 DEF Magnitude, ValueOf
  <2> HIDE DEF g
  <2> QED
    BY <2>1, <2>2
<1> DEFINE P == {k \in 0 .. n : f[k] \in Nat}
<1>6. 0 \in P
  BY <1>5
<1>7. ASSUME NEW k \in 0 .. n - 1, k \in P PROVE k + 1 \in P
  <2>1. PICK next \in 1 .. n : next = k + 1 /\ next - 1 = k
    OBVIOUS
  <2>2. f[next] = 10 * f[k] + ValueOf(next)
    BY <1>5, <2>1
  <2>3. PICK d \in Nat : d = ValueOf(next)
    BY <1>2
  <2>4. PICK v \in Nat : v = f[k]
    BY <1>7
  <2>5. f[next] \in Nat
    BY <2>2, <2>3, <2>4
  <2> QED
    BY <2>1, <2>5
<1>8. \A k \in 0 .. n : k \in P
  <2> HIDE DEF P
  <2> QED
    BY <1>6, <1>7, UpTo
<1>9. n \in P
  BY <1>8
<1> QED
  BY <1>5, <1>9

(* The number a string starts with is an integer.                          *)
LEMMA NumberIs ==
  ASSUME NEW S, NEW s \in Seq(S)
  PROVE  Number(s) \in Int
BY NumeralIs, MagnitudeIs DEF Number

(* The conversion to a narrower type keeps exactly the values the type has.*)
LEMMA NarrowKeeps ==
  ASSUME NEW value \in Int, NEW limit \in Nat, limit > 0
  PROVE  Narrow(value, limit) = value <=> value \in Values(limit)
<1>1. PICK m \in Nat : m = 2 * limit /\ m > 0
  OBVIOUS
<1>2. (value + limit) % m \in 0 .. m - 1
  BY <1>1
<1>3. value + limit \in 0 .. m - 1 => (value + limit) % m = value + limit
  BY <1>1
<1>4. Narrow(value, limit) = ((value + limit) % m) - limit
  BY <1>1 DEF Narrow
<1>5. value \in Values(limit) <=> value + limit \in 0 .. m - 1
  BY <1>1 DEF Values
<1> QED
  BY <1>2, <1>3, <1>4, <1>5

(* strtoll returns the number if the type has it, and a value of the type  *)
(* in any case.                                                            *)
LEMMA StrtollIs ==
  ASSUME NEW S, NEW s \in Seq(S)
  PROVE  /\ Strtoll(s) \in Values(LongLongLimit)
         /\ Strtoll(s) = Number(s) <=> Number(s) \in Values(LongLongLimit)
<1>1. Number(s) \in Int /\ LongLongLimit \in Nat /\ LongLongLimit > 0
  BY NumberIs, LimitAssumption
<1>2. CASE Number(s) < -LongLongLimit
  BY <1>1, <1>2 DEF Strtoll, Values
<1>3. CASE Number(s) >= LongLongLimit
  BY <1>1, <1>3 DEF Strtoll, Values
<1>4. CASE ~(Number(s) < -LongLongLimit) /\ ~(Number(s) >= LongLongLimit)
  BY <1>1, <1>4 DEF Strtoll, Values
<1> QED
  BY <1>2, <1>3, <1>4

(* The narrower conversions: neither the saturation nor the truncation     *)
(* goes unnoticed.                                                         *)
LEMMA NarrowedIs ==
  ASSUME NEW S, NEW s \in Seq(S), NEW limit \in Nat, limit > 0, limit <= LongLongLimit
  PROVE  /\ Narrowed(s, limit).ok <=> Numeral(s) # << >> /\ Number(s) \in Values(limit)
         /\ Narrowed(s, limit).ok => Narrowed(s, limit).value = Number(s)
<1>1. Number(s) \in Int /\ LongLongLimit \in Nat
  BY NumberIs, LimitAssumption
<1>2. PICK v \in Int :
        /\ v = Strtoll(s)
        /\ v = Number(s) <=> Number(s) \in Values(LongLongLimit)
  BY <1>1, StrtollIs DEF Values
<1>3. Narrow(v, limit) = v <=> v \in Values(limit)
  BY NarrowKeeps
<1>4. /\ Narrowed(s, limit).ok <=> Numeral(s) # << >> /\ Number(s) = v /\ v = Narrow(v, limit)
      /\ Narrowed(s, limit).value = Narrow(v, limit)
  BY <1>2 DEF Narrowed, StrToLongLong, ERANGE
<1>5. Number(s) \in Values(limit) => Number(s) \in Values(LongLongLimit)
  BY <1>1 DEF Values
<1> QED
  BY <1>2, <1>3, <1>4, <1>5

(* The conversions to int, long and long long accept exactly the numbers   *)
(* of their type, for every string and any limits of the types.            *)
THEOREM NumberExactHolds == Spec => []NumberExact
<1>1. InputInv => NumberExact
  <2> SUFFICES ASSUME InputInv PROVE NumberExact
    OBVIOUS
  <2>1. /\ IntLimit \in Nat /\ IntLimit > 0 /\ IntLimit <= LongLongLimit
        /\ LongLimit \in Nat /\ LongLimit > 0 /\ LongLimit <= LongLongLimit
    BY LimitAssumption
  <2>2. /\ StrToInt(input).ok <=> Numeral(input) # << >> /\ Number(input) \in Values(IntLimit)
        /\ StrToInt(input).ok => StrToInt(input).value = Number(input)
    BY <2>1, NarrowedIs DEF InputInv, StrToInt
  <2>3. /\ StrToLong(input).ok <=> Numeral(input) # << >> /\ Number(input) \in Values(LongLimit)
        /\ StrToLong(input).ok => StrToLong(input).value = Number(input)
    BY <2>1, NarrowedIs DEF InputInv, StrToLong
  <2>4. /\ StrToLongLong(input).ok
           <=> Numeral(input) # << >> /\ Number(input) \in Values(LongLongLimit)
        /\ StrToLongLong(input).ok => StrToLongLong(input).value = Number(input)
    BY StrtollIs DEF InputInv, StrToLongLong, ERANGE
  <2> QED
    BY <2>2, <2>3, <2>4 DEF NumberExact
<1> QED
  BY <1>1, InputIsString, PTL

-----------------------------------------------------------------------------
(* Powers and sums.                                                        *)

IsPowers(f, b, n) == f = [k \in 0 .. n |-> IF k = 0 THEN 1 ELSE b * f[k - 1]]

(* The functions that Power unrolls exist.                                 *)
LEMMA PowersExist ==
  ASSUME NEW b \in Nat, NEW n \in Nat
  PROVE  \E f \in [0 .. n -> Nat] : IsPowers(f, b, n)
<1> DEFINE G == [kv \in (1 .. n) \X Nat |-> b * kv[2]]
<1>1. G \in [(1 .. n) \X Nat -> Nat]
  OBVIOUS
<1>2. PICK f \in [0 .. n -> Nat] : f[0] = 1 /\ \A k \in 1 .. n : f[k] = G[<<k, f[k - 1]>>]
  <2> HIDE DEF G
  <2>1. \E f \in [0 .. n -> Nat] : Follows(f, 1, G, n)
    BY <1>1, Recursion
  <2> QED
    BY <2>1 DEF Follows
<1>3. ASSUME NEW k \in 1 .. n PROVE f[k] = b * f[k - 1]
  <2>1. k - 1 \in 0 .. n /\ f[k - 1] \in Nat
    OBVIOUS
  <2>2. G[<<k, f[k - 1]>>] = b * f[k - 1]
    BY <2>1
  <2> QED
    BY <1>2, <2>2
<1>4. \A k \in 0 .. n : f[k] = IF k = 0 THEN 1 ELSE b * f[k - 1]
  BY <1>2, <1>3
<1>5. IsPowers(f, b, n)
  BY <1>4 DEF IsPowers
<1> QED
  BY <1>5

(* Two of them agree where both go.                                        *)
LEMMA PowersAgree ==
  ASSUME NEW b, NEW n \in Nat, NEW m \in 0 .. n, NEW f, NEW g, IsPowers(f, b, n), IsPowers(g, b, m)
  PROVE  f[m] = g[m]
<1> DEFINE P == {k \in 0 .. m : f[k] = g[k]}
<1>1. 0 \in P
  BY DEF IsPowers
<1>2. ASSUME NEW k \in 0 .. m - 1, k \in P PROVE k + 1 \in P
  <2>1. PICK next \in 1 .. m : next = k + 1 /\ next - 1 = k
    OBVIOUS
  <2>2. f[next] = b * f[k] /\ g[next] = b * g[k]
    BY <2>1 DEF IsPowers
  <2> QED
    BY <1>2, <2>1, <2>2
<1>3. \A k \in 0 .. m : k \in P
  <2> HIDE DEF P
  <2> QED
    BY <1>1, <1>2, UpTo
<1> QED
  BY <1>3

(* Power is defined by 1 and the multiplication with the base.             *)
LEMMA PowerIs ==
  ASSUME NEW b \in Nat, NEW n \in Nat, NEW f, IsPowers(f, b, n)
  PROVE  Power(b, n) = f[n] /\ f[n] \in Nat
<1> DEFINE g == CHOOSE h : IsPowers(h, b, n)
<1>1. PICK h \in [0 .. n -> Nat] : IsPowers(h, b, n)
  BY PowersExist
<1>2. IsPowers(g, b, n)
  BY <1>1
<1>3. Power(b, n) = g[n]
  BY DEF Power, IsPowers
<1> HIDE DEF g
<1>4. f[n] = g[n] /\ f[n] = h[n]
  BY <1>1, <1>2, PowersAgree
<1> QED
  BY <1>1, <1>3, <1>4

(* The first power, and the next one.                                      *)
LEMMA PowerSteps ==
  ASSUME NEW b \in Nat
  PROVE  /\ Power(b, 0) = 1
         /\ \A n \in Nat : Power(b, n) \in Nat /\ Power(b, n + 1) = b * Power(b, n)
<1>1. Power(b, 0) = 1
  <2>1. PICK f \in [0 .. 0 -> Nat] : IsPowers(f, b, 0)
    BY PowersExist
  <2>2. f[0] = 1
    BY <2>1 DEF IsPowers
  <2> QED
    BY <2>1, <2>2, PowerIs
<1>2. ASSUME NEW n \in Nat PROVE Power(b, n) \in Nat /\ Power(b, n + 1) = b * Power(b, n)
  <2>1. PICK next \in Nat : next = n + 1
    OBVIOUS
  <2>2. PICK f \in [0 .. next -> Nat] : IsPowers(f, b, next)
    BY PowersExist
  <2>3. PICK g \in [0 .. n -> Nat] : IsPowers(g, b, n)
    BY PowersExist
  <2>4. f[n] = g[n]
    BY <2>1, <2>2, <2>3, PowersAgree
  <2>5. Power(b, n) = g[n] /\ g[n] \in Nat /\ Power(b, next) = f[next]
    BY <2>2, <2>3, PowerIs
  <2>6. f[next] = b * f[n]
    BY <2>1, <2>2 DEF IsPowers
  <2> QED
    BY <2>1, <2>4, <2>5, <2>6
<1> QED
  BY <1>1, <1>2

(* A power of a positive base is positive.                                 *)
LEMMA PowerPositive ==
  ASSUME NEW b \in Nat, b > 0, NEW n \in Nat
  PROVE  Power(b, n) \in Nat /\ Power(b, n) > 0
<1> DEFINE P == {k \in 0 .. n : Power(b, k) > 0}
<1>1. 0 \in P
  BY PowerSteps
<1>2. ASSUME NEW k \in 0 .. n - 1, k \in P PROVE k + 1 \in P
  <2>1. PICK p \in Nat : p = Power(b, k) /\ p > 0 /\ Power(b, k + 1) = b * p
    BY <1>2, PowerSteps
  <2>2. b * p > 0
    BY <2>1
  <2> QED
    BY <2>1, <2>2
<1>3. \A k \in 0 .. n : k \in P
  <2> HIDE DEF P
  <2> QED
    BY <1>1, <1>2, UpTo
<1> QED
  BY <1>3, PowerSteps

(* A power is the product of two that share its exponent.                  *)
LEMMA PowerSplit ==
  ASSUME NEW b \in Nat, NEW k \in Nat, NEW n \in Nat
  PROVE  Power(b, k + n) = Power(b, k) * Power(b, n)
<1> DEFINE P == {j \in 0 .. n : Power(b, k + j) = Power(b, k) * Power(b, j)}
<1>1. 0 \in P
  BY PowerSteps
<1>2. ASSUME NEW j \in 0 .. n - 1, j \in P PROVE j + 1 \in P
  <2>1. PICK p \in Nat, q \in Nat :
          p = Power(b, k) /\ q = Power(b, j) /\ Power(b, j + 1) = b * q
    <3>1. Power(b, k) \in Nat
      BY PowerSteps
    <3>2. j \in Nat
      OBVIOUS
    <3>3. Power(b, j) \in Nat /\ Power(b, j + 1) = b * Power(b, j)
      BY <3>2, PowerSteps
    <3> QED
      BY <3>1, <3>3
  <2>2. PICK i \in Nat : i = k + j /\ i + 1 = k + (j + 1)
    OBVIOUS
  <2>3. Power(b, i + 1) = b * Power(b, i) /\ Power(b, i) = p * q
    BY <1>2, <2>1, <2>2, PowerSteps
  <2>4. b * (p * q) = p * (b * q)
    OBVIOUS
  <2> QED
    BY <2>1, <2>2, <2>3, <2>4
<1>3. \A j \in 0 .. n : j \in P
  <2> HIDE DEF P
  <2> QED
    BY <1>1, <1>2, UpTo
<1> QED
  BY <1>3

IsSums(s, f, n) == s = [k \in 0 .. n |-> IF k = 0 THEN 0 ELSE s[k - 1] + f[k - 1]]

(* The functions that SumUpTo unrolls exist for integers.                  *)
LEMMA SumsExist ==
  ASSUME NEW n \in Nat, NEW f, \A k \in 0 .. n - 1 : f[k] \in Int
  PROVE  \E s \in [0 .. n -> Int] : IsSums(s, f, n)
<1> DEFINE G == [kv \in (1 .. n) \X Int |-> kv[2] + f[kv[1] - 1]]
<1>1. G \in [(1 .. n) \X Int -> Int]
  <2>1. \A k \in 1 .. n : f[k - 1] \in Int
    OBVIOUS
  <2> QED
    BY <2>1
<1>2. PICK s \in [0 .. n -> Int] : s[0] = 0 /\ \A k \in 1 .. n : s[k] = G[<<k, s[k - 1]>>]
  <2> HIDE DEF G
  <2>1. PICK z \in Int : z = 0
    OBVIOUS
  <2>2. \E s \in [0 .. n -> Int] : Follows(s, z, G, n)
    BY <1>1, Recursion
  <2> QED
    BY <2>1, <2>2 DEF Follows
<1>3. ASSUME NEW k \in 1 .. n PROVE s[k] = s[k - 1] + f[k - 1]
  <2>1. k - 1 \in 0 .. n /\ s[k - 1] \in Int
    OBVIOUS
  <2>2. G[<<k, s[k - 1]>>] = s[k - 1] + f[k - 1]
    BY <2>1
  <2> QED
    BY <1>2, <2>2
<1>4. \A k \in 0 .. n : s[k] = IF k = 0 THEN 0 ELSE s[k - 1] + f[k - 1]
  BY <1>2, <1>3
<1>5. IsSums(s, f, n)
  BY <1>4 DEF IsSums
<1> QED
  BY <1>5

Agree(f, g, n) == \A k \in 0 .. n - 1 : f[k] = g[k]

(* Sums of functions that agree do.                                        *)
LEMMA SumsAgree ==
  ASSUME NEW n \in Nat, NEW m \in 0 .. n, NEW f, NEW g, Agree(f, g, m),
         NEW s, NEW t, IsSums(s, f, n), IsSums(t, g, m)
  PROVE  s[m] = t[m]
<1> DEFINE P == {k \in 0 .. m : s[k] = t[k]}
<1>1. 0 \in P
  BY DEF IsSums
<1>2. ASSUME NEW k \in 0 .. m - 1, k \in P PROVE k + 1 \in P
  <2>1. PICK next \in 1 .. m : next = k + 1 /\ next - 1 = k
    OBVIOUS
  <2>2. s[next] = s[k] + f[k] /\ t[next] = t[k] + g[k]
    BY <2>1 DEF IsSums
  <2>3. f[k] = g[k]
    BY DEF Agree
  <2> QED
    BY <1>2, <2>1, <2>2, <2>3
<1>3. \A k \in 0 .. m : k \in P
  <2> HIDE DEF P
  <2> QED
    BY <1>1, <1>2, UpTo
<1> QED
  BY <1>3

(* SumUpTo is the last of them.                                            *)
LEMMA SumIs ==
  ASSUME NEW n \in Nat, NEW f, \A k \in 0 .. n - 1 : f[k] \in Int, NEW s, IsSums(s, f, n)
  PROVE  SumUpTo(f, n) = s[n] /\ s[n] \in Int
<1> DEFINE t == CHOOSE h : IsSums(h, f, n)
<1>1. PICK h \in [0 .. n -> Int] : IsSums(h, f, n)
  BY SumsExist
<1>2. IsSums(t, f, n)
  BY <1>1
<1>3. SumUpTo(f, n) = t[n]
  BY DEF SumUpTo, IsSums
<1> HIDE DEF t
<1>4. n \in 0 .. n /\ Agree(f, f, n)
  BY DEF Agree
<1>5. s[n] = t[n]
  BY <1>2, <1>4, SumsAgree
<1>6. s[n] = h[n]
  BY <1>1, <1>4, SumsAgree
<1> QED
  BY <1>1, <1>3, <1>5, <1>6

(* The empty sum, and one element more.                                    *)
LEMMA SumSteps ==
  ASSUME NEW n \in Nat, NEW f, \A k \in 0 .. n - 1 : f[k] \in Int
  PROVE  /\ SumUpTo(f, n) \in Int
         /\ n = 0 => SumUpTo(f, n) = 0
         /\ n > 0 => SumUpTo(f, n) = SumUpTo(f, n - 1) + f[n - 1]
<1>1. PICK s \in [0 .. n -> Int] : IsSums(s, f, n)
  BY SumsExist
<1>2. SumUpTo(f, n) = s[n] /\ s[n] \in Int
  BY <1>1, SumIs
<1>3. n = 0 => s[n] = 0
  BY <1>1 DEF IsSums
<1>4. ASSUME n > 0 PROVE SumUpTo(f, n) = SumUpTo(f, n - 1) + f[n - 1]
  <2>1. PICK m \in Nat : m = n - 1 /\ m \in 0 .. n
    BY <1>4
  <2>2. \A k \in 0 .. m - 1 : f[k] \in Int
    BY <2>1
  <2>3. PICK t \in [0 .. m -> Int] : IsSums(t, f, m)
    BY <2>2, SumsExist
  <2>4. SumUpTo(f, m) = t[m]
    BY <2>2, <2>3, SumIs
  <2>5. s[m] = t[m]
    <3>1. Agree(f, f, m)
      BY DEF Agree
    <3> QED
      BY <1>1, <2>1, <2>3, <3>1, SumsAgree
  <2>6. s[n] = s[m] + f[m]
    BY <1>1, <1>4, <2>1 DEF IsSums
  <2> QED
    BY <1>2, <2>1, <2>4, <2>5, <2>6
<1> QED
  BY <1>2, <1>3, <1>4

(* Equal terms, equal sums.                                                *)
LEMMA SumsEqual ==
  ASSUME NEW n \in Nat, NEW f, NEW g, \A k \in 0 .. n - 1 : f[k] \in Int /\ f[k] = g[k]
  PROVE  SumUpTo(f, n) = SumUpTo(g, n)
<1>1. \A k \in 0 .. n - 1 : g[k] \in Int
  OBVIOUS
<1>2. PICK s \in [0 .. n -> Int] : IsSums(s, f, n)
  BY SumsExist
<1>3. PICK t \in [0 .. n -> Int] : IsSums(t, g, n)
  BY <1>1, SumsExist
<1>4. s[n] = t[n]
  <2>1. n \in 0 .. n
    OBVIOUS
  <2>2. Agree(f, g, n)
    BY DEF Agree
  <2> QED
    BY <1>2, <1>3, <2>1, <2>2, SumsAgree
<1> QED
  BY <1>1, <1>2, <1>3, <1>4, SumIs

(* A sum does not depend on the direction.                                 *)
LEMMA SumReversed ==
  ASSUME NEW n \in Nat, NEW f, NEW g,
         \A k \in 0 .. n - 1 : f[k] \in Int /\ g[k] = f[n - 1 - k]
  PROVE  SumUpTo(f, n) = SumUpTo(g, n)
<1>1. \A k \in 0 .. n - 1 : g[k] \in Int
  OBVIOUS
<1> DEFINE P == {m \in 0 .. n : SumUpTo(g, m) + SumUpTo(f, n - m) = SumUpTo(f, n)}
<1>2. SumUpTo(f, n) \in Int /\ SumUpTo(f, 0) = 0 /\ SumUpTo(g, n) \in Int /\ SumUpTo(g, 0) = 0
  BY <1>1, SumSteps
<1>3. 0 \in P
  BY <1>2
<1>4. ASSUME NEW m \in 0 .. n - 1, m \in P PROVE m + 1 \in P
  <2>1. PICK next \in 1 .. n : next = m + 1 /\ next - 1 = m /\ next \in Nat /\ next > 0
    OBVIOUS
  <2>2. PICK j \in 1 .. n : j = n - m /\ j - 1 = n - next /\ j \in Nat /\ j > 0
    BY <2>1
  <2>3. \A k \in 0 .. next - 1 : g[k] \in Int
    BY <1>1
  <2>4. \A k \in 0 .. j - 1 : f[k] \in Int
    OBVIOUS
  <2>5. SumUpTo(g, next) = SumUpTo(g, m) + g[m]
    BY <2>1, <2>3, SumSteps
  <2>6. SumUpTo(f, j) = SumUpTo(f, n - next) + f[n - next]
    BY <2>2, <2>4, SumSteps
  <2>7. g[m] = f[n - next] /\ g[m] \in Int
    <3>1. n - 1 - m = n - next
      BY <2>1
    <3> QED
      BY <1>1, <3>1
  <2>8. SumUpTo(g, m) \in Int /\ SumUpTo(f, n - next) \in Int
    <3>1. m \in Nat /\ \A k \in 0 .. m - 1 : g[k] \in Int
      BY <1>1
    <3>2. PICK i \in Nat : i = n - next
      BY <2>1
    <3>3. \A k \in 0 .. i - 1 : f[k] \in Int
      BY <3>2
    <3> QED
      BY <3>1, <3>2, <3>3, SumSteps
  <2>9. SumUpTo(g, m) + SumUpTo(f, j) = SumUpTo(f, n)
    BY <1>4, <2>2
  <2>10. SumUpTo(g, next) + SumUpTo(f, n - next) = SumUpTo(f, n)
    BY <1>2, <2>5, <2>6, <2>7, <2>8, <2>9
  <2> QED
    BY <2>1, <2>10
<1>5. \A m \in 0 .. n : m \in P
  <2> HIDE DEF P
  <2> QED
    BY <1>3, <1>4, UpTo
<1>6. n \in P /\ n - n = 0
  BY <1>5
<1> QED
  BY <1>2, <1>6

-----------------------------------------------------------------------------
(* Positional numbers.                                                     *)

Integral(f, n) == \A k \in 0 .. n - 1 : f[k] \in Int

DigitsOf(f, b, n) == \A k \in 0 .. n - 1 : f[k] \in 0 .. b - 1

(* The terms of a positional number.                                       *)
Terms(f, b, n) == [k \in 0 .. n - 1 |-> f[k] * Power(b, k)]

(* The terms are integers.                                                 *)
LEMMA TermsIntegral ==
  ASSUME NEW b \in Nat, NEW n \in Nat, NEW f, Integral(f, n)
  PROVE  \A k \in 0 .. n - 1 : Terms(f, b, n)[k] = f[k] * Power(b, k) /\ Terms(f, b, n)[k] \in Int
<1> SUFFICES ASSUME NEW k \in 0 .. n - 1
             PROVE  Terms(f, b, n)[k] = f[k] * Power(b, k) /\ Terms(f, b, n)[k] \in Int
  OBVIOUS
<1>1. k \in Nat
  OBVIOUS
<1>2. PICK p \in Nat : p = Power(b, k)
  BY <1>1, PowerSteps
<1>3. f[k] \in Int
  BY DEF Integral
<1>4. f[k] * p \in Int
  BY <1>3
<1> QED
  BY <1>2, <1>4 DEF Terms

(* No digit at all, and one more.                                          *)
LEMMA ComposedSteps ==
  ASSUME NEW b \in Nat, NEW n \in Nat, NEW f, Integral(f, n)
  PROVE  /\ Composed(f, b, n) \in Int
         /\ n = 0 => Composed(f, b, n) = 0
         /\ n > 0 => Composed(f, b, n) = Composed(f, b, n - 1) + f[n - 1] * Power(b, n - 1)
<1>1. \A k \in 0 .. n - 1 : Terms(f, b, n)[k] = f[k] * Power(b, k) /\ Terms(f, b, n)[k] \in Int
  BY TermsIntegral
<1>2. Composed(f, b, n) = SumUpTo(Terms(f, b, n), n)
  BY DEF Composed, Terms
<1>3. /\ SumUpTo(Terms(f, b, n), n) \in Int
      /\ n = 0 => SumUpTo(Terms(f, b, n), n) = 0
      /\ n > 0 => SumUpTo(Terms(f, b, n), n)
                  = SumUpTo(Terms(f, b, n), n - 1) + Terms(f, b, n)[n - 1]
  BY <1>1, SumSteps
<1>4. ASSUME n > 0
      PROVE  Composed(f, b, n) = Composed(f, b, n - 1) + f[n - 1] * Power(b, n - 1)
  <2>1. PICK m \in Nat : m = n - 1 /\ m \in 0 .. n - 1
    BY <1>4
  <2>2. Integral(f, m)
    BY <2>1 DEF Integral
  <2>3. \A k \in 0 .. m - 1 : Terms(f, b, m)[k] = f[k] * Power(b, k) /\ Terms(f, b, m)[k] \in Int
    BY <2>2, TermsIntegral
  <2>4. \A k \in 0 .. m - 1 :
          Terms(f, b, n)[k] \in Int /\ Terms(f, b, n)[k] = Terms(f, b, m)[k]
    BY <1>1, <2>1, <2>3
  <2>5. SumUpTo(Terms(f, b, n), m) = SumUpTo(Terms(f, b, m), m)
    BY <2>4, SumsEqual
  <2>6. Composed(f, b, m) = SumUpTo(Terms(f, b, m), m)
    BY DEF Composed, Terms
  <2>7. Terms(f, b, n)[m] = f[m] * Power(b, m)
    BY <1>1, <2>1
  <2> QED
    BY <1>2, <1>3, <1>4, <2>1, <2>5, <2>6, <2>7
<1> QED
  BY <1>2, <1>3, <1>4

(* A number depends on the digits it has.                                  *)
LEMMA ComposedEqual ==
  ASSUME NEW b \in Nat, NEW n \in Nat, NEW f, NEW g, Integral(f, n), Agree(f, g, n)
  PROVE  Composed(f, b, n) = Composed(g, b, n)
<1>1. \A k \in 0 .. n - 1 : f[k] = g[k]
  BY DEF Agree
<1>2. Terms(f, b, n) = Terms(g, b, n)
  BY <1>1 DEF Terms
<1> QED
  BY <1>2 DEF Composed, Terms

(* x = n * q + r with a remainder r is the division of x by n.             *)
LEMMA DivisionIs ==
  ASSUME NEW n \in Nat, n > 0, NEW q \in Int, NEW r \in 0 .. n - 1
  PROVE  (n * q + r) \div n = q /\ (n * q + r) % n = r
OBVIOUS

(* Division takes a multiple of the divisor out.                           *)
LEMMA DivShift ==
  ASSUME NEW n \in Nat, n > 0, NEW q \in Int, NEW x \in Int
  PROVE  (x + n * q) \div n = (x \div n) + q /\ (x + n * q) % n = x % n
<1>1. PICK d \in Int, r \in 0 .. n - 1 : d = x \div n /\ r = x % n /\ x = n * d + r
  OBVIOUS
<1>2. x + n * q = n * (d + q) + r
  BY <1>1
<1>3. d + q \in Int
  OBVIOUS
<1>4. (n * (d + q) + r) \div n = d + q /\ (n * (d + q) + r) % n = r
  BY <1>3, DivisionIs
<1> QED
  BY <1>1, <1>2, <1>4

(* Division by a product, one factor after the other.                      *)
LEMMA DivSplit ==
  ASSUME NEW n \in Nat, n > 0, NEW b \in Nat, b > 0, NEW x \in Int
  PROVE  x % (b * n) = (x % n) + ((x \div n) % b) * n
<1>1. PICK d \in Int, r \in 0 .. n - 1 : d = x \div n /\ r = x % n /\ x = n * d + r
  OBVIOUS
<1>2. PICK e \in Int, g \in 0 .. b - 1 : e = d \div b /\ g = d % b /\ d = b * e + g
  OBVIOUS
<1>3. PICK m \in Nat : m = b * n /\ m > 0
  OBVIOUS
<1>4. r + g * n \in 0 .. m - 1
  <2>1. g * n <= (b - 1) * n
    BY TimesMonotonic
  <2>2. (b - 1) * n = m - n
    BY <1>3
  <2>3. g * n \in Nat
    OBVIOUS
  <2> QED
    BY <1>3, <2>1, <2>2, <2>3
<1>5. x = m * e + (r + g * n)
  <2>1. n * (b * e + g) = (b * n) * e + g * n
    OBVIOUS
  <2>2. n * d = (b * n) * e + g * n
    BY <1>2, <2>1
  <2> QED
    BY <1>1, <1>3, <2>2
<1>6. x % m = r + g * n
  BY <1>3, <1>4, <1>5, DivisionIs
<1> QED
  BY <1>1, <1>2, <1>3, <1>6

(* Digits are integers, and of every shorter number too.                   *)
LEMMA DigitsIntegral ==
  ASSUME NEW b \in Nat, NEW n \in Nat, NEW f, DigitsOf(f, b, n), NEW m \in 0 .. n
  PROVE  Integral(f, m) /\ DigitsOf(f, b, m)
BY DEF Integral, DigitsOf

(* n digits make a number below the n-th power of the base.                *)
LEMMA ComposedBound ==
  ASSUME NEW b \in Nat, b > 0, NEW n \in Nat, NEW f, DigitsOf(f, b, n)
  PROVE  Composed(f, b, n) \in 0 .. Power(b, n) - 1
<1> DEFINE P == {m \in 0 .. n : Composed(f, b, m) \in 0 .. Power(b, m) - 1}
<1>1. 0 \in P
  <2>1. Integral(f, 0)
    BY DEF Integral
  <2>2. Composed(f, b, 0) = 0 /\ Power(b, 0) = 1
    BY <2>1, ComposedSteps, PowerSteps
  <2> QED
    BY <2>2
<1>2. ASSUME NEW k \in 0 .. n - 1, k \in P PROVE k + 1 \in P
  <2>1. PICK next \in 1 .. n : next = k + 1 /\ next - 1 = k /\ next \in Nat /\ next > 0
    OBVIOUS
  <2>2. Integral(f, next)
    BY <2>1, DigitsIntegral
  <2>3. PICK p \in Nat : p = Power(b, k) /\ p > 0
    BY PowerPositive
  <2>4. Power(b, next) = b * p
    BY <2>1, <2>3, PowerSteps
  <2>5. Composed(f, b, next) = Composed(f, b, k) + f[k] * p
    BY <2>1, <2>2, <2>3, ComposedSteps
  <2>6. f[k] \in 0 .. b - 1
    BY DEF DigitsOf
  <2>7. PICK c \in 0 .. p - 1 : c = Composed(f, b, k)
    BY <1>2, <2>3
  <2>8. c + f[k] * p \in 0 .. (b * p) - 1
    <3>1. f[k] * p <= (b - 1) * p
      BY <2>3, <2>6, TimesMonotonic
    <3>2. (b - 1) * p = b * p - p
      BY <2>3
    <3>3. f[k] * p \in Nat /\ b * p \in Nat
      BY <2>3, <2>6
    <3> QED
      BY <2>3, <2>7, <3>1, <3>2, <3>3
  <2> QED
    BY <2>1, <2>4, <2>5, <2>7, <2>8
<1>3. \A k \in 0 .. n : k \in P
  <2> HIDE DEF P
  <2> QED
    BY <1>1, <1>2, UpTo
<1> QED
  BY <1>3

(* Digit k of a number is the digit it was composed of.                    *)
LEMMA DigitOfComposed ==
  ASSUME NEW b \in Nat, b > 0, NEW n \in Nat, NEW f, DigitsOf(f, b, n), NEW k \in 0 .. n - 1
  PROVE  Digit(Composed(f, b, n), b, k) = f[k]
<1> DEFINE P == {j \in 0 .. n - 1 - k : Digit(Composed(f, b, k + j + 1), b, k) = f[k]}
<1>1. PICK p \in Nat : p = Power(b, k) /\ p > 0
  BY PowerPositive
<1>2. f[k] \in 0 .. b - 1 /\ f[k] \in Int
  BY DEF DigitsOf
<1>3. 0 \in P
  <2>1. PICK next \in 1 .. n : next = k + 1 /\ next - 1 = k /\ next \in Nat /\ next > 0
    OBVIOUS
  <2>2. Integral(f, next) /\ DigitsOf(f, b, k)
    BY <2>1, DigitsIntegral
  <2>3. Composed(f, b, next) = Composed(f, b, k) + f[k] * p
    BY <1>1, <2>1, <2>2, ComposedSteps
  <2>4. PICK c \in 0 .. p - 1 : c = Composed(f, b, k)
    BY <1>1, <2>2, ComposedBound
  <2>5. (p * f[k] + c) \div p = f[k]
    BY <1>1, <1>2, DivisionIs
  <2>6. c + f[k] * p = p * f[k] + c
    BY <1>1, <1>2
  <2>7. Composed(f, b, next) \div p = f[k]
    BY <2>3, <2>4, <2>5, <2>6
  <2>8. f[k] % b = f[k]
    BY <1>2
  <2>9. Digit(Composed(f, b, next), b, k) = f[k]
    BY <1>1, <2>7, <2>8 DEF Digit
  <2> QED
    BY <2>1, <2>9
<1>4. ASSUME NEW j \in 0 .. (n - 1 - k) - 1, j \in P PROVE j + 1 \in P
  <2>1. PICK m \in Nat : m = k + j + 1 /\ m < n
    OBVIOUS
  <2>2. PICK next \in 1 .. n : next = m + 1 /\ next - 1 = m /\ next \in Nat /\ next > 0
    BY <2>1
  <2>3. Integral(f, next)
    BY <2>2, DigitsIntegral
  <2>4. Integral(f, m)
    BY <2>1, DigitsIntegral
  <2>5. PICK q \in Nat : q = Power(b, j)
    BY PowerSteps
  <2>6. Power(b, m) = p * (b * q)
    <3>1. PICK i \in Nat : i = j + 1 /\ k + i = m
      BY <2>1
    <3>2. Power(b, i) = b * q
      BY <2>5, <3>1, PowerSteps
    <3>3. Power(b, k + i) = Power(b, k) * Power(b, i)
      BY <3>1, PowerSplit
    <3> QED
      BY <1>1, <3>1, <3>2, <3>3
  <2>7. Composed(f, b, next) = Composed(f, b, m) + f[m] * (p * (b * q))
    BY <2>2, <2>3, <2>6, ComposedSteps
  <2>8. PICK c \in Int : c = Composed(f, b, m)
    BY <2>4, ComposedSteps
  <2>9. PICK d \in Int : d = f[m]
    BY <2>1 DEF DigitsOf
  <2>10. d * (p * (b * q)) = p * (b * (d * q)) /\ d * q \in Int /\ b * (d * q) \in Int
    BY <1>1, <2>5, <2>9
  <2>11. (c + p * (b * (d * q))) \div p = (c \div p) + b * (d * q)
    BY <1>1, <2>10, DivShift
  <2>12. ((c \div p) + b * (d * q)) % b = (c \div p) % b
    <3>1. c \div p \in Int
      BY <1>1
    <3> QED
      BY <2>10, <3>1, DivShift
  <2>13. Digit(Composed(f, b, next), b, k) = Digit(c, b, k)
    BY <1>1, <2>7, <2>8, <2>9, <2>10, <2>11, <2>12 DEF Digit
  <2>14. k + (j + 1) + 1 = next /\ j + 1 \in 0 .. n - 1 - k
    BY <2>1, <2>2
  <2>15. Digit(c, b, k) = f[k]
    BY <1>4, <2>1, <2>8
  <2> QED
    BY <2>13, <2>14, <2>15
<1>5. \A j \in 0 .. n - 1 - k : j \in P
  <2>1. PICK l \in Nat : l = n - 1 - k
    OBVIOUS
  <2>2. \A j \in 0 .. l : j \in P
    <3> HIDE DEF P
    <3> QED
      BY <1>3, <1>4, <2>1, UpTo
  <2> QED
    BY <2>1, <2>2
<1>6. n - 1 - k \in P /\ k + (n - 1 - k) + 1 = n
  BY <1>5
<1> QED
  BY <1>6

(* The first n digits of any integer make its remainder.                   *)
LEMMA ComposedOfDigits ==
  ASSUME NEW b \in Nat, b > 0, NEW n \in Nat, NEW x \in Int,
         NEW f, \A k \in 0 .. n - 1 : f[k] = Digit(x, b, k)
  PROVE  DigitsOf(f, b, n) /\ Composed(f, b, n) = x % Power(b, n)
<1>1. DigitsOf(f, b, n)
  <2> SUFFICES ASSUME NEW k \in 0 .. n - 1 PROVE f[k] \in 0 .. b - 1
    BY DEF DigitsOf
  <2>1. PICK p \in Nat : p = Power(b, k) /\ p > 0
    BY PowerPositive
  <2>2. (x \div p) % b \in 0 .. b - 1
    BY <2>1
  <2> QED
    BY <2>1, <2>2 DEF Digit
<1> DEFINE P == {m \in 0 .. n : Composed(f, b, m) = x % Power(b, m)}
<1>2. 0 \in P
  <2>1. Integral(f, 0)
    BY DEF Integral
  <2>2. Composed(f, b, 0) = 0 /\ Power(b, 0) = 1
    BY <2>1, ComposedSteps, PowerSteps
  <2> QED
    BY <2>2
<1>3. ASSUME NEW k \in 0 .. n - 1, k \in P PROVE k + 1 \in P
  <2>1. PICK next \in 1 .. n : next = k + 1 /\ next - 1 = k /\ next \in Nat /\ next > 0
    OBVIOUS
  <2>2. Integral(f, next)
    BY <1>1, <2>1, DigitsIntegral
  <2>3. PICK p \in Nat : p = Power(b, k) /\ p > 0
    BY PowerPositive
  <2>4. Power(b, next) = b * p
    BY <2>1, <2>3, PowerSteps
  <2>5. Composed(f, b, next) = Composed(f, b, k) + f[k] * p
    BY <2>1, <2>2, <2>3, ComposedSteps
  <2>6. f[k] = (x \div p) % b
    BY <2>3 DEF Digit
  <2>7. x % (b * p) = (x % p) + ((x \div p) % b) * p
    BY <2>3, DivSplit
  <2>8. Composed(f, b, k) = x % p
    BY <1>3, <2>3
  <2> QED
    BY <2>1, <2>4, <2>5, <2>6, <2>7, <2>8
<1>4. \A m \in 0 .. n : m \in P
  <2> HIDE DEF P
  <2> QED
    BY <1>2, <1>3, UpTo
<1> QED
  BY <1>1, <1>4

-----------------------------------------------------------------------------
(* endian.h.                                                               *)

Widths == {2, 4, 8}

(* Shifts that move the byte at k to n - 1 - k, and bytes so moved.        *)
Mirrors(shifts, n) == Len(shifts) = n /\ \A k \in 0 .. n - 1 : k + shifts[k + 1] = n - 1 - k

Mirrored(f, x, n) == \A k \in 0 .. n - 1 : f[k] = Byte(x, n - 1 - k)

(* The base is positive, and a byte is a digit of it.                      *)
LEMMA ByteIs ==
  ASSUME NEW x \in Int, NEW k \in Nat
  PROVE  Base \in Nat /\ Base > 0 /\ Byte(x, k) \in 0 .. Base - 1
<1>1. Base \in Nat /\ Base > 0
  BY NumberAssumption
<1>2. PICK p \in Nat : p = Power(Base, k) /\ p > 0
  BY <1>1, PowerPositive
<1>3. (x \div p) % Base \in 0 .. Base - 1
  BY <1>1, <1>2
<1> QED
  BY <1>1, <1>2, <1>3 DEF Byte, Digit

(* Moving every byte to the mirror position is the number with the digits  *)
(* reversed.                                                               *)
LEMMA MovedIs ==
  ASSUME NEW n \in Nat, NEW x \in Int, NEW shifts, Mirrors(shifts, n),
         NEW f, Mirrored(f, x, n)
  PROVE  Moved(x, shifts) = Composed(f, Base, n) /\ DigitsOf(f, Base, n)
<1> DEFINE g == [k \in 0 .. n - 1 |-> Byte(x, k) * Size(k + shifts[k + 1])]
<1>1. Base \in Nat /\ Base > 0
  BY NumberAssumption
<1>2. \A k \in 0 .. n - 1 : f[k] \in 0 .. Base - 1
  <2> SUFFICES ASSUME NEW k \in 0 .. n - 1 PROVE f[k] \in 0 .. Base - 1
    OBVIOUS
  <2>1. PICK i \in Nat : i = n - 1 - k
    OBVIOUS
  <2>2. f[k] = Byte(x, i)
    BY <2>1 DEF Mirrored
  <2> QED
    BY <2>1, <2>2, ByteIs
<1>3. DigitsOf(f, Base, n) /\ Integral(f, n)
  BY <1>2 DEF DigitsOf, Integral
<1>4. \A k \in 0 .. n - 1 :
        Terms(f, Base, n)[k] = f[k] * Power(Base, k) /\ Terms(f, Base, n)[k] \in Int
  BY <1>1, <1>3, TermsIntegral
<1>5. ASSUME NEW k \in 0 .. n - 1 PROVE g[k] = Terms(f, Base, n)[n - 1 - k]
  <2>1. PICK i \in 0 .. n - 1 : i = n - 1 - k /\ n - 1 - i = k
    OBVIOUS
  <2>2. g[k] = Byte(x, k) * Power(Base, i)
    BY <2>1 DEF Size, Mirrors
  <2>3. f[i] = Byte(x, k)
    BY <2>1 DEF Mirrored
  <2> QED
    BY <1>4, <2>1, <2>2, <2>3
<1>6. Moved(x, shifts) = SumUpTo(g, n)
  BY DEF Moved, Mirrors
<1>7. Composed(f, Base, n) = SumUpTo(Terms(f, Base, n), n)
  BY DEF Composed, Terms
<1> HIDE DEF g
<1>8. SumUpTo(Terms(f, Base, n), n) = SumUpTo(g, n)
  BY <1>4, <1>5, SumReversed
<1> QED
  BY <1>3, <1>6, <1>7, <1>8

(* The swap of each width is one.                                          *)
LEMMA SwapIs ==
  ASSUME NEW width \in Widths, NEW x \in Int, NEW f, Mirrored(f, x, width)
  PROVE  Swap(x, width) = Composed(f, Base, width) /\ DigitsOf(f, Base, width)
<1>1. CASE width = 2
  <2> DEFINE shifts == <<1, -1>>
  <2>1. Mirrors(shifts, width)
    BY <1>1 DEF Mirrors
  <2>2. Swap(x, width) = Moved(x, shifts)
    BY <1>1 DEF Swap, SwapU16
  <2> HIDE DEF shifts
  <2>3. width \in Nat
    BY <1>1
  <2> QED
    BY <2>1, <2>2, <2>3, MovedIs
<1>2. CASE width = 4
  <2> DEFINE shifts == <<3, 1, -1, -3>>
  <2>1. Mirrors(shifts, width)
    BY <1>2 DEF Mirrors
  <2>2. Swap(x, width) = Moved(x, shifts)
    BY <1>2 DEF Swap, SwapU32
  <2> HIDE DEF shifts
  <2>3. width \in Nat
    BY <1>2
  <2> QED
    BY <2>1, <2>2, <2>3, MovedIs
<1>3. CASE width = 8
  <2> DEFINE shifts == <<7, 5, 3, 1, -1, -3, -5, -7>>
  <2>1. Mirrors(shifts, width)
    BY <1>3 DEF Mirrors
  <2>2. Swap(x, width) = Moved(x, shifts)
    BY <1>3 DEF Swap, SwapU64
  <2> HIDE DEF shifts
  <2>3. width \in Nat
    BY <1>3
  <2> QED
    BY <2>1, <2>2, <2>3, MovedIs
<1> QED
  BY <1>1, <1>2, <1>3 DEF Widths

(* A swap reverses the bytes, and two give the number back.                *)
LEMMA SwapReverses ==
  ASSUME NEW width \in Widths, NEW x \in Int
  PROVE  /\ Swap(x, width) \in 0 .. Size(width) - 1
         /\ \A k \in 0 .. width - 1 : Byte(Swap(x, width), k) = Byte(x, width - 1 - k)
         /\ Swap(Swap(x, width), width) = x % Size(width)
<1>1. width \in Nat /\ Base \in Nat /\ Base > 0
  BY NumberAssumption DEF Widths
<1> DEFINE f == [k \in 0 .. width - 1 |-> Byte(x, width - 1 - k)]
           g == [k \in 0 .. width - 1 |-> Byte(x, k)]
<1>2. Mirrored(f, x, width)
  BY DEF Mirrored
<1>3. \A k \in 0 .. width - 1 : g[k] = Byte(x, k)
  OBVIOUS
<1> HIDE DEF f, g
<1>4. PICK y : y = Swap(x, width)
  OBVIOUS
<1>5. y = Composed(f, Base, width) /\ DigitsOf(f, Base, width)
  BY <1>2, <1>4, SwapIs
<1>6. y \in 0 .. Size(width) - 1
  BY <1>1, <1>5, ComposedBound DEF Size
<1>7. Size(width) \in Nat
  BY <1>1, PowerSteps DEF Size
<1>8. y \in Int
  BY <1>6, <1>7
<1>9. ASSUME NEW k \in 0 .. width - 1 PROVE Byte(y, k) = Byte(x, width - 1 - k)
  <2>1. Digit(Composed(f, Base, width), Base, k) = f[k]
    BY <1>1, <1>5, DigitOfComposed
  <2> QED
    BY <1>2, <1>5, <2>1 DEF Byte, Mirrored
<1>10. Mirrored(g, y, width)
  <2> SUFFICES ASSUME NEW k \in 0 .. width - 1 PROVE g[k] = Byte(y, width - 1 - k)
    BY DEF Mirrored
  <2>1. PICK i \in 0 .. width - 1 : i = width - 1 - k /\ width - 1 - i = k
    BY <1>1
  <2> QED
    BY <1>3, <1>9, <2>1
<1>11. Swap(y, width) = Composed(g, Base, width)
  BY <1>8, <1>10, SwapIs
<1>12. Composed(g, Base, width) = x % Size(width)
  <2>1. \A k \in 0 .. width - 1 : g[k] = Digit(x, Base, k)
    BY <1>3 DEF Byte
  <2> QED
    BY <1>1, <2>1, ComposedOfDigits DEF Size
<1> QED
  BY <1>4, <1>6, <1>9, <1>11, <1>12

(* The value of a memory, the least significant byte first.                *)
LEMMA LoadIs ==
  ASSUME NEW memory \in Seq(0 .. Base - 1),
         NEW f, \A k \in 0 .. Len(memory) - 1 : f[k] = memory[k + 1]
  PROVE  /\ Load(memory) = Composed(f, Base, Len(memory))
         /\ LeValue(memory) = Composed(f, Base, Len(memory))
         /\ DigitsOf(f, Base, Len(memory))
<1>1. PICK n \in Nat : n = Len(memory)
  BY LenProperties
<1>2. Base \in Nat
  BY NumberAssumption
<1>3. DigitsOf(f, Base, n)
  <2> SUFFICES ASSUME NEW k \in 0 .. n - 1 PROVE f[k] \in 0 .. Base - 1
    BY DEF DigitsOf
  <2>1. k + 1 \in 1 .. n
    OBVIOUS
  <2> QED
    BY <1>1, <2>1, ElementOfSeq
<1>4. LeValue(memory) = Composed(f, Base, n)
  <2>1. [k \in 0 .. n - 1 |-> memory[k + 1] * Power(Base, k)] = Terms(f, Base, n)
    BY <1>1 DEF Terms
  <2> QED
    BY <1>1, <2>1 DEF LeValue, Composed, Terms
<1>5. Load(memory) = Composed(f, Base, n)
  <2> DEFINE g == [k \in 0 .. n - 1 |-> memory[IF ByteOrder = "little" THEN k + 1 ELSE n - k]]
  <2>1. Load(memory) = Composed(g, Base, n)
    BY <1>1 DEF Load
  <2>2. Agree(f, g, n)
    BY <1>1 DEF Agree, ByteOrder
  <2>3. Integral(f, n)
    <3>1. n \in 0 .. n
      OBVIOUS
    <3> QED
      BY <1>2, <1>3, <3>1, DigitsIntegral
  <2> HIDE DEF g
  <2> QED
    BY <1>2, <2>1, <2>2, <2>3, ComposedEqual
<1> QED
  BY <1>1, <1>3, <1>4, <1>5

(* The value of a memory fits its width.                                   *)
LEMMA LoadFits ==
  ASSUME NEW memory \in Seq(0 .. Base - 1)
  PROVE  /\ Load(memory) = LeValue(memory)
         /\ Load(memory) \in 0 .. Size(Len(memory)) - 1
<1>1. PICK n \in Nat : n = Len(memory)
  BY LenProperties
<1> DEFINE f == [k \in 0 .. n - 1 |-> memory[k + 1]]
<1>2. \A k \in 0 .. Len(memory) - 1 : f[k] = memory[k + 1]
  BY <1>1
<1> HIDE DEF f
<1>3. Load(memory) = Composed(f, Base, n) /\ LeValue(memory) = Load(memory) /\ DigitsOf(f, Base, n)
  BY <1>1, <1>2, LoadIs
<1>4. Composed(f, Base, n) \in 0 .. Power(Base, n) - 1
  BY <1>3, ComposedBound, NumberAssumption
<1> QED
  BY <1>1, <1>3, <1>4 DEF Size

(* A store has the bytes of the value, and loads what the width keeps.     *)
LEMMA StoreIs ==
  ASSUME NEW x \in Int, NEW width \in Nat
  PROVE  /\ Store(x, width) \in Seq(0 .. Base - 1) /\ Len(Store(x, width)) = width
         /\ \A k \in 1 .. width : Store(x, width)[k] = Byte(x, k - 1)
         /\ Load(Store(x, width)) = x % Size(width)
<1>1. Base \in Nat /\ Base > 0
  BY NumberAssumption
<1> DEFINE memory == [k \in 1 .. width |-> Byte(x, k - 1)]
<1>2. Store(x, width) = memory
  BY DEF Store, ByteOrder
<1>3. memory \in [1 .. width -> 0 .. Base - 1]
  <2> SUFFICES ASSUME NEW k \in 1 .. width PROVE Byte(x, k - 1) \in 0 .. Base - 1
    OBVIOUS
  <2>1. PICK i \in Nat : i = k - 1
    OBVIOUS
  <2> QED
    BY <2>1, ByteIs
<1>4. \A k \in 1 .. width : memory[k] = Byte(x, k - 1)
  OBVIOUS
<1> HIDE DEF memory
<1>5. memory \in Seq(0 .. Base - 1) /\ Len(memory) = width
  BY <1>3, FunctionIsSeq
<1> DEFINE f == [k \in 0 .. width - 1 |-> Digit(x, Base, k)]
<1>6. \A k \in 0 .. Len(memory) - 1 : f[k] = memory[k + 1]
  BY <1>4, <1>5 DEF Byte
<1>7. \A k \in 0 .. width - 1 : f[k] = Digit(x, Base, k)
  OBVIOUS
<1> HIDE DEF f
<1>8. Load(memory) = Composed(f, Base, width)
  BY <1>5, <1>6, LoadIs
<1>9. Composed(f, Base, width) = x % Size(width)
  BY <1>1, <1>7, ComposedOfDigits DEF Size
<1> QED
  BY <1>2, <1>4, <1>5, <1>8, <1>9

(* The most significant byte first, the value is that of the swap.         *)
LEMMA BeValueIs ==
  ASSUME NEW width \in Widths, NEW memory \in Seq(0 .. Base - 1), Len(memory) = width
  PROVE  BeValue(memory) = Swap(Load(memory), width)
<1>1. width \in Nat /\ Base \in Nat /\ Base > 0
  BY NumberAssumption DEF Widths
<1> DEFINE backwards == [k \in 1 .. width |-> memory[width - k + 1]]
           f == [k \in 0 .. width - 1 |-> memory[k + 1]]
           g == [k \in 0 .. width - 1 |-> memory[width - k]]
<1>2. Reverse(memory) = backwards
  <2>1. Reverse(memory) = [k \in 1 .. Len(memory) |-> memory[(Len(memory) - k) + 1]]
    BY DEF Reverse
  <2> QED
    BY <2>1
<1>3. backwards \in [1 .. width -> 0 .. Base - 1]
  <2> SUFFICES ASSUME NEW k \in 1 .. width PROVE memory[width - k + 1] \in 0 .. Base - 1
    OBVIOUS
  <2>1. PICK i \in 1 .. width : i = width - k + 1
    BY <1>1
  <2>2. memory[i] \in 0 .. Base - 1
    BY <2>1, ElementOfSeq
  <2> QED
    BY <2>1, <2>2
<1>4. \A k \in 0 .. width - 1 : g[k] = backwards[k + 1]
  <2> SUFFICES ASSUME NEW k \in 0 .. width - 1 PROVE g[k] = backwards[k + 1]
    OBVIOUS
  <2>1. k + 1 \in 1 .. width /\ width - (k + 1) + 1 = width - k
    BY <1>1
  <2> QED
    BY <2>1
<1>5. \A k \in 0 .. width - 1 : f[k] = memory[k + 1]
  OBVIOUS
<1>6. \A k \in 0 .. width - 1 : g[k] = f[width - 1 - k]
  <2> SUFFICES ASSUME NEW k \in 0 .. width - 1 PROVE g[k] = f[width - 1 - k]
    OBVIOUS
  <2>1. width - 1 - k \in 0 .. width - 1 /\ (width - 1 - k) + 1 = width - k
    BY <1>1
  <2> QED
    BY <2>1
<1> HIDE DEF backwards, f, g
<1>7. backwards \in Seq(0 .. Base - 1) /\ Len(backwards) = width
  BY <1>1, <1>3, FunctionIsSeq
<1>8. LeValue(backwards) = Composed(g, Base, width)
  BY <1>4, <1>7, LoadIs
<1>9. Load(memory) = Composed(f, Base, width) /\ DigitsOf(f, Base, width)
  BY <1>5, LoadIs
<1>10. PICK x : x = Load(memory)
  OBVIOUS
<1>11. x \in Int
  <2>1. Integral(f, width)
    BY <1>1, <1>9, DigitsIntegral
  <2> QED
    BY <1>1, <1>9, <1>10, <2>1, ComposedSteps
<1>12. Mirrored(g, x, width)
  <2> SUFFICES ASSUME NEW k \in 0 .. width - 1 PROVE g[k] = Byte(x, width - 1 - k)
    BY DEF Mirrored
  <2>1. PICK i \in 0 .. width - 1 : i = width - 1 - k
    BY <1>1
  <2>2. Digit(Composed(f, Base, width), Base, i) = f[i]
    BY <1>1, <1>9, DigitOfComposed
  <2> QED
    BY <1>6, <1>9, <1>10, <2>1, <2>2 DEF Byte
<1>13. Swap(x, width) = Composed(g, Base, width)
  BY <1>11, <1>12, SwapIs
<1> QED
  BY <1>2, <1>8, <1>10, <1>13 DEF BeValue

(* Signed and unsigned values of a width are the same bits.                *)
LEMMA SignedIs ==
  ASSUME NEW width \in Nat, NEW x \in 0 .. Size(width) - 1
  PROVE  ToSigned(x, width) \in Int /\ ToUnsigned(ToSigned(x, width), width) = x
<1>1. PICK m \in Nat : m = Size(width) /\ m > 0
  BY NumberAssumption, PowerPositive DEF Size
<1>2. CASE 2 * x < m
  <2>1. ToSigned(x, width) = x /\ x % m = x
    BY <1>1, <1>2 DEF ToSigned
  <2> QED
    BY <1>1, <2>1 DEF ToUnsigned
<1>3. CASE ~(2 * x < m)
  <2>1. ToSigned(x, width) = x - m
    BY <1>1, <1>3 DEF ToSigned
  <2>2. m * (-1) + x = x - m /\ (m * (-1) + x) % m = x
    BY <1>1, DivisionIs
  <2> QED
    BY <1>1, <2>1, <2>2 DEF ToUnsigned
<1> QED
  BY <1>2, <1>3

(* The number of values of a width.                                        *)
LEMMA SizeIs ==
  ASSUME NEW width \in Widths
  PROVE  width \in Nat /\ Size(width) \in Nat /\ Size(width) > 0
<1>1. width \in Nat
  BY DEF Widths
<1> QED
  BY <1>1, NumberAssumption, PowerPositive DEF Size

(* The conversions of unsigned values, in and out of memory.               *)
LEMMA UnsignedOrder ==
  ASSUME NEW width \in Widths, NEW memory \in Seq(0 .. Base - 1), Len(memory) = width
  PROVE  /\ FromLeUP(memory).returned = LeValue(memory)
         /\ FromBeUP(memory).returned = BeValue(memory)
         /\ LeValue(Store(ToLeU(Load(memory), width), width)) = Load(memory)
         /\ BeValue(Store(ToBeU(Load(memory), width), width)) = Load(memory)
<1>1. PICK m \in Nat : m = Size(width) /\ m > 0 /\ width \in Nat
  BY SizeIs
<1>2. PICK v \in 0 .. m - 1 : v = Load(memory) /\ v = LeValue(memory)
  BY <1>1, LoadFits
<1>3. PICK s \in 0 .. m - 1 : s = Swap(v, width) /\ Swap(s, width) = v
  <2>1. v % m = v /\ v \in Int
    BY <1>1
  <2>2. Swap(v, width) \in 0 .. m - 1 /\ Swap(Swap(v, width), width) = v
    BY <1>1, <2>1, SwapReverses
  <2> QED
    BY <2>2
<1>4. FromLeUP(memory).returned = LeValue(memory)
  BY <1>2 DEF FromLeUP, InPlace, FromLeU, ByteOrder
<1>5. FromBeUP(memory).returned = BeValue(memory)
  <2>1. BeValue(memory) = Swap(Load(memory), width)
    BY BeValueIs
  <2> QED
    BY <2>1 DEF FromBeUP, InPlace, FromBeU, ByteOrder
<1>6. LeValue(Store(ToLeU(v, width), width)) = v
  <2>1. ToLeU(v, width) = v
    BY DEF ToLeU, FromLeU, ByteOrder
  <2>2. PICK stored \in Seq(0 .. Base - 1) : stored = Store(v, width) /\ Load(stored) = v % m
    BY <1>1, StoreIs
  <2>3. LeValue(stored) = v
    BY <2>2, LoadFits
  <2> QED
    BY <2>1, <2>2, <2>3
<1>7. BeValue(Store(ToBeU(v, width), width)) = v
  <2>1. ToBeU(v, width) = s
    BY <1>3 DEF ToBeU, FromBeU, ByteOrder
  <2>2. PICK stored \in Seq(0 .. Base - 1) :
          stored = Store(s, width) /\ Len(stored) = width /\ Load(stored) = s % m
    BY <1>1, StoreIs
  <2>3. BeValue(stored) = Swap(s, width)
    <3>1. Load(stored) = s
      BY <2>2
    <3> QED
      BY <2>2, <3>1, BeValueIs
  <2> QED
    BY <1>3, <2>1, <2>2, <2>3
<1> QED
  BY <1>2, <1>4, <1>5, <1>6, <1>7

(* A signed value survives the way through either order, and stays in      *)
(* memory as it is returned.                                               *)
LEMMA SignedOrder ==
  ASSUME NEW width \in Widths, NEW m, m = Size(width), NEW v \in 0 .. m - 1
  PROVE  LET signed == ToSigned(v, width)
             be     == FromBeP(Store(ToBe(signed, width), width))
             le     == FromLeP(Store(ToLe(signed, width), width))
         IN  /\ be.returned = signed /\ Load(be.memory) = v
             /\ le.returned = signed /\ Load(le.memory) = v
<1>1. m \in Nat /\ m > 0 /\ width \in Nat
  BY SizeIs
<1>2. PICK s \in 0 .. m - 1 : s = Swap(v, width) /\ Swap(s, width) = v
  <2>1. v % m = v /\ v \in Int
    BY <1>1
  <2>2. Swap(v, width) \in 0 .. m - 1 /\ Swap(Swap(v, width), width) = v
    BY <1>1, <2>1, SwapReverses
  <2> QED
    BY <2>2
<1>3. \A x \in 0 .. m - 1 :
        /\ ToSigned(x, width) \in Int
        /\ ToSigned(x, width) % m = x
        /\ ToUnsigned(ToSigned(x, width), width) = x
        /\ ToUnsigned(x, width) = x
  <2> SUFFICES ASSUME NEW x \in 0 .. m - 1
               PROVE  /\ ToSigned(x, width) \in Int
                      /\ ToSigned(x, width) % m = x
                      /\ ToUnsigned(ToSigned(x, width), width) = x
                      /\ ToUnsigned(x, width) = x
    OBVIOUS
  <2>1. ToSigned(x, width) \in Int /\ ToUnsigned(ToSigned(x, width), width) = x
    BY <1>1, SignedIs
  <2>2. x % m = x
    BY <1>1
  <2> QED
    BY <2>1, <2>2 DEF ToUnsigned
<1> DEFINE signed == ToSigned(v, width)
<1>4. ASSUME NEW x \in 0 .. m - 1, NEW stored, stored = Store(ToSigned(x, width), width)
      PROVE  Load(stored) = x /\ Len(stored) = width
  <2>1. PICK y \in Int : y = ToSigned(x, width) /\ y % m = x
    BY <1>3
  <2> QED
    BY <1>1, <1>4, <2>1, StoreIs
<1>5. ToBe(signed, width) = ToSigned(s, width) /\ FromBe(s, width) = signed
  <2>1. ToUnsigned(signed, width) = v /\ ToUnsigned(s, width) = s
    BY <1>3
  <2> HIDE DEF signed
  <2> QED
    BY <1>2, <2>1 DEF ToBe, FromBe, FromBeU, ByteOrder, signed
<1>6. ToLe(signed, width) = signed /\ FromLe(v, width) = signed
  <2>1. ToUnsigned(signed, width) = v /\ ToUnsigned(v, width) = v
    BY <1>3
  <2> HIDE DEF signed
  <2> QED
    BY <2>1 DEF ToLe, FromLe, FromLeU, ByteOrder, signed
<1>7. Load(Store(signed, width)) = v
  BY <1>4
<1>8. PICK be : be = FromBeP(Store(ToBe(signed, width), width))
  OBVIOUS
<1>9. be.returned = signed /\ Load(be.memory) = v
  <2>1. PICK stored : stored = Store(ToSigned(s, width), width)
    OBVIOUS
  <2>2. Load(stored) = s /\ Len(stored) = width
    BY <1>4, <2>1
  <2>3. be = InPlace(FromBe(Load(stored), Len(stored)), stored)
    BY <1>5, <1>8, <2>1 DEF FromBeP
  <2>4. be = [returned |-> signed, memory |-> Store(signed, width)]
    <3> HIDE DEF signed
    <3> QED
      BY <1>5, <2>2, <2>3 DEF InPlace
  <2> HIDE DEF signed
  <2> QED
    BY <1>7, <2>4
<1>10. PICK le : le = FromLeP(Store(ToLe(signed, width), width))
  OBVIOUS
<1>11. le.returned = signed /\ Load(le.memory) = v
  <2>1. PICK stored : stored = Store(signed, width)
    OBVIOUS
  <2>2. Load(stored) = v /\ Len(stored) = width
    BY <1>4, <2>1
  <2>3. le = InPlace(FromLe(Load(stored), Len(stored)), stored)
    BY <1>6, <1>10, <2>1 DEF FromLeP
  <2>4. le = [returned |-> signed, memory |-> Store(signed, width)]
    <3> HIDE DEF signed
    <3> QED
      BY <1>6, <2>2, <2>3 DEF InPlace
  <2> HIDE DEF signed
  <2> QED
    BY <1>7, <2>4
<1> QED
  BY <1>8, <1>9, <1>10, <1>11

(* The input as a memory of any width.                                     *)
LEMMA FilledIs ==
  ASSUME InputInv, NEW width \in Nat
  PROVE  Filled(width) \in Seq(0 .. Base - 1) /\ Len(Filled(width)) = width
<1>1. Base \in Nat /\ Base > 0
  BY NumberAssumption
<1>2. PICK n \in Nat : n = Len(input) /\ DOMAIN input = 1 .. n
  BY LenProperties DEF InputInv
<1>3. ASSUME NEW k \in 1 .. n PROVE Memory[k] \in 0 .. Base - 1
  <2>1. input[k] \in Alphabet
    BY <1>2, ElementOfSeq DEF InputInv
  <2>2. Octets[input[k]] \in 0 .. Base - 1
    BY <2>1, CharacterAssumption
  <2> QED
    BY <1>2, <2>2 DEF Memory
<1>4. \A k \in 1 .. width : k % Base \in 0 .. Base - 1
  BY <1>1
<1>5. Filled(width) \in [1 .. width -> 0 .. Base - 1]
  BY <1>2, <1>3, <1>4 DEF Filled
<1> QED
  BY <1>5, FunctionIsSeq

(* The conversions of byte order, for every content of memory of the three *)
(* widths and any base.                                                    *)
THEOREM WireOrderHolds == Spec => []WireOrder
<1>1. InputInv => WireOrder
  <2> SUFFICES ASSUME InputInv, NEW width \in Widths
               PROVE  LET memory == Filled(width)
                          value  == Load(memory)
                          signed == ToSigned(value, width)
                          be     == FromBeP(Store(ToBe(signed, width), width))
                          le     == FromLeP(Store(ToLe(signed, width), width))
                      IN  /\ FromLeUP(memory).returned = LeValue(memory)
                          /\ FromBeUP(memory).returned = BeValue(memory)
                          /\ LeValue(Store(ToLeU(value, width), width)) = value
                          /\ BeValue(Store(ToBeU(value, width), width)) = value
                          /\ \A p \in {be, le} : p.returned = signed /\ Load(p.memory) = value
    BY DEF WireOrder, Widths
  <2>1. PICK memory \in Seq(0 .. Base - 1) : memory = Filled(width) /\ Len(memory) = width
    BY FilledIs DEF Widths
  <2>2. PICK m : m = Size(width)
    OBVIOUS
  <2>3. PICK value \in 0 .. m - 1 : value = Load(memory)
    BY <2>1, <2>2, LoadFits
  <2>4. /\ FromLeUP(memory).returned = LeValue(memory)
        /\ FromBeUP(memory).returned = BeValue(memory)
        /\ LeValue(Store(ToLeU(value, width), width)) = value
        /\ BeValue(Store(ToBeU(value, width), width)) = value
    BY <2>1, <2>3, UnsignedOrder
  <2> DEFINE signed == ToSigned(value, width)
             be     == FromBeP(Store(ToBe(signed, width), width))
             le     == FromLeP(Store(ToLe(signed, width), width))
  <2>5. /\ be.returned = signed /\ Load(be.memory) = value
        /\ le.returned = signed /\ Load(le.memory) = value
    BY <2>2, SignedOrder
  <2>6. \A p \in {be, le} : p.returned = signed /\ Load(p.memory) = value
    <3> HIDE DEF be, le, signed
    <3> QED
      BY <2>5
  <2> QED
    BY <2>1, <2>3, <2>4, <2>6
<1> QED
  BY <1>1, InputIsString, PTL

-----------------------------------------------------------------------------
(* math.h: the operators on bits.                                          *)

HighDigits(f, x, b, e, n) == \A k \in e .. n - 1 : f[k] = Digit(x, b, k)

(* A number whose digits from e on are those of x.                         *)
LEMMA HighPart ==
  ASSUME NEW b \in Nat, b > 0, NEW n \in Nat, NEW e \in 0 .. n, NEW x \in Int,
         NEW f, DigitsOf(f, b, n), HighDigits(f, x, b, e, n)
  PROVE  Composed(f, b, n) = Composed(f, b, e) + (x % Power(b, n)) - (x % Power(b, e))
<1> DEFINE low == Composed(f, b, e)
           P == {j \in 0 .. n - e :
                   Composed(f, b, e + j) = low + (x % Power(b, e + j)) - (x % Power(b, e))}
<1>1. low \in Int
  <2>1. Integral(f, e)
    BY DigitsIntegral
  <2> QED
    BY <2>1, ComposedSteps
<1>2. \A k \in Nat : Power(b, k) \in Nat /\ Power(b, k) > 0
  BY PowerPositive
<1>3. 0 \in P
  <2>1. PICK p \in Nat : p = Power(b, e) /\ p > 0 /\ e + 0 = e
    BY <1>2
  <2>2. x % p \in Int
    BY <2>1
  <2> QED
    BY <1>1, <2>1, <2>2
<1> HIDE DEF low
<1>4. ASSUME NEW j \in 0 .. (n - e) - 1, j \in P PROVE j + 1 \in P
  <2>1. PICK k \in 0 .. n - 1 : k = e + j /\ k \in e .. n - 1
    OBVIOUS
  <2>2. PICK next \in 1 .. n : next = k + 1 /\ next - 1 = k /\ next \in Nat /\ next > 0
    OBVIOUS
  <2>3. Integral(f, next)
    BY <2>2, DigitsIntegral
  <2>4. PICK p \in Nat : p = Power(b, k) /\ p > 0
    BY <1>2
  <2>5. Power(b, next) = b * p
    BY <2>2, <2>4, PowerSteps
  <2>6. Composed(f, b, next) = Composed(f, b, k) + f[k] * p
    BY <2>2, <2>3, <2>4, ComposedSteps
  <2>7. f[k] = (x \div p) % b
    BY <2>1, <2>4 DEF HighDigits, Digit
  <2>8. PICK d \in Nat : d = f[k] * p
    <3>1. (x \div p) % b \in Nat
      BY <2>4
    <3> QED
      BY <2>4, <2>7, <3>1
  <2>9. x % (b * p) = (x % p) + d
    <3>1. x % (b * p) = (x % p) + ((x \div p) % b) * p
      BY <2>4, DivSplit
    <3>2. PICK g : g = (x \div p) % b
      OBVIOUS
    <3> QED
      BY <2>7, <2>8, <3>1, <3>2
  <2>10. Composed(f, b, k) = low + (x % p) - (x % Power(b, e))
    BY <1>4, <2>1, <2>4
  <2>11. PICK r \in Int, s \in Int : r = x % p /\ s = x % Power(b, e)
    BY <1>2, <2>4
  <2>12. Composed(f, b, next) = low + (x % Power(b, next)) - (x % Power(b, e))
    BY <1>1, <2>5, <2>6, <2>8, <2>9, <2>10, <2>11
  <2>13. e + (j + 1) = next /\ j + 1 \in 0 .. n - e
    BY <2>1, <2>2
  <2> QED
    BY <2>12, <2>13
<1>5. \A j \in 0 .. n - e : j \in P
  <2>1. PICK l \in Nat : l = n - e
    OBVIOUS
  <2>2. \A j \in 0 .. l : j \in P
    <3> HIDE DEF P
    <3> QED
      BY <1>3, <1>4, <2>1, UpTo
  <2> QED
    BY <2>1, <2>2
<1>6. n - e \in P /\ e + (n - e) = n
  BY <1>5
<1> QED
  BY <1>6 DEF low

(* The bits of a word.                                                     *)
Bit(bits) == [k \in 0 .. XBits - 1 |-> IF k \in bits THEN 1 ELSE 0]

(* A word has the bits it was made of.                                     *)
LEMMA BitsOfWord ==
  ASSUME NEW bits \in SUBSET (0 .. XBits - 1)
  PROVE  /\ Word(bits) = Composed(Bit(bits), 2, XBits)
         /\ DigitsOf(Bit(bits), 2, XBits)
         /\ BitsOf(Word(bits)) = bits
<1>1. XBits \in Nat
  BY NumberAssumption
<1>2. Word(bits) = Composed(Bit(bits), 2, XBits)
  BY DEF Word, Bit
<1>3. DigitsOf(Bit(bits), 2, XBits)
  BY DEF DigitsOf, Bit
<1>4. ASSUME NEW k \in 0 .. XBits - 1 PROVE Digit(Word(bits), 2, k) = 1 <=> k \in bits
  <2>1. Digit(Word(bits), 2, k) = Bit(bits)[k]
    BY <1>1, <1>2, <1>3, DigitOfComposed
  <2> QED
    BY <2>1 DEF Bit
<1>5. BitsOf(Word(bits)) = bits
  BY <1>4 DEF BitsOf
<1> QED
  BY <1>2, <1>3, <1>5

(* A binary digit is 0 or 1.                                               *)
LEMMA BinaryDigit ==
  ASSUME NEW x \in Int, NEW k \in Nat
  PROVE  Digit(x, 2, k) \in {0, 1}
<1>1. PICK p \in Nat : p = Power(2, k) /\ p > 0
  BY PowerPositive
<1>2. (x \div p) % 2 \in 0 .. 1
  BY <1>1
<1> QED
  BY <1>1, <1>2 DEF Digit

(* The bits of a mask 2^e - 1 are the first e.                             *)
LEMMA MaskBits ==
  ASSUME NEW e \in 0 .. XBits, NEW y, y = Power(2, e)
  PROVE  BitsOf(y - 1) = 0 .. e - 1
<1>1. XBits \in Nat /\ e \in Nat
  BY NumberAssumption
<1>2. y \in Nat /\ y > 0
  BY <1>1, PowerPositive
<1>3. ASSUME NEW k \in 0 .. XBits - 1 PROVE Digit(y - 1, 2, k) = IF k < e THEN 1 ELSE 0
  <2>1. PICK p \in Nat : p = Power(2, k) /\ p > 0
    BY PowerPositive
  <2>2. CASE k < e
    <3>1. PICK j \in Nat, i \in Nat : e = k + i /\ i = j + 1
      <4>1. e - k - 1 \in Nat /\ e - k = (e - k - 1) + 1 /\ e - k \in Nat /\ e = k + (e - k)
        BY <1>1, <2>2
      <4> QED
        BY <4>1
    <3>2. PICK q \in Nat : q = Power(2, j) /\ Power(2, i) = 2 * q
      BY <3>1, PowerSteps
    <3>3. y = p * (2 * q)
      <4>1. Power(2, k + i) = Power(2, k) * Power(2, i)
        BY PowerSplit
      <4> QED
        BY <2>1, <3>1, <3>2, <4>1
    <3>4. PICK d \in Int : d = 2 * q - 1 /\ p * d = p * (2 * q) - p
      <4>1. p * (2 * q - 1) = p * (2 * q) - p
        BY <2>1
      <4> QED
        BY <4>1
    <3>5. (p * d + (p - 1)) \div p = d
      BY <2>1, DivisionIs
    <3>6. y - 1 = p * d + (p - 1)
      BY <1>2, <2>1, <3>3, <3>4
    <3>7. d % 2 = 1
      BY <3>4
    <3> QED
      BY <2>1, <2>2, <3>5, <3>6, <3>7 DEF Digit
  <2>3. CASE ~(k < e)
    <3>1. PICK i \in Nat : k = e + i
      <4>1. k - e \in Nat /\ k = e + (k - e)
        BY <1>1, <2>3
      <4> QED
        BY <4>1
    <3>2. PICK q \in Nat : q = Power(2, i) /\ q > 0
      BY PowerPositive
    <3>3. p = y * q
      BY <1>1, <2>1, <3>1, <3>2, PowerSplit
    <3>4. 1 * y <= q * y
      BY <1>2, <3>2, TimesMonotonic
    <3>5. y - 1 \in 0 .. p - 1
      BY <1>2, <2>1, <3>3, <3>4
    <3>6. (y - 1) \div p = 0
      BY <2>1, <3>5
    <3> QED
      BY <2>1, <2>3, <3>6 DEF Digit
  <2> QED
    BY <2>2, <2>3
<1> QED
  BY <1>1, <1>3 DEF BitsOf

(* A word whose bits from e on are those of x.                             *)
LEMMA HighBits ==
  ASSUME NEW e \in 0 .. XBits, NEW x \in 0 .. Power(2, XBits) - 1,
         NEW bits \in SUBSET (0 .. XBits - 1),
         \A k \in e .. XBits - 1 : k \in bits <=> k \in BitsOf(x)
  PROVE  Word(bits) = Composed(Bit(bits), 2, e) + x - (x % Power(2, e))
<1>1. XBits \in Nat /\ Power(2, XBits) \in Nat /\ x \in Int
  <2>1. XBits \in Nat
    BY NumberAssumption
  <2>2. Power(2, XBits) \in Nat
    BY <2>1, PowerSteps
  <2> QED
    BY <2>1, <2>2
<1>2. ASSUME NEW k \in e .. XBits - 1 PROVE Bit(bits)[k] = Digit(x, 2, k)
  <2>1. k \in 0 .. XBits - 1 /\ k \in Nat
    BY <1>1
  <2>2. k \in bits <=> Digit(x, 2, k) = 1
    BY <2>1 DEF BitsOf
  <2>3. Digit(x, 2, k) \in {0, 1}
    BY <1>1, <2>1, BinaryDigit
  <2> QED
    BY <2>1, <2>2, <2>3 DEF Bit
<1>3. HighDigits(Bit(bits), x, 2, e, XBits)
  BY <1>2 DEF HighDigits
<1>4. Word(bits) = Composed(Bit(bits), 2, XBits) /\ DigitsOf(Bit(bits), 2, XBits)
  BY BitsOfWord
<1>5. Composed(Bit(bits), 2, XBits)
      = Composed(Bit(bits), 2, e) + (x % Power(2, XBits)) - (x % Power(2, e))
  BY <1>1, <1>3, <1>4, HighPart
<1>6. x % Power(2, XBits) = x
  BY <1>1
<1> QED
  BY <1>4, <1>5, <1>6

(* The disjunction with a mask sets the last e bits.                       *)
LEMMA OrMask ==
  ASSUME NEW e \in 0 .. XBits, NEW y, y = Power(2, e), NEW x \in 0 .. Power(2, XBits) - 1
  PROVE  Or(x, y - 1) = x - (x % y) + (y - 1)
<1>1. XBits \in Nat /\ e \in Nat
  BY NumberAssumption
<1>2. y \in Nat /\ y > 0
  BY <1>1, PowerPositive
<1> DEFINE bits == BitsOf(x) \cup BitsOf(y - 1)
<1>3. BitsOf(y - 1) = 0 .. e - 1
  BY MaskBits
<1>4. bits \in SUBSET (0 .. XBits - 1) /\ \A k \in e .. XBits - 1 : k \in bits <=> k \in BitsOf(x)
  BY <1>1, <1>3 DEF BitsOf
<1>5. \A k \in 0 .. e - 1 : Bit(bits)[k] = Digit(y - 1, 2, k)
  <2> SUFFICES ASSUME NEW k \in 0 .. e - 1 PROVE Bit(bits)[k] = Digit(y - 1, 2, k)
    OBVIOUS
  <2>1. k \in BitsOf(y - 1) /\ k \in 0 .. XBits - 1
    BY <1>1, <1>3
  <2>2. Digit(y - 1, 2, k) = 1
    BY <2>1 DEF BitsOf
  <2> QED
    BY <2>1, <2>2 DEF Bit
<1> HIDE DEF bits
<1>6. Composed(Bit(bits), 2, e) = (y - 1) % Power(2, e)
  <2>1. PICK z \in Int : z = y - 1
    BY <1>2
  <2>2. \A k \in 0 .. e - 1 : Bit(bits)[k] = Digit(z, 2, k)
    BY <1>5, <2>1
  <2>3. Composed(Bit(bits), 2, e) = z % Power(2, e)
    BY <1>1, <2>2, ComposedOfDigits
  <2> QED
    BY <2>1, <2>3
<1>7. (y - 1) % y = y - 1
  BY <1>2
<1>8. Word(bits) = Composed(Bit(bits), 2, e) + x - (x % y)
  BY <1>4, HighBits
<1>9. x \in Int /\ x % y \in Int
  <2>1. Power(2, XBits) \in Nat
    BY <1>1, PowerSteps
  <2> QED
    BY <1>2, <2>1
<1> QED
  BY <1>2, <1>6, <1>7, <1>8, <1>9 DEF Or, bits

(* The conjunction with the complement of a mask clears them.              *)
LEMMA AndNotMask ==
  ASSUME NEW e \in 0 .. XBits, NEW y, y = Power(2, e), NEW x \in 0 .. Power(2, XBits) - 1
  PROVE  And(x, Not(y - 1)) = x - (x % y)
<1>1. XBits \in Nat /\ e \in Nat
  BY NumberAssumption
<1>2. y \in Nat /\ y > 0
  BY <1>1, PowerPositive
<1> DEFINE high == (0 .. XBits - 1) \ (0 .. e - 1)
           bits == BitsOf(x) \cap high
<1>3. BitsOf(Not(y - 1)) = high
  <2>1. Not(y - 1) = Word(high)
    BY MaskBits DEF Not
  <2>2. high \in SUBSET (0 .. XBits - 1)
    OBVIOUS
  <2> HIDE DEF high
  <2> QED
    BY <2>1, <2>2, BitsOfWord
<1>4. bits \in SUBSET (0 .. XBits - 1) /\ \A k \in e .. XBits - 1 : k \in bits <=> k \in BitsOf(x)
  BY <1>1 DEF BitsOf
<1>5. \A k \in 0 .. e - 1 : Bit(bits)[k] = Digit(0, 2, k)
  <2> SUFFICES ASSUME NEW k \in 0 .. e - 1 PROVE Bit(bits)[k] = Digit(0, 2, k)
    OBVIOUS
  <2>1. PICK p \in Nat : p = Power(2, k) /\ p > 0
    BY PowerPositive
  <2>2. (0 \div p) % 2 = 0
    BY <2>1
  <2>3. k \in 0 .. XBits - 1 /\ k \notin bits
    BY <1>1
  <2> QED
    BY <2>1, <2>2, <2>3 DEF Bit, Digit
<1>6. And(x, Not(y - 1)) = Word(bits)
  BY <1>3 DEF And
<1> HIDE DEF bits
<1>7. Composed(Bit(bits), 2, e) = 0 % Power(2, e)
  BY <1>1, <1>5, ComposedOfDigits
<1>8. 0 % y = 0
  BY <1>2
<1>9. Word(bits) = Composed(Bit(bits), 2, e) + x - (x % y)
  BY <1>4, HighBits
<1>10. x \in Int /\ x % y \in Int
  <2>1. Power(2, XBits) \in Nat
    BY <1>1, PowerSteps
  <2> QED
    BY <1>2, <2>1
<1> QED
  BY <1>6, <1>7, <1>8, <1>9, <1>10

-----------------------------------------------------------------------------
(* math.h: rounding.                                                       *)

(* The least multiple of y that is not below x.                            *)
Above(x, y) == (x + y - 1) - ((x + y - 1) % y)

(* It is a multiple, and the only one among the y numbers from x on.       *)
LEMMA AboveIs ==
  ASSUME NEW x \in Int, NEW y \in Nat, y > 0
  PROVE  /\ Above(x, y) \in x .. x + y - 1 /\ Above(x, y) % y = 0
         /\ (CHOOSE v \in x .. x + y - 1 : v % y = 0) = Above(x, y)
<1>1. PICK q \in Int, r \in 0 .. y - 1 : x + y - 1 = y * q + r /\ r = (x + y - 1) % y
  BY SMTT(30)
<1>2. Above(x, y) = y * q /\ y * q \in Int
  BY <1>1 DEF Above
<1>3. y * q \in x .. x + y - 1 /\ (y * q + 0) % y = 0
  BY <1>1, <1>2, DivisionIs
<1>4. ASSUME NEW v \in x .. x + y - 1, v % y = 0 PROVE v = y * q
  <2>1. PICK d \in Int : d = v \div y /\ v = y * d
    BY <1>4
  <2>2. PICK i \in 0 .. y - 1, j \in 0 .. y - 1 : v = x + i /\ y * q = x + j
    <3>1. v - x \in 0 .. y - 1 /\ y * q - x \in 0 .. y - 1
      BY <1>2, <1>3
    <3>2. v = x + (v - x) /\ y * q = x + (y * q - x)
      BY <1>2
    <3> QED
      BY <3>1, <3>2
  <2>3. y * d - y * q \in 0 - (y - 1) .. y - 1
    BY <1>2, <2>1, <2>2
  <2>4. y * d - y * q = y * (d - q)
    BY <2>1
  <2>5. d - q = 0
    <3>1. CASE d - q >= 1
      <4>1. PICK c \in Nat : c = d - q /\ 1 <= c
        BY <3>1
      <4>2. 1 * y <= c * y
        BY <4>1, TimesMonotonic
      <4> QED
        BY <2>3, <2>4, <4>1, <4>2
    <3>2. CASE d - q <= -1
      <4>1. PICK c \in Nat : c = q - d /\ 1 <= c
        BY <3>2
      <4>2. 1 * y <= c * y
        BY <4>1, TimesMonotonic
      <4>3. y * (d - q) = -(c * y)
        BY <4>1
      <4> QED
        BY <2>3, <2>4, <4>1, <4>2, <4>3
    <3> QED
      BY <3>1, <3>2
  <2> QED
    BY <2>1, <2>5
<1>5. \E v \in x .. x + y - 1 : v % y = 0
  BY <1>2, <1>3
<1> DEFINE w == CHOOSE v \in x .. x + y - 1 : v % y = 0
<1>6. w \in x .. x + y - 1 /\ w % y = 0
  BY <1>5
<1> HIDE DEF w
<1>7. w = y * q
  BY <1>4, <1>6
<1> QED
  BY <1>2, <1>3, <1>7 DEF w

(* The number of values of the type of X is a multiple of a power of two   *)
(* that the type has.                                                      *)
LEMMA PowerDivides ==
  ASSUME NEW e \in 0 .. XBits, NEW y, y = Power(2, e)
  PROVE  /\ y \in Nat /\ y > 0 /\ Power(2, XBits) \in Nat /\ Power(2, XBits) > 0
         /\ \E q \in Nat : Power(2, XBits) = y * q
<1>1. XBits \in Nat /\ e \in Nat
  BY NumberAssumption
<1>2. PICK i \in Nat : XBits = e + i
  <2>1. XBits - e \in Nat /\ XBits = e + (XBits - e)
    BY <1>1
  <2> QED
    BY <2>1
<1>3. Power(2, XBits) = y * Power(2, i) /\ Power(2, i) \in Nat
  <2>1. Power(2, e + i) = Power(2, e) * Power(2, i)
    BY <1>1, PowerSplit
  <2>2. Power(2, i) \in Nat
    BY PowerSteps
  <2> QED
    BY <1>2, <2>1, <2>2
<1> QED
  BY <1>1, <1>3, PowerPositive

(* The mask of XCP_ROUND_UP2 and XCP_ROUND_DOWN2, for every X of its type  *)
(* and every power of two up to its width.                                 *)
THEOREM RoundingByMask ==
  ASSUME NEW e \in 0 .. XBits, NEW y, y = Power(2, e), NEW x \in 0 .. Power(2, XBits) - 1
  PROVE  /\ RoundUp2(x, y) = Above(x, y) % Power(2, XBits)
         /\ RoundDown2(x, y) = x - (x % y)
<1>1. PICK m \in Nat, q \in Nat : m = Power(2, XBits) /\ m > 0 /\ m = y * q
  BY PowerDivides
<1>2. y \in Nat /\ y > 0
  BY PowerDivides
<1>3. RoundDown2(x, y) = x - (x % y)
  BY AndNotMask DEF RoundDown2, RoundMask2
<1>4. \A z \in 0 .. m - 1 : Or(z, y - 1) = z - (z % y) + (y - 1)
  BY <1>1, OrMask
<1>5. RoundUp2(x, y) = (Or((x - 1) % m, y - 1) + 1) % m
  BY <1>1 DEF RoundUp2, RoundMask2, Wrapped
<1>6. CASE x = 0
  <2>1. (x - 1) % m = m - 1
    <3>1. PICK c \in Int, r \in 0 .. m - 1 : c = -1 /\ r = m - 1
      BY <1>1
    <3>2. (m * c + r) % m = r
      BY <1>1, DivisionIs
    <3>3. m * c + r = x - 1
      BY <1>1, <1>6, <3>1
    <3> QED
      BY <3>1, <3>2, <3>3
  <2>2. (m - 1) % y = y - 1
    <3>1. PICK c \in Int, r \in 0 .. y - 1 : c = q - 1 /\ r = y - 1
      BY <1>2
    <3>2. (y * c + r) % y = r
      BY <1>2, DivisionIs
    <3>3. y * c = y * q - y
      BY <1>2, <3>1
    <3>4. y * c + r = m - 1
      BY <1>1, <1>2, <3>1, <3>3
    <3> QED
      BY <3>1, <3>2, <3>4
  <2>3. Or(m - 1, y - 1) + 1 = m
    BY <1>1, <1>2, <1>4, <2>2
  <2>4. RoundUp2(x, y) = 0
    BY <1>1, <1>5, <2>1, <2>3
  <2>5. Above(x, y) = 0
    BY <1>2, <1>6 DEF Above
  <2> QED
    BY <1>1, <1>3, <2>4, <2>5
<1>7. CASE x # 0
  <2>1. PICK z \in 0 .. m - 1 : z = x - 1 /\ z % m = z
    BY <1>1, <1>7
  <2>2. (z + y * 1) % y = z % y
    <3>1. PICK c \in Int : c = 1
      OBVIOUS
    <3>2. z \in Int
      BY <1>1
    <3>3. (z + y * c) % y = z % y
      BY <1>2, <3>2, DivShift
    <3> QED
      BY <3>1, <3>3
  <2>3. x + y - 1 = z + y * 1
    BY <1>1, <1>2, <2>1
  <2>4. Above(x, y) = (z + y) - (z % y)
    BY <1>2, <2>1, <2>2, <2>3 DEF Above
  <2>5. Or(z, y - 1) + 1 = (z + y) - (z % y)
    BY <1>1, <1>2, <1>4
  <2> QED
    BY <1>1, <1>3, <1>5, <2>1, <2>4, <2>5
<1> QED
  BY <1>6, <1>7

(* XCP_ROUND_UP as long as X + Y - 1 does not wrap.                        *)
THEOREM RoundingByDivision ==
  ASSUME NEW x \in Nat, NEW y \in Nat, y > 0, x + y - 1 < Power(2, XBits)
  PROVE  RoundUp(x, y) = Above(x, y)
<1>1. PICK m \in Nat : m = Power(2, XBits)
  BY PowerSteps, NumberAssumption
<1>2. PICK z \in 0 .. m - 1 : z = x + y - 1 /\ z % m = z
  BY <1>1
<1>3. PICK q \in Int, r \in 0 .. y - 1 : q = z \div y /\ r = z % y /\ z = y * q + r
  BY <1>1
<1>4. Above(x, y) = y * q
  BY <1>2, <1>3 DEF Above
<1>5. q * y = y * q /\ y * q \in Int
  OBVIOUS
<1>6. y * q \in x .. z
  BY <1>2, <1>3, <1>5
<1>7. (y * q) % m = y * q
  BY <1>1, <1>2, <1>5, <1>6
<1> QED
  BY <1>1, <1>2, <1>3, <1>4, <1>5, <1>7 DEF RoundUp, Wrapped

(* The quotient and the remainder of C, which truncate.                    *)
LEMMA TruncatedDivision ==
  ASSUME NEW x \in Int, NEW y \in Int, y # 0
  PROVE  LET d == Absolute(x) \div Absolute(y)
             r == Absolute(x) % Absolute(y)
         IN  /\ d \in Nat /\ r \in 0 .. Absolute(y) - 1
             /\ Absolute(x) = Absolute(y) * d + r
             /\ Quotient(x, y) = IF (x < 0) = (y < 0) THEN d ELSE -d
             /\ Remainder(x, y) = IF x < 0 THEN -r ELSE r
<1>1. PICK a \in Nat : a = Absolute(x) /\ a = IF x < 0 THEN -x ELSE x
  BY DEF Absolute
<1>2. PICK b \in Nat : b = Absolute(y) /\ b > 0 /\ b = IF y < 0 THEN -y ELSE y
  BY DEF Absolute
<1>3. PICK d \in Nat, r \in 0 .. b - 1 : d = a \div b /\ r = a % b /\ a = b * d + r
  BY <1>2
<1>4. Quotient(x, y) = IF (x < 0) = (y < 0) THEN d ELSE -d
  BY <1>1, <1>2, <1>3 DEF Quotient
<1>5. PICK p \in Nat : p = b * d
  OBVIOUS
<1>6. y * Quotient(x, y) = IF x < 0 THEN -p ELSE p
  <2>1. CASE x < 0 /\ y < 0
    <3>1. Quotient(x, y) = d /\ y = -b
      BY <1>2, <1>4, <2>1
    <3>2. (-b) * d = -p
      BY <1>5
    <3> QED
      BY <2>1, <3>1, <3>2
  <2>2. CASE x < 0 /\ ~(y < 0)
    <3>1. Quotient(x, y) = -d /\ y = b
      BY <1>2, <1>4, <2>2
    <3>2. b * (-d) = -p
      BY <1>5
    <3> QED
      BY <2>2, <3>1, <3>2
  <2>3. CASE ~(x < 0) /\ y < 0
    <3>1. Quotient(x, y) = -d /\ y = -b
      BY <1>2, <1>4, <2>3
    <3>2. (-b) * (-d) = p
      BY <1>5
    <3> QED
      BY <2>3, <3>1, <3>2
  <2>4. CASE ~(x < 0) /\ ~(y < 0)
    <3>1. Quotient(x, y) = d /\ y = b
      BY <1>2, <1>4, <2>4
    <3> QED
      BY <1>5, <2>4, <3>1
  <2> QED
    BY <2>1, <2>2, <2>3, <2>4
<1>7. Remainder(x, y) = IF x < 0 THEN -r ELSE r
  BY <1>1, <1>3, <1>5, <1>6 DEF Remainder
<1> QED
  BY <1>1, <1>2, <1>3, <1>4, <1>7

(* XCP_DIV_ROUND_UP is the ceiling of the quotient, for operands of either *)
(* sign.                                                                   *)
THEOREM DivisionRoundsUp ==
  ASSUME NEW x \in Int, NEW y \in Int, y # 0
  PROVE  (IF y > 0 THEN DivRoundUp(x, y) * y - x ELSE x - DivRoundUp(x, y) * y)
         \in 0 .. Absolute(y) - 1
<1>1. PICK a \in Nat : a = Absolute(x) /\ a = IF x < 0 THEN -x ELSE x
  BY DEF Absolute
<1>2. PICK b \in Nat : b = Absolute(y) /\ b > 0 /\ b = IF y < 0 THEN -y ELSE y
  BY DEF Absolute
<1>3. PICK d \in Nat, r \in 0 .. b - 1 :
        /\ a = b * d + r
        /\ Quotient(x, y) = IF (x < 0) = (y < 0) THEN d ELSE -d
        /\ Remainder(x, y) = IF x < 0 THEN -r ELSE r
  <2> DEFINE d == Absolute(x) \div Absolute(y)
             r == Absolute(x) % Absolute(y)
  <2>1. /\ d \in Nat /\ r \in 0 .. Absolute(y) - 1
        /\ Absolute(x) = Absolute(y) * d + r
        /\ Quotient(x, y) = IF (x < 0) = (y < 0) THEN d ELSE -d
        /\ Remainder(x, y) = IF x < 0 THEN -r ELSE r
    BY TruncatedDivision
  <2> HIDE DEF d, r
  <2> QED
    BY <1>1, <1>2, <2>1
<1>4. PICK p \in Nat : p = b * d /\ a = p + r
  BY <1>3
<1>5. PICK u \in {0, 1} : u = IF r # 0 /\ (x > 0) = (y > 0) THEN 1 ELSE 0
  OBVIOUS
<1>6. DivRoundUp(x, y) = (IF (x < 0) = (y < 0) THEN d ELSE -d) + u
  BY <1>3, <1>5 DEF DivRoundUp
<1>7. PICK v \in Nat : v = b * u /\ v = IF u = 1 THEN b ELSE 0
  BY <1>5
<1>8. CASE y > 0 /\ x < 0
  <2>1. u = 0 /\ DivRoundUp(x, y) = -d /\ y = b /\ x = -(p + r)
    BY <1>1, <1>2, <1>4, <1>5, <1>6, <1>8
  <2>2. (-d) * b = -p
    BY <1>4
  <2> QED
    BY <1>2, <1>8, <2>1, <2>2
<1>9. CASE y > 0 /\ ~(x < 0)
  <2>1. DivRoundUp(x, y) = d + u /\ y = b /\ x = p + r
    BY <1>1, <1>2, <1>4, <1>5, <1>6, <1>9
  <2>2. (d + u) * b = p + v
    BY <1>4, <1>5, <1>7
  <2>3. r # 0 => u = 1
    BY <1>4, <1>5, <1>9, <2>1
  <2>4. r = 0 => u = 0
    BY <1>5
  <2> QED
    BY <1>2, <1>7, <1>9, <2>1, <2>2, <2>3, <2>4
<1>10. CASE y < 0 /\ x < 0
  <2>1. DivRoundUp(x, y) = d + u /\ y = -b /\ x = -(p + r)
    BY <1>1, <1>2, <1>4, <1>5, <1>6, <1>10
  <2>2. (d + u) * (-b) = -(p + v)
    BY <1>4, <1>5, <1>7
  <2>3. r # 0 => u = 1
    BY <1>5, <1>10
  <2>4. r = 0 => u = 0
    BY <1>5
  <2> QED
    BY <1>2, <1>7, <1>10, <2>1, <2>2, <2>3, <2>4
<1>11. CASE y < 0 /\ ~(x < 0)
  <2>1. u = 0 /\ DivRoundUp(x, y) = -d /\ y = -b /\ x = p + r
    <3>1. r # 0 => x > 0
      BY <1>1, <1>4, <1>11
    <3> QED
      BY <1>1, <1>2, <1>4, <1>5, <1>6, <1>11, <3>1
  <2>2. (-d) * (-b) = p
    BY <1>4
  <2> QED
    BY <1>2, <1>11, <2>1, <2>2
<1> QED
  BY <1>8, <1>9, <1>10, <1>11

(* The sample is a value of the type of X.                                 *)
LEMMA SampleIs ==
  ASSUME InputInv
  PROVE  Sample \in 0 .. Power(2, XBits) - 1
<1>1. PICK n \in Nat : n = Len(input) /\ DOMAIN input = 1 .. n
  BY LenProperties DEF InputInv
<1>2. PICK m \in Nat : m = Power(2, XBits) /\ m > 0
  BY PowerPositive, NumberAssumption
<1>3. Filled(n) \in Seq(0 .. Base - 1) /\ Len(Filled(n)) = n
  BY FilledIs
<1>4. Filled(n) = Memory
  <2>1. DOMAIN Memory = 1 .. n
    BY <1>1 DEF Memory
  <2>2. Memory = [k \in 1 .. n |-> Memory[k]]
    BY <1>1 DEF Memory
  <2>3. Filled(n) = [k \in 1 .. n |-> Memory[k]]
    BY <1>1 DEF Filled
  <2> QED
    BY <2>2, <2>3
<1>5. Memory \in Seq(0 .. Base - 1)
  BY <1>3, <1>4
<1>6. LeValue(Memory) \in Int
  <2>1. Size(n) \in Nat
    BY NumberAssumption, PowerPositive DEF Size
  <2>2. LeValue(Memory) \in 0 .. Size(n) - 1
    BY <1>3, <1>4, LoadFits
  <2> QED
    BY <2>1, <2>2
<1> QED
  BY <1>2, <1>6 DEF Sample

(* The rounding macros, for an X and a Y of types of any widths.           *)
THEOREM RoundedAsNamedHolds == Spec => []RoundedAsNamed
<1>1. InputInv => RoundedAsNamed
  <2> SUFFICES ASSUME InputInv PROVE RoundedAsNamed
    OBVIOUS
  <2>1. PICK m \in Nat : m = Power(2, XBits) /\ m > 0
    BY PowerPositive, NumberAssumption
  <2>2. PICK x \in 0 .. m - 1 : x = Sample
    BY <2>1, SampleIs
  <2>3. ASSUME NEW y \in 1 .. Power(2, YBits) - 1
        PROVE  LET up   == CHOOSE v \in Sample .. Sample + y - 1 : v % y = 0
                   down == Sample - (Sample % y)
               IN  /\ (\E e \in 0 .. YBits : y = Power(2, e)) =>
                        /\ RoundUp2(Sample, y) = up % Power(2, XBits)
                        /\ RoundDown2(Sample, y) = down
                   /\ Sample + y - 1 < Power(2, XBits) => RoundUp(Sample, y) = up
    <3>1. y \in Nat /\ y > 0
      <4>1. Power(2, YBits) \in Nat
        BY PowerPositive, NumberAssumption
      <4> QED
        BY <4>1
    <3>2. (CHOOSE v \in x .. x + y - 1 : v % y = 0) = Above(x, y)
      BY <2>1, <3>1, AboveIs
    <3>3. ASSUME NEW e \in 0 .. YBits, y = Power(2, e)
          PROVE  RoundUp2(x, y) = Above(x, y) % m /\ RoundDown2(x, y) = x - (x % y)
      <4>1. e \in 0 .. XBits
        BY NumberAssumption
      <4> QED
        BY <2>1, <3>3, <4>1, RoundingByMask
    <3>4. x + y - 1 < m => RoundUp(x, y) = Above(x, y)
      BY <2>1, <3>1, RoundingByDivision
    <3> QED
      BY <2>1, <2>2, <3>2, <3>3, <3>4
  <2>4. ASSUME NEW y \in -9 .. 9 \ {0}
        PROVE  LET z    == Sample - Power(2, XBits - 1)
                   q    == DivRoundUp(z, y)
                   rest == IF y > 0 THEN q * y - z ELSE z - q * y
               IN  rest \in 0 .. Absolute(y) - 1
    <3>1. PICK h \in Nat : h = Power(2, XBits - 1)
      <4>1. XBits - 1 \in Nat
        BY NumberAssumption
      <4> QED
        BY <4>1, PowerSteps
    <3>2. PICK z \in Int : z = Sample - Power(2, XBits - 1)
      BY <2>1, <2>2, <3>1
    <3>3. y \in Int /\ y # 0
      OBVIOUS
    <3> QED
      BY <3>2, <3>3, DivisionRoundsUp
  <2> QED
    BY <2>3, <2>4 DEF RoundedAsNamed
<1> QED
  BY <1>1, InputIsString, PTL
=============================================================================
