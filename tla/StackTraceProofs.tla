-------------------------- MODULE StackTraceProofs --------------------------
(***************************************************************************)
(* Proofs about StackTrace, for every number of frames, every length of a  *)
(* text and of the executable's name, every choice of the calls that fail  *)
(* and of what libbfd leaves when there are no symbols.  Held says what is *)
(* allocated at each place of the code, Summed how far the lengths are     *)
(* summed up and written.                                                  *)
(***************************************************************************)
EXTENDS StackTrace, TLAPS, FiniteSetTheorems

-----------------------------------------------------------------------------
(* The inductive invariant.                                                *)

Reading == {"buffer", "link", "locations"}

Looking == {"frame", "open", "read", "dynamic", "format"}

Writing == {"build", "show"}

(* The blocks that something still points to.                              *)
Owned == heap \ {"lost"}

(* What there is of them at each place of the code.                        *)
BlocksHeld ==
  /\ pc \in {"idle", "buffer"}              => Owned = {}
  /\ pc \in {"link", "locations"}           => Owned = {"self"}
  /\ pc \in {"frame", "open", "strings"}    => Owned = {"self", "locations"}
  /\ pc = "read"                            => Owned = {"self", "locations", "bin"}
  /\ pc \in {"dynamic", "format"}           => Owned \ {"symbols"} = {"self", "locations", "bin"}
  /\ pc = "build"                           => Owned = {"self", "locations", "strings"}
  /\ pc = "fail"                            => Owned \subseteq {"self", "locations"}
  /\ pc = "show"                            => Owned = {"strings"}

(* The texts that are allocated: those of the frames that were located and *)
(* not yet written or freed.  On the failure path `i' is on the last frame *)
(* or before the first that holds one.                                     *)
TextsHeld ==
  /\ pc \in Reading \cup {"idle"} => texts = {}
  /\ pc \in Reading   => i = size /\ DOMAIN locations = {}
  /\ pc \in Looking   => /\ i < size /\ texts = i + 1 .. size - 1
                         /\ DOMAIN locations = i + 1 .. size - 1
  /\ pc \in {"open", "read", "dynamic", "format"} => i >= 0
  /\ pc = "strings"   => i = -1 /\ texts = 0 .. size - 1 /\ DOMAIN locations = 0 .. size - 1
  /\ pc \in Writing   => /\ texts = 0 .. j /\ DOMAIN locations = 0 .. size - 1
                         /\ DOMAIN strings = j + 1 .. size - 1
  /\ pc \in Looking \cup {"strings"} \cup Writing =>
       \A k \in DOMAIN locations : locations[k] \in Nat
  /\ pc = "show"      => j = -1
  /\ pc = "fail"      => \A k \in texts : k >= i /\ k \in DOMAIN locations
  /\ pc \notin Writing \cup {"idle"} => DOMAIN strings = {}

(* What xcp_readlink is doing.                                             *)
NameRead ==
  /\ pc = "link" => bufSize \in Nat \ {0}
  /\ self = seen

Held == TypeOK /\ BlocksHeld /\ TextsHeld /\ NameRead

(* The room that the numbers take: one frame's, at line 229.               *)
Width == SizeLength + 1

(* `total' gives the room of the texts of the frames from k on: charCount  *)
(* is the total of the frames that are located, and the block is filled by *)
(* the total of the frames that are written and their numbers.             *)
Summed ==
  \E total \in [0 .. size -> Nat] :
    /\ total[size] = 0
    /\ pc \in Looking \cup {"strings"} \cup Writing =>
         \A k \in DOMAIN locations : total[k] = total[k + 1] + Room(locations[k])
    /\ \A k, l \in 0 .. size : k <= l => total[l] <= total[k]
    /\ pc \in Reading => charCount = 0 /\ data = 0
    /\ pc \in Looking \cup {"strings"} => charCount = total[i + 1] /\ data = 0
    /\ pc \in Writing => /\ charCount = total[0] + Width * size
                         /\ data = total[j + 1] + Width * (size - (j + 1))

(* Each line that was written ends where the next one starts, or before.   *)
Apart ==
  /\ pc \in Writing =>
       \A l \in DOMAIN strings : strings[l] + Width + locations[l] + 1 <= data
  /\ \A k, l \in DOMAIN strings :
       k < l => strings[l] + Width + locations[l] + 1 <= strings[k]
-----------------------------------------------------------------------------
(* What is allocated.                                                      *)

(* Setting an element of the array adds it to those that are set.          *)
LEMMA SetElement ==
  ASSUME TypeOK, i \in 0 .. size - 1, NEW v \in Lengths \cup {NULL}, Set(v)
  PROVE  /\ DOMAIN locations' = DOMAIN locations \cup {i}
         /\ locations'[i] = v
         /\ \A k \in DOMAIN locations : k # i => locations'[k] = locations[k]
         /\ DOMAIN locations' \subseteq 0 .. size - 1
         /\ \A k \in DOMAIN locations' : locations'[k] \in Lengths \cup {NULL}
BY DEF Set, TypeOK

(* A call that returns keeps what is held, if it has freed everything.     *)
LEMMA ReturnsHeld ==
  ASSUME Held, NEW blocks, Returns(blocks), Owned \ blocks = {}, texts = {}
  PROVE  Held'
<1> USE DEF Returns, call, look, out, Owned
<1>1. TypeOK'
  BY DEF Held, TypeOK
<1>2. BlocksHeld' /\ NameRead'
  BY DEF Held, BlocksHeld, NameRead
<1>3. TextsHeld'
  BY DEF Held, TextsHeld, Reading, Looking, Writing
<1> QED
  BY <1>1, <1>2, <1>3 DEF Held

(* The logarithm of a number, and so the width of a frame's, is a natural  *)
(* number, and does not decrease.                                          *)
LEMMA LogarithmGrows ==
  ASSUME NEW m \in Nat, NEW n \in Nat, m <= n
  PROVE  Log10(m) \in Nat /\ Log10(n) \in Nat /\ Log10(m) <= Log10(n)
<1> DEFINE P(k) == {e \in 1 .. 9 : 10 ^ e \in 1 .. k}
<1>1. IsFiniteSet(P(m)) /\ IsFiniteSet(P(n))
  <2>1. IsFiniteSet(1 .. 9)
    <3>1. \A a, b \in Int : IsFiniteSet(a .. b)
      BY FS_Interval
    <3>2. 1 \in Int /\ 9 \in Int
      OBVIOUS
    <3> QED
      BY <3>1, <3>2, Zenon
  <2>2. P(m) \in SUBSET (1 .. 9) /\ P(n) \in SUBSET (1 .. 9)
    OBVIOUS
  <2> QED
    BY <2>1, <2>2, FS_Subset
<1>2. P(m) \subseteq P(n)
  OBVIOUS
<1>3. Cardinality(P(m)) <= Cardinality(P(n))
  BY <1>1, <1>2, FS_Subset
<1> QED
  BY <1>1, <1>3, FS_CardinalityType DEF Log10

(* The number of a frame takes one character more than sizeLength.         *)
LEMMA NumberType ==
  ASSUME size \in Nat
  PROVE  /\ SizeLength \in Nat
         /\ \A k \in 0 .. size - 1 : NumberLength(k) = SizeLength + 1 /\ NumberLength(k) \in Nat
<1>1. Larger(1, size - 1) \in Nat
  BY DEF Larger
<1>2. SizeLength \in Nat /\ (size # 0 => SizeLength = Log10(Larger(1, size - 1)) + 2)
  BY <1>1, LogarithmGrows DEF SizeLength
<1>3. ASSUME NEW k \in 0 .. size - 1
      PROVE  NumberLength(k) = SizeLength + 1
  <2>1. Larger(1, k) \in Nat /\ Larger(1, k) <= Larger(1, size - 1)
    BY DEF Larger
  <2>2. /\ Log10(Larger(1, k)) \in Nat /\ Log10(Larger(1, size - 1)) \in Nat
        /\ Log10(Larger(1, k)) <= Log10(Larger(1, size - 1))
    BY <1>1, <2>1, LogarithmGrows
  <2>3. 1 + Log10(Larger(1, k)) <= SizeLength
    BY <1>2, <2>2
  <2> QED
    BY <1>2, <2>2, <2>3 DEF NumberLength, Larger
<1> QED
  BY <1>2, <1>3

(* The initial state holds nothing.                                        *)
LEMMA InitHeld == Init => Held
<1> SUFFICES ASSUME Init PROVE Held
  OBVIOUS
<1>1. DOMAIN None = {}
  BY DEF None
<1>2. TypeOK
  BY <1>1 DEF Init, TypeOK, Blocks
<1>3. BlocksHeld /\ TextsHeld /\ NameRead
  BY <1>1 DEF Init, BlocksHeld, Owned, TextsHeld, NameRead, Reading, Looking, Writing
<1> QED
  BY <1>2, <1>3 DEF Held

(* A call starts with nothing held, and a rename changes nothing held.     *)
LEMMA CallHeld ==
  ASSUME Held, (\E n \in Sizes : SymbolsFd(n)) \/ (\E n \in Links : Rename(n))
  PROVE  Held'
<1>1. ASSUME NEW n \in Sizes, SymbolsFd(n) PROVE Held'
  <2>1. n \in Nat /\ size' = n /\ i' = n /\ j' = -1
    BY <1>1, StackTraceAssumption DEF SymbolsFd
  <2>2. DOMAIN None = {}
    BY DEF None
  <2>3. texts = {} /\ Owned = {} /\ heap \subseteq {"lost"}
    BY <1>1 DEF SymbolsFd, Held, BlocksHeld, Owned, TextsHeld, Reading
  <2>4. TypeOK'
    BY <1>1, <2>1, <2>2, <2>3 DEF SymbolsFd, Held, TypeOK
  <2>5. BlocksHeld' /\ TextsHeld' /\ NameRead'
    BY <1>1, <2>1, <2>2, <2>3 DEF SymbolsFd, BlocksHeld, Owned, TextsHeld, NameRead, Reading, Looking, Writing
  <2> QED
    BY <2>4, <2>5 DEF Held
<1>2. ASSUME NEW n \in Links, Rename(n) PROVE Held'
  BY <1>2 DEF Rename, Held, TypeOK, BlocksHeld, Owned, TextsHeld, NameRead, call, look, out
<1> QED
  BY <1>1, <1>2

(* xcp_readlink: the buffer is all that is held until the name is whole.   *)
LEMMA ReadLinkHeld ==
  ASSUME Held, AllocBuffer \/ Grow \/ ReadLink \/ ReadLinkFails
  PROVE  Held'
<1> USE DEF call, look, out, Owned
<1>1. pc \in {"buffer", "link"} /\ texts = {} /\ Owned \subseteq {"self"}
  BY DEF AllocBuffer, Grow, ReadLink, ReadLinkFails, Held, BlocksHeld, TextsHeld, Reading
<1>2. CASE AllocBuffer /\ bufSize' = 16
  <2>1. TypeOK'
    BY <1>2 DEF AllocBuffer, Returns, Held, TypeOK, Blocks
  <2>2. BlocksHeld' /\ TextsHeld' /\ NameRead'
    BY <1>2 DEF AllocBuffer, Returns, Held, BlocksHeld, TextsHeld, NameRead, Reading, Looking, Writing
  <2> QED
    BY <2>1, <2>2 DEF Held
<1>3. CASE AllocBuffer /\ Returns({})
  BY <1>1, <1>3, ReturnsHeld DEF AllocBuffer, Held, BlocksHeld
<1>4. CASE Grow /\ bufSize' = 2 * bufSize
  <2>1. bufSize' \in Nat \ {0}
    BY <1>4 DEF Grow, Held, NameRead
  <2>2. TypeOK'
    BY <1>4, <2>1 DEF Grow, Returns, Held, TypeOK
  <2>3. BlocksHeld' /\ TextsHeld' /\ NameRead'
    BY <1>4, <2>1 DEF Grow, Returns, Held, BlocksHeld, TextsHeld, NameRead, Reading, Looking, Writing
  <2> QED
    BY <2>2, <2>3 DEF Held
<1>5. CASE Returns({"self"})
  BY <1>1, <1>5, ReturnsHeld
<1>6. CASE ReadLink
  <2>1. exe \in Nat /\ bufSize \in Nat \ {0}
    BY <1>6, StackTraceAssumption DEF ReadLink, Held, TypeOK, NameRead
  <2>2. self' = exe /\ seen' = exe
    BY <1>6, <2>1 DEF ReadLink, Full, Stored
  <2>3. TypeOK'
    BY <1>6, <2>1, <2>2 DEF ReadLink, Held, TypeOK
  <2>4. BlocksHeld' /\ TextsHeld' /\ NameRead'
    BY <1>6, <2>2 DEF ReadLink, Held, BlocksHeld, TextsHeld, NameRead, Reading, Looking, Writing
  <2> QED
    BY <2>3, <2>4 DEF Held
<1> QED
  BY <1>2, <1>3, <1>4, <1>5, <1>6 DEF AllocBuffer, Grow, ReadLinkFails

(* The loop over the frames: a text that is made is in the array, and what *)
(* was opened or read to make it is released.                              *)
LEMMA LocatedHeld ==
  ASSUME Held, NEW n \in Lengths, Located(n), pc \in {"frame", "format"}, i >= 0,
         heap' = heap \ {"symbols", "bin"}, UNCHANGED <<exe, call, out>>
  PROVE  Held'
<1> USE DEF call, out, Owned
<1>1. i \in Nat /\ size \in Nat /\ n \in Nat /\ i \in 0 .. size
  BY StackTraceAssumption DEF Held, TypeOK
<1>2. /\ texts = i + 1 .. size - 1 /\ DOMAIN locations = i + 1 .. size - 1
      /\ DOMAIN strings = {} /\ Owned \subseteq {"self", "locations", "bin", "symbols"}
  BY DEF Held, BlocksHeld, TextsHeld, Reading, Looking, Writing
<1>3. i \in 0 .. size - 1
  BY <1>1 DEF Held, TextsHeld, Looking
<1>4. /\ DOMAIN locations' = DOMAIN locations \cup {i} /\ locations'[i] = n
      /\ \A k \in DOMAIN locations : k # i => locations'[k] = locations[k]
      /\ DOMAIN locations' \subseteq 0 .. size - 1
      /\ \A k \in DOMAIN locations' : locations'[k] \in Lengths \cup {NULL}
  BY <1>3, SetElement DEF Located, Held
<1>5. TypeOK'
  BY <1>1, <1>2, <1>3, <1>4 DEF Located, Room, Held, TypeOK
<1>6. i' + 1 .. size - 1 = (i + 1 .. size - 1) \cup {i}
  BY <1>1, <1>3 DEF Located
<1>7. \A k \in DOMAIN locations' : locations'[k] \in Nat
  BY <1>1, <1>4 DEF Held, TextsHeld, Looking
<1>8. TextsHeld'
  BY <1>1, <1>2, <1>3, <1>4, <1>6, <1>7 DEF Located, TextsHeld, Reading, Looking, Writing
<1>9. BlocksHeld' /\ NameRead'
  BY DEF Located, Held, BlocksHeld, NameRead
<1> QED
  BY <1>5, <1>8, <1>9 DEF Held

(* A lookup that fails leaves the array set up to its frame.               *)
LEMMA NotLocatedHeld ==
  ASSUME Held, NotLocated, pc \in {"open", "read", "dynamic", "format"},
         heap' \subseteq {"self", "locations", "lost"}, UNCHANGED <<exe, call, out>>
  PROVE  Held'
<1> USE DEF call, out, Owned
<1>1. i \in Nat /\ size \in Nat /\ i \in 0 .. size
  BY StackTraceAssumption DEF Held, TypeOK, TextsHeld
<1>2. /\ texts = i + 1 .. size - 1 /\ DOMAIN locations = i + 1 .. size - 1
      /\ DOMAIN strings = {}
  BY DEF Held, TextsHeld, Reading, Looking, Writing
<1>3. i \in 0 .. size - 1
  BY <1>1 DEF Held, TextsHeld, Looking
<1>4. /\ DOMAIN locations' = DOMAIN locations \cup {i}
      /\ DOMAIN locations' \subseteq 0 .. size - 1
      /\ \A k \in DOMAIN locations' : locations'[k] \in Lengths \cup {NULL}
  BY <1>3, SetElement DEF NotLocated, Held
<1>5. TypeOK'
  BY <1>1, <1>2, <1>4 DEF NotLocated, Held, TypeOK, Blocks
<1>6. TextsHeld'
  BY <1>1, <1>2, <1>4 DEF NotLocated, TextsHeld, Reading, Looking, Writing
<1>7. BlocksHeld' /\ NameRead'
  BY DEF NotLocated, Held, BlocksHeld, NameRead
<1> QED
  BY <1>5, <1>6, <1>7 DEF Held

(* The loop over the frames keeps what is held.                            *)
LEMMA LookHeld ==
  ASSUME Held,
         \/ AllocLocations \/ Known \/ Open \/ ReadSymbols \/ ReadDynamic \/ AllLocated
         \/ \E n \in Lengths : Unknown(n) \/ Format(n)
  PROVE  Held'
<1> USE DEF call, look, out, Owned
<1>1. size \in Nat /\ i \in -1 .. size
  BY StackTraceAssumption DEF Held, TypeOK
<1>2. CASE AllocLocations
  <2>1. texts = {} /\ DOMAIN strings = {} /\ Owned = {"self"}
    BY <1>2 DEF AllocLocations, Held, BlocksHeld, TextsHeld, Reading, Writing
  <2>2. DOMAIN locations = {}
    BY <1>2 DEF AllocLocations, Held, TextsHeld, Reading
  <2>3. TypeOK'
    BY <1>1, <1>2, <2>1 DEF AllocLocations, Held, TypeOK, Blocks
  <2>4. BlocksHeld' /\ NameRead'
    BY <1>2, <2>1 DEF AllocLocations, Held, BlocksHeld, NameRead
  <2>5. TextsHeld'
    <3>1. (size - 1) + 1 .. size - 1 = {}
      BY <1>1
    <3>2. CASE pc' = "frame" /\ i' = size - 1 /\ UNCHANGED <<size, texts, locations, strings>>
      BY <1>1, <2>1, <2>2, <3>1, <3>2 DEF TextsHeld, Reading, Looking, Writing
    <3>3. CASE pc' = "fail" /\ UNCHANGED <<size, i, texts, locations, strings>>
      BY <2>1, <3>3 DEF TextsHeld, Reading, Looking, Writing
    <3> QED
      BY <1>2, <3>2, <3>3 DEF AllocLocations
  <2> QED
    BY <2>3, <2>4, <2>5 DEF Held
<1>3. CASE Known \/ AllLocated
  <2>1. i < 0 => i = -1
    BY <1>1
  <2>2. TypeOK'
    BY <1>3 DEF Known, AllLocated, Held, TypeOK
  <2>3. BlocksHeld' /\ NameRead'
    BY <1>3 DEF Known, AllLocated, Held, BlocksHeld, NameRead
  <2>4. TextsHeld'
    BY <1>1, <1>3, <2>1 DEF Known, AllLocated, Held, TextsHeld, Reading, Looking, Writing
  <2> QED
    BY <2>2, <2>3, <2>4 DEF Held
<1>4. CASE Open
  <2>1. CASE NotLocated /\ UNCHANGED heap
    BY <1>4, <2>1, NotLocatedHeld DEF Open, Held, BlocksHeld
  <2>2. CASE pc' = "read"
    <3>1. TypeOK'
      BY <1>4, <2>2 DEF Open, NotLocated, Held, TypeOK, Blocks
    <3> QED
      BY <1>4, <2>2, <3>1
         DEF Open, NotLocated, Held, BlocksHeld, TextsHeld, NameRead, Reading, Looking, Writing
  <2> QED
    BY <1>4, <2>1, <2>2 DEF Open
<1>5. CASE ReadSymbols \/ ReadDynamic
  <2>1. CASE Unread /\ heap' \subseteq {"self", "locations", "lost"}
    BY <1>5, <2>1, NotLocatedHeld DEF ReadSymbols, ReadDynamic, Unread
  <2>2. CASE /\ pc' \in {"dynamic", "format"} /\ UNCHANGED <<texts, look>>
             /\ heap' \subseteq Blocks /\ Owned' \ {"symbols"} = {"self", "locations", "bin"}
    <3>1. TypeOK'
      BY <1>5, <2>2 DEF ReadSymbols, ReadDynamic, Held, TypeOK
    <3>2. BlocksHeld' /\ NameRead'
      BY <1>5, <2>2 DEF ReadSymbols, ReadDynamic, Held, BlocksHeld, NameRead
    <3>3. TextsHeld'
      BY <1>5, <2>2 DEF ReadSymbols, ReadDynamic, Held, TextsHeld, Reading, Looking, Writing
    <3> QED
      BY <3>1, <3>2, <3>3 DEF Held
  <2>3. CASE ReadSymbols
    <3>1. heap \ {"lost"} = {"self", "locations", "bin"}
      BY <2>3 DEF ReadSymbols, Held, BlocksHeld
    <3> QED
      BY <2>1, <2>2, <2>3, <3>1 DEF ReadSymbols, NoSymbols, Blocks
  <2>4. CASE ReadDynamic
    <3>1. heap \ {"lost", "symbols"} = {"self", "locations", "bin"}
      BY <2>4 DEF ReadDynamic, Held, BlocksHeld
    <3> QED
      BY <2>1, <2>2, <2>4, <3>1 DEF ReadDynamic, NoSymbols, Lost, Blocks
  <2> QED
    BY <1>5, <2>3, <2>4
<1>6. ASSUME NEW n \in Lengths, Unknown(n) PROVE Held'
  <2>1. CASE Located(n)
    <3>1. heap' = heap \ {"symbols", "bin"}
      BY <1>6 DEF Unknown, Held, BlocksHeld
    <3> QED
      BY <1>6, <2>1, <3>1, LocatedHeld DEF Unknown
  <2>2. CASE pc' = "fail" /\ UNCHANGED <<texts, look>>
    <3>1. TypeOK'
      BY <1>6, <2>2 DEF Unknown, Held, TypeOK
    <3>2. texts = i + 1 .. size - 1 /\ DOMAIN locations = i + 1 .. size - 1
      BY <1>6 DEF Unknown, Held, TextsHeld, Looking
    <3> QED
      BY <1>1, <1>6, <2>2, <3>1, <3>2
         DEF Unknown, Held, BlocksHeld, TextsHeld, NameRead, Reading, Looking, Writing
  <2> QED
    BY <1>6, <2>1, <2>2 DEF Unknown
<1>7. ASSUME NEW n \in Lengths, Format(n) PROVE Held'
  <2>1. heap \ {"lost", "symbols"} = {"self", "locations", "bin"} /\ i >= 0 /\ DOMAIN strings = {}
    BY <1>7 DEF Format, Held, BlocksHeld, TextsHeld, Reading, Writing
  <2>2. CASE Located(n) /\ heap' = heap \ {"symbols", "bin"}
    BY <1>7, <2>1, <2>2, LocatedHeld DEF Format
  <2>3. CASE NotLocated /\ heap' = heap \ {"symbols", "bin"}
    BY <1>7, <2>1, <2>3, NotLocatedHeld DEF Format
  <2>4. CASE pc' = "undefined" /\ UNCHANGED <<heap, texts, look>>
    <3>1. TypeOK'
      BY <1>7, <2>4 DEF Format, Held, TypeOK
    <3> QED
      BY <1>7, <2>1, <2>4, <3>1
         DEF Format, Held, BlocksHeld, TextsHeld, NameRead, Reading, Looking, Writing
  <2> QED
    BY <1>7, <2>2, <2>3, <2>4 DEF Format
<1> QED
  BY <1>2, <1>3, <1>4, <1>5, <1>6, <1>7

(* The block of strings takes the texts over one by one.                   *)
LEMMA WriteHeld ==
  ASSUME Held, AllocStrings \/ Build \/ Built \/ Show
  PROVE  Held'
<1> USE DEF call, look, out, Owned
<1>1. size \in Nat /\ charCount \in Nat /\ data \in Nat
  BY StackTraceAssumption DEF Held, TypeOK
<1>2. SizeLength \in Nat
  BY <1>1, NumberType
<1>3. CASE AllocStrings
  <2>1. (SizeLength + 1) * size \in Nat
    BY <1>1, <1>2
  <2>2. charCount' \in Nat
    BY <1>1, <1>3, <2>1 DEF AllocStrings
  <2>3. /\ i = -1 /\ texts = 0 .. size - 1 /\ DOMAIN locations = 0 .. size - 1
        /\ \A k \in DOMAIN locations : locations[k] \in Nat
        /\ DOMAIN strings = {} /\ Owned = {"self", "locations"}
    BY <1>3 DEF AllocStrings, Held, BlocksHeld, TextsHeld, Reading, Writing
  <2>4. TypeOK'
    <3>1. j' \in -1 .. size - 1 /\ heap' \subseteq Blocks
      BY <1>1, <1>3, <2>3 DEF AllocStrings, Held, TypeOK, Blocks
    <3> QED
      BY <1>1, <1>3, <2>2, <3>1 DEF AllocStrings, Held, TypeOK
  <2>5. BlocksHeld' /\ NameRead'
    BY <1>3, <2>3 DEF AllocStrings, Held, BlocksHeld, NameRead
  <2>6. TextsHeld'
    BY <1>1, <1>3, <2>3 DEF AllocStrings, TextsHeld, Reading, Looking, Writing
  <2> QED
    BY <2>4, <2>5, <2>6 DEF Held
<1>4. CASE Build
  <2>1. /\ texts = 0 .. j /\ DOMAIN locations = 0 .. size - 1
        /\ DOMAIN strings = j + 1 .. size - 1 /\ j \in 0 .. size - 1
    BY <1>1, <1>4 DEF Build, Held, TypeOK, TextsHeld, Reading, Writing
  <2>2. /\ DOMAIN strings' = j .. size - 1
        /\ \A k \in DOMAIN strings' : strings'[k] \in Nat
    BY <1>1, <1>4, <2>1 DEF Build, Held, TypeOK
  <2>3. locations[j] \in Nat /\ NumberLength(j) \in Nat
    BY <1>1, <1>4, <2>1, NumberType DEF Build, Held, TextsHeld, Reading, Writing
  <2>4. data' \in Nat
    BY <1>1, <1>4, <2>3 DEF Build
  <2>5. texts' = 0 .. j - 1 /\ j' = j - 1
    BY <1>1, <1>4, <2>1 DEF Build
  <2>6. TypeOK'
    BY <1>1, <1>4, <2>1, <2>2, <2>4, <2>5 DEF Build, Held, TypeOK
  <2>7. BlocksHeld' /\ NameRead'
    BY <1>4 DEF Build, Held, BlocksHeld, NameRead
  <2>8. TextsHeld'
    <3>1. \A k \in DOMAIN locations : locations[k] \in Nat
      BY <1>4 DEF Build, Held, TextsHeld, Reading, Writing
    <3> QED
      BY <1>1, <1>4, <2>1, <2>2, <2>5, <3>1 DEF Build, TextsHeld, Reading, Looking, Writing
  <2> QED
    BY <2>6, <2>7, <2>8 DEF Held
<1>5. CASE Built
  <2>1. j = -1
    BY <1>1, <1>5 DEF Built, Held, TypeOK
  <2>2. TypeOK'
    BY <1>5 DEF Built, Held, TypeOK
  <2>3. BlocksHeld' /\ NameRead'
    BY <1>5 DEF Built, Held, BlocksHeld, NameRead
  <2>4. TextsHeld'
    BY <1>5, <2>1 DEF Built, Held, TextsHeld, Reading, Looking, Writing
  <2> QED
    BY <2>2, <2>3, <2>4 DEF Held
<1>6. CASE Show
  <2>1. texts = {} /\ Owned = {"strings"}
    BY <1>6 DEF Show, Held, BlocksHeld, TextsHeld, Reading, Writing
  <2> QED
    BY <1>6, <2>1, ReturnsHeld DEF Show
<1> QED
  BY <1>3, <1>4, <1>5, <1>6

(* The failure path frees from `i' on every text that is allocated.        *)
LEMMA FailHeld ==
  ASSUME Held, FreeLocation \/ Fail
  PROVE  Held'
<1> USE DEF call, look, out, Owned
<1>1. size \in Nat /\ i \in -1 .. size
  BY StackTraceAssumption DEF Held, TypeOK
<1>2. /\ \A k \in texts : k \in Int /\ k >= i /\ k < size /\ k \in DOMAIN locations
      /\ Owned \subseteq {"self", "locations"} /\ DOMAIN strings = {}
  BY <1>1 DEF FreeLocation, Fail, Held, TypeOK, BlocksHeld, TextsHeld, Reading, Writing
<1>3. CASE FreeLocation
  <2>1. i < size /\ i' = i + 1 /\ pc' \in {"fail", "undefined"}
    BY <1>3 DEF FreeLocation, ToFree
  <2>2. texts' = texts \ {i}
    BY <1>2, <1>3 DEF FreeLocation
  <2>3. TypeOK'
    BY <1>1, <1>3, <2>1, <2>2 DEF FreeLocation, Held, TypeOK
  <2>4. BlocksHeld' /\ NameRead'
    BY <1>2, <1>3, <2>1 DEF FreeLocation, Held, BlocksHeld, NameRead
  <2>5. TextsHeld'
    BY <1>1, <1>2, <1>3, <2>1, <2>2 DEF FreeLocation, TextsHeld, Reading, Looking, Writing
  <2> QED
    BY <2>3, <2>4, <2>5 DEF Held
<1>4. CASE Fail
  <2>1. texts = {}
    BY <1>1, <1>2, <1>4 DEF Fail, ToFree
  <2> QED
    BY <1>2, <1>4, <2>1, ReturnsHeld DEF Fail
<1> QED
  BY <1>3, <1>4

(* Every step keeps what is held.                                          *)
LEMMA HeldNext == Held /\ [Next]_vars => Held'
<1> SUFFICES ASSUME Held, [Next]_vars PROVE Held'
  OBVIOUS
<1>1. CASE (\E n \in Sizes : SymbolsFd(n)) \/ (\E n \in Links : Rename(n))
  BY <1>1, CallHeld
<1>2. CASE Step
  BY <1>2, ReadLinkHeld, LookHeld, WriteHeld, FailHeld DEF Step
<1>3. CASE UNCHANGED vars
  BY <1>3 DEF vars, call, look, out, Held, TypeOK, BlocksHeld, Owned, TextsHeld, NameRead
<1> QED
  BY <1>1, <1>2, <1>3 DEF Next

(* What is held is as said in every reachable state.                       *)
LEMMA HeldAlways == Spec => []Held
BY InitHeld, HeldNext, PTL DEF Spec

(* The variables keep their types: the loops stay in the arrays.           *)
THEOREM TypeCorrect == Spec => []TypeOK
<1>1. Held => TypeOK
  BY DEF Held
<1> QED
  BY <1>1, HeldAlways, PTL

(* A table of symbols loses its pointer only when the first of the two     *)
(* calls of bfd_read_minisymbols has left one although it found none.      *)
NoneLost == "lost" \notin heap /\ (pc = "dynamic" => "symbols" \notin heap)

(* No table is lost when the first call leaves none (bfd-stacktrace.c 76).  *)
LEMMA NoneLostNext ==
  ASSUME Held, NoneLost, [Next]_vars, "table" \notin Empty
  PROVE  NoneLost'
<1> USE DEF call, look, out, NoneLost
<1>1. CASE ReadSymbols
  <2>1. "symbols" \notin heap
    BY <1>1 DEF ReadSymbols, Held, BlocksHeld, Owned
  <2> QED
    BY <1>1, <2>1 DEF ReadSymbols, Unread, NotLocated
<1>2. CASE ReadDynamic
  BY <1>2 DEF ReadDynamic, Unread, NotLocated, Lost
<1>3. CASE UNCHANGED <<pc, heap>>
  BY <1>3
<1>4. CASE Step
  <2>1. CASE AllocBuffer \/ Grow \/ ReadLink \/ ReadLinkFails \/ AllocLocations
    BY <2>1 DEF AllocBuffer, Grow, ReadLink, ReadLinkFails, AllocLocations, Returns
  <2>2. CASE \/ Known \/ Open \/ AllLocated
             \/ \E n \in Lengths : Unknown(n) \/ Format(n)
    BY <2>2 DEF Known, Open, AllLocated, Unknown, Format, Located, NotLocated
  <2>3. CASE AllocStrings \/ Build \/ Built \/ FreeLocation \/ Fail \/ Show
    BY <2>3 DEF AllocStrings, Build, Built, FreeLocation, Fail, Show, Returns
  <2> QED
    BY <1>1, <1>2, <1>4, <2>1, <2>2, <2>3 DEF Step
<1>5. CASE \E n \in Sizes : SymbolsFd(n)
  BY <1>5 DEF SymbolsFd
<1> QED
  BY <1>3, <1>4, <1>5 DEF Next, Rename, vars

(* Whatever call fails at whatever frame, and even when something that was *)
(* not set has been used or freed, nothing stays allocated after the call, *)
(* as long as libbfd leaves no table when it finds no symbols.             *)
THEOREM NothingLeaks ==
  ASSUME "table" \notin Empty
  PROVE  Spec => []NoLeak
<1>1. Init => NoneLost
  BY DEF Init, NoneLost
<1>2. Held /\ NoneLost /\ [Next]_vars => NoneLost'
  BY NoneLostNext
<1>3. Held /\ NoneLost => NoLeak
  BY DEF Held, BlocksHeld, Owned, TextsHeld, Reading, NoneLost, NoLeak
<1> QED
  BY <1>1, <1>2, <1>3, HeldAlways, PTL DEF Spec

(* Whatever libbfd does, such tables are all that a call leaves.           *)
THEOREM TablesLeakAtMost == Spec => []OnlyTablesLeak
<1>1. Held => OnlyTablesLeak
  BY DEF OnlyTablesLeak, Held, BlocksHeld, Owned, TextsHeld, Reading
<1> QED
  BY <1>1, HeldAlways, PTL

(* The executable's name is never cut short, however often the file is     *)
(* renamed while xcp_readlink enlarges its buffer.                         *)
THEOREM NameIsWhole == Spec => []NameWhole
<1>1. Held => NameWhole
  BY DEF Held, NameRead, NameWhole
<1> QED
  BY <1>1, HeldAlways, PTL

-----------------------------------------------------------------------------
(* The failure path.                                                       *)

(* The failure path finds every element from `i' on set, and a lookup that *)
(* goes on has a table of symbols.                                         *)
AllSet ==
  /\ FailureReturns
  /\ pc = "fail"   => \A k \in i .. size - 1 : k \in DOMAIN locations
  /\ pc = "format" => "symbols" \in heap

(* That holds as long as neither asprintf nor the block of strings fails,  *)
(* and libbfd leaves a table whenever it reports no error.                 *)
LEMMA AllSetNext ==
  ASSUME Held, AllSet, [Next]_vars, "asprintf" \notin Failing, "strings" \notin Failing,
         "none" \notin Empty
  PROVE  AllSet'
<1> USE DEF call, look, out, AllSet, FailureReturns
<1>1. size \in Nat /\ i \in -1 .. size
  BY StackTraceAssumption DEF Held, TypeOK
<1>2. CASE pc' \notin {"fail", "undefined", "format"}
  BY <1>2
<1>3. CASE AllocLocations /\ pc' = "fail"
  BY <1>1, <1>3 DEF AllocLocations, Held, TextsHeld, Reading
<1>4. CASE NotLocated /\ pc \in {"open", "read", "dynamic", "format"} /\ UNCHANGED size
  <2>1. i \in 0 .. size - 1 /\ DOMAIN locations = i + 1 .. size - 1
    BY <1>1, <1>4 DEF Held, TextsHeld, Looking
  <2>2. DOMAIN locations' = DOMAIN locations \cup {i}
    BY <1>4, <2>1, SetElement DEF NotLocated, Held
  <2> QED
    BY <1>1, <1>4, <2>1, <2>2 DEF NotLocated
<1>5. CASE FreeLocation
  <2>1. i \in DOMAIN locations
    BY <1>1, <1>5 DEF FreeLocation, ToFree
  <2> QED
    BY <1>1, <1>5, <2>1 DEF FreeLocation
<1>6. CASE UNCHANGED <<pc, size, i, locations, heap>>
  BY <1>6
<1>7. CASE Step
  <2>1. CASE Open \/ ReadSymbols \/ ReadDynamic \/ \E n \in Lengths : Format(n)
    <3>1. pc \in {"open", "read", "dynamic", "format"} /\ UNCHANGED size
      BY <2>1 DEF Open, ReadSymbols, ReadDynamic, Format
    <3>2. Empty \subseteq {"table"}
      BY StackTraceAssumption
    <3>3. \/ NotLocated
          \/ pc' \in {"read", "dynamic", "frame"}
          \/ pc' = "format" /\ "symbols" \in heap'
      BY <2>1, <3>2 DEF Open, ReadSymbols, ReadDynamic, Unread, Format, Located
    <3> QED
      BY <3>1, <3>3, <1>2, <1>4
  <2>2. CASE AllocBuffer \/ Grow \/ ReadLink \/ ReadLinkFails
    BY <2>2, <1>2 DEF AllocBuffer, Grow, ReadLink, ReadLinkFails, Returns
  <2>3. CASE Known \/ AllLocated \/ AllocStrings \/ AllocLocations \/ \E n \in Lengths : Unknown(n)
    BY <2>3, <1>2, <1>3 DEF May, Known, AllLocated, AllocStrings, AllocLocations, Unknown, Located
  <2>4. CASE Build \/ Built \/ Fail \/ Show
    BY <2>4, <1>2 DEF Build, Built, Fail, Show, Returns
  <2> QED
    BY <1>5, <1>7, <2>1, <2>2, <2>3, <2>4 DEF Step
<1> QED
  BY <1>2, <1>6, <1>7 DEF Next, SymbolsFd, Rename, vars

(* Only what was set is used and freed, whatever else fails, if asprintf   *)
(* and the allocation of the strings do not fail, the two calls after      *)
(* which `i' is not on an element that holds something, and if libbfd      *)
(* leaves a table of symbols even when it finds none.                      *)
THEOREM FailureFreesTheSet ==
  ASSUME "asprintf" \notin Failing, "strings" \notin Failing, "none" \notin Empty
  PROVE  Spec => []FailureReturns
<1>1. Init => AllSet
  BY DEF Init, AllSet, FailureReturns
<1>2. Held /\ AllSet /\ [Next]_vars => AllSet'
  BY AllSetNext
<1>3. AllSet => FailureReturns
  BY DEF AllSet
<1> QED
  BY <1>1, <1>2, <1>3, HeldAlways, PTL DEF Spec

-----------------------------------------------------------------------------
(* How the lines are laid out.                                             *)

(* The width depends on the number of frames alone.                        *)
LEMMA WidthKept ==
  ASSUME size' = size
  PROVE  Width' = Width
BY DEF Width, SizeLength, Log10, Larger

(* Where nothing is summed up there is nothing to show.                    *)
LEMMA SummedNowhere ==
  ASSUME size \in Nat,
         pc \in Reading => charCount = 0 /\ data = 0,
         pc \notin Looking \cup {"strings"} \cup Writing
  PROVE  Summed
<1> DEFINE total == [k \in 0 .. size |-> 0]
<1>1. total \in [0 .. size -> Nat] /\ \A k \in 0 .. size : total[k] = 0
  OBVIOUS
<1> HIDE DEF total
<1> QED
  BY <1>1 DEF Summed

(* The same in the state a step leads to.                                  *)
LEMMA SummedNowhereNext ==
  ASSUME size' \in Nat,
         pc' \in Reading => charCount' = 0 /\ data' = 0,
         pc' \notin Looking \cup {"strings"} \cup Writing
  PROVE  Summed'
<1> DEFINE total == [k \in 0 .. size' |-> 0]
<1>1. total \in [0 .. size' -> Nat] /\ \A k \in 0 .. size' : total[k] = 0
  OBVIOUS
<1> HIDE DEF total
<1> QED
  BY <1>1 DEF Summed

(* A step that sums up nothing keeps the totals.                           *)
LEMMA SummedKept ==
  ASSUME Summed, UNCHANGED <<size, locations, charCount, data, i, j>>,
         \/ pc \in Looking /\ pc' \in Looking \cup {"strings"}
         \/ pc \in Writing /\ pc' \in Writing
         \/ pc' = pc
  PROVE  Summed'
BY WidthKept DEF Summed, Reading, Looking, Writing

(* A text that is located adds its room to the total of all frames from    *)
(* its own down.                                                           *)
LEMMA SummedLocated ==
  ASSUME Held, Held', Summed, NEW n \in Lengths, Located(n), pc \in {"frame", "format"},
         i >= 0, UNCHANGED <<call, out>>
  PROVE  Summed'
<1> USE DEF call, out
<1>1. size \in Nat /\ i \in 0 .. size - 1 /\ n \in Nat
  BY StackTraceAssumption DEF Held, TypeOK, TextsHeld, Looking
<1>2. PICK total \in [0 .. size -> Nat] :
        /\ total[size] = 0
        /\ \A k \in DOMAIN locations : total[k] = total[k + 1] + Room(locations[k])
        /\ \A k, l \in 0 .. size : k <= l => total[l] <= total[k]
        /\ charCount = total[i + 1] /\ data = 0
  BY DEF Summed, Looking
<1>3. /\ DOMAIN locations = i + 1 .. size - 1
      /\ DOMAIN locations' = DOMAIN locations \cup {i} /\ locations'[i] = n
      /\ \A k \in DOMAIN locations : k # i => locations'[k] = locations[k]
  BY <1>1, SetElement DEF Located, Held, TextsHeld, Looking
<1> DEFINE more == [k \in 0 .. size |-> IF k <= i THEN total[i + 1] + Room(n) ELSE total[k]]
<1>4. /\ more \in [0 .. size -> Nat] /\ more[size] = 0
      /\ \A k \in 0 .. i : more[k] = total[i + 1] + Room(n)
      /\ \A k \in i + 1 .. size : more[k] = total[k] /\ total[k] <= total[i + 1]
  BY <1>1, <1>2 DEF Room
<1> HIDE DEF more
<1>5. \A k, l \in 0 .. size : k <= l => more[l] <= more[k]
  <2> SUFFICES ASSUME NEW k \in 0 .. size, NEW l \in 0 .. size, k <= l
               PROVE  more[l] <= more[k]
    OBVIOUS
  <2>1. total[i + 1] \in Nat /\ total[k] \in Nat /\ total[l] \in Nat /\ total[l] <= total[k]
    BY <1>1, <1>2
  <2>2. CASE l \in 0 .. i
    BY <1>1, <1>4, <2>1, <2>2 DEF Room
  <2>3. CASE l \in i + 1 .. size
    BY <1>1, <1>4, <2>1, <2>3 DEF Room
  <2> QED
    BY <1>1, <2>2, <2>3
<1>6. \A k \in DOMAIN locations' : more[k] = more[k + 1] + Room(locations'[k])
  <2> SUFFICES ASSUME NEW k \in DOMAIN locations'
               PROVE  more[k] = more[k + 1] + Room(locations'[k])
    OBVIOUS
  <2>1. CASE k = i
    <3>1. i \in 0 .. i /\ i + 1 \in i + 1 .. size
      BY <1>1
    <3> QED
      BY <1>3, <1>4, <2>1, <3>1
  <2>2. CASE k \in i + 1 .. size - 1
    <3>1. k \in i + 1 .. size /\ k + 1 \in i + 1 .. size /\ k # i /\ k \in DOMAIN locations
      BY <1>1, <1>3, <2>2
    <3> QED
      BY <1>2, <1>3, <1>4, <3>1
  <2> QED
    BY <1>3, <2>1, <2>2
<1>7. charCount' = more[i' + 1] /\ data' = 0 /\ pc' = "frame" /\ size' = size
  BY <1>1, <1>2, <1>4 DEF Located
<1> QED
  BY <1>4, <1>5, <1>6, <1>7 DEF Summed, Reading, Looking, Writing

(* AllocStrings and Build: the room of the numbers is added to what is     *)
(* summed up, and a line takes the room its frame was given.               *)
LEMMA SummedWritten ==
  ASSUME Held, Held', Summed, AllocStrings \/ Build
  PROVE  Summed'
<1> USE DEF call, look, out
<1>1. size \in Nat /\ Width \in Nat
  BY StackTraceAssumption, NumberType DEF Held, TypeOK, Width
<1>2. CASE AllocStrings /\ pc' = "build"
  <2>1. PICK total \in [0 .. size -> Nat] :
          /\ total[size] = 0
          /\ \A k \in DOMAIN locations : total[k] = total[k + 1] + Room(locations[k])
          /\ \A k, l \in 0 .. size : k <= l => total[l] <= total[k]
          /\ charCount = total[i + 1] /\ data = 0
    BY <1>2 DEF Summed, AllocStrings
  <2>2. i = -1
    BY <1>2 DEF AllocStrings, Held, TextsHeld
  <2>3. charCount' = total[0] + Width * size
    BY <1>2, <2>1, <2>2 DEF AllocStrings, Width
  <2>4. data' = total[j' + 1] + Width * (size - (j' + 1))
    BY <1>1, <1>2, <2>1 DEF AllocStrings
  <2>5. UNCHANGED <<size, locations>> /\ Width' = Width
    BY <1>2, WidthKept DEF AllocStrings
  <2> QED
    BY <1>2, <2>1, <2>3, <2>4, <2>5 DEF Summed, Reading, Looking, Writing
<1>3. CASE AllocStrings /\ pc' = "fail"
  BY <1>1, <1>3, SummedNowhereNext DEF AllocStrings, Reading, Looking, Writing
<1>4. CASE Build
  <2>1. PICK total \in [0 .. size -> Nat] :
          /\ total[size] = 0
          /\ \A k \in DOMAIN locations : total[k] = total[k + 1] + Room(locations[k])
          /\ \A k, l \in 0 .. size : k <= l => total[l] <= total[k]
          /\ charCount = total[0] + Width * size
          /\ data = total[j + 1] + Width * (size - (j + 1))
    BY <1>4 DEF Summed, Build, Writing
  <2>2. j \in 0 .. size - 1 /\ j \in DOMAIN locations /\ locations[j] \in Nat
    BY <1>1, <1>4 DEF Build, Held, TypeOK, TextsHeld, Writing
  <2>3. NumberLength(j) = Width
    BY <1>1, <2>2, NumberType DEF Width
  <2>4. data' = data + Width + locations[j] + 1 /\ j' = j - 1
    BY <1>4, <2>3 DEF Build
  <2>5. total[j] = total[j + 1] + locations[j] + 1 /\ total[j + 1] \in Nat
    <3>1. j + 1 \in 0 .. size
      BY <1>1, <2>2
    <3>2. total[j + 1] \in Nat
      BY <3>1
    <3>3. total[j] = total[j + 1] + Room(locations[j])
      BY <2>1, <2>2
    <3> QED
      BY <2>2, <3>2, <3>3 DEF Room
  <2>6. data' = total[j' + 1] + Width * (size - (j' + 1))
    <3>1. PICK before \in Int : before = Width * (size - (j + 1))
      BY <1>1, <2>2
    <3>2. Width * (size - j) = before + Width
      BY <1>1, <2>2, <3>1
    <3>3. data = total[j + 1] + before
      BY <2>1, <3>1
    <3>4. data' = total[j] + (before + Width)
      <4>1. PICK t \in Nat, l \in Nat, w \in Nat : t = total[j + 1] /\ l = locations[j] /\ w = Width
        BY <1>1, <2>2, <2>5
      <4>2. data' = ((t + before) + w + l) + 1 /\ total[j] = t + l + 1
        BY <2>4, <2>5, <3>3, <4>1
      <4> QED
        BY <3>1, <4>1, <4>2
    <3>5. j' + 1 = j
      BY <2>2, <2>4
    <3> QED
      BY <3>2, <3>4, <3>5
  <2>7. UNCHANGED <<pc, size, locations, charCount>> /\ Width' = Width
    BY <1>4, WidthKept DEF Build
  <2> QED
    <3>1. pc' = "build"
      BY <1>4, <2>7 DEF Build
    <3> QED
      BY <2>1, <2>6, <2>7, <3>1 DEF Summed, Reading, Looking, Writing
<1> QED
  BY <1>2, <1>3, <1>4 DEF AllocStrings

(* Every step keeps the totals.                                            *)
LEMMA SummedNext ==
  ASSUME Held, Held', Summed, [Next]_vars
  PROVE  Summed'
<1> USE DEF call, look, out
<1>1. size \in Nat /\ size' \in Nat
  BY StackTraceAssumption DEF Held, TypeOK
<1>2. CASE pc' \notin Reading \cup Looking \cup {"strings"} \cup Writing
  BY <1>1, <1>2, SummedNowhereNext
<1>3. CASE \E n \in Sizes : SymbolsFd(n)
  BY <1>1, <1>3, SummedNowhereNext DEF SymbolsFd, Reading, Looking, Writing
<1>4. CASE UNCHANGED <<pc, size, locations, charCount, data, i, j>>
  BY <1>4, SummedKept
<1>5. CASE AllocBuffer \/ Grow \/ ReadLink \/ ReadLinkFails
  <2>1. pc \in Reading /\ UNCHANGED <<charCount, data>> /\ pc' \in Reading \cup {"idle"}
    BY <1>5 DEF AllocBuffer, Grow, ReadLink, ReadLinkFails, Returns, Reading
  <2>2. charCount = 0 /\ data = 0
    BY <2>1 DEF Summed
  <2> QED
    BY <1>1, <2>1, <2>2, SummedNowhereNext DEF Reading, Looking, Writing
<1>6. CASE AllocLocations
  <2>1. charCount = 0 /\ data = 0 /\ DOMAIN locations = {}
    BY <1>6 DEF AllocLocations, Summed, Held, TextsHeld, Reading
  <2>2. CASE pc' = "fail"
    BY <2>2, <1>2 DEF Reading, Looking, Writing
  <2>3. CASE pc' = "frame"
    <3> DEFINE total == [k \in 0 .. size |-> 0]
    <3>1. total \in [0 .. size -> Nat] /\ \A k \in 0 .. size : total[k] = 0
      OBVIOUS
    <3> HIDE DEF total
    <3>2. UNCHANGED <<size, locations, charCount, data>> /\ i' + 1 = size
      BY <1>1, <1>6, <2>3 DEF AllocLocations
    <3> QED
      BY <1>1, <2>1, <2>3, <3>1, <3>2 DEF Summed, Reading, Looking, Writing
  <2> QED
    BY <1>6, <2>2, <2>3 DEF AllocLocations
<1>7. CASE Known \/ Open \/ ReadSymbols \/ ReadDynamic \/ AllLocated \/ Built
  <2>1. CASE pc' = "fail"
    BY <2>1, <1>2 DEF Reading, Looking, Writing
  <2>2. CASE pc' # "fail"
    <3>1. UNCHANGED <<size, locations, charCount, data, i, j>>
      BY <1>7, <2>2 DEF Known, Open, ReadSymbols, ReadDynamic, Unread, AllLocated, Built, NotLocated
    <3>2. \/ pc \in Looking /\ pc' \in Looking \cup {"strings"}
          \/ pc \in Writing /\ pc' \in Writing
      BY <1>7, <2>2
         DEF Known, Open, ReadSymbols, ReadDynamic, Unread, AllLocated, Built, NotLocated, Looking,
             Writing
    <3> QED
      BY <3>1, <3>2, SummedKept
  <2> QED
    BY <2>1, <2>2
<1>8. ASSUME NEW n \in Lengths, Unknown(n) \/ Format(n) PROVE Summed'
  <2>1. pc \in {"frame", "format"} /\ i >= 0 /\ UNCHANGED <<call, out>>
    BY <1>8 DEF Unknown, Format, Held, TextsHeld
  <2>2. Located(n) \/ pc' \in {"fail", "undefined"}
    BY <1>8 DEF Unknown, Format, NotLocated
  <2> QED
    BY <1>2, <2>1, <2>2, SummedLocated DEF Reading, Looking, Writing
<1>9. CASE FreeLocation \/ Fail \/ Show
  BY <1>2, <1>9 DEF FreeLocation, Fail, Show, Returns, Reading, Looking, Writing
<1> QED
  BY <1>3, <1>4, <1>5, <1>6, <1>7, <1>8, <1>9, SummedWritten DEF Next, Step, Rename, vars

(* A line is written behind all that were written before it.               *)
LEMMA ApartNext ==
  ASSUME Held, Held', Apart, [Next]_vars
  PROVE  Apart'
<1> USE DEF call, look, out
<1>1. size \in Nat /\ Width \in Nat /\ data \in Nat
  BY StackTraceAssumption, NumberType DEF Held, TypeOK, Width
<1>2. CASE \E n \in Sizes : SymbolsFd(n)
  BY <1>2 DEF SymbolsFd, None, Apart, Writing
<1>3. CASE Build
  <2>1. /\ j \in 0 .. size - 1 /\ j \in DOMAIN locations /\ locations[j] \in Nat
        /\ DOMAIN strings = j + 1 .. size - 1 /\ DOMAIN locations = 0 .. size - 1
    BY <1>1, <1>3 DEF Build, Held, TypeOK, TextsHeld, Writing
  <2>2. data' = data + Width + locations[j] + 1 /\ Width' = Width
    <3>1. NumberLength(j) = Width
      BY <1>1, <2>1, NumberType DEF Width
    <3> QED
      BY <1>3, <3>1, WidthKept DEF Build
  <2>3. /\ DOMAIN strings' = DOMAIN strings \cup {j} /\ strings'[j] = data
        /\ \A k \in DOMAIN strings : strings'[k] = strings[k] /\ k > j
    BY <1>3, <2>1 DEF Build
  <2>4. \A k \in DOMAIN strings : strings[k] \in Nat /\ locations[k] \in Nat
    BY <1>1, <1>3, <2>1 DEF Build, Held, TypeOK, TextsHeld, Writing
  <2>5. \A l \in DOMAIN strings : strings[l] + Width + locations[l] + 1 <= data
    BY <1>3 DEF Build, Apart, Writing
  <2>6. \A l \in DOMAIN strings' : strings'[l] + Width + locations[l] + 1 <= data'
    BY <1>1, <2>1, <2>2, <2>3, <2>4, <2>5
  <2>7. \A k, l \in DOMAIN strings' :
          k < l => strings'[l] + Width + locations[l] + 1 <= strings'[k]
    BY <1>1, <2>1, <2>3, <2>4, <2>5 DEF Apart
  <2>8. UNCHANGED <<pc, locations>>
    BY <1>3 DEF Build
  <2> QED
    BY <2>2, <2>6, <2>7, <2>8 DEF Apart
<1>4. CASE UNCHANGED <<strings, locations, size, data>> /\ (pc' \in Writing => pc \in Writing)
  BY <1>4, WidthKept DEF Apart
<1>5. CASE DOMAIN strings' = {}
  BY <1>5 DEF Apart
<1>6. CASE pc \notin {"build", "show", "idle"}
  <2>1. DOMAIN strings = {}
    BY <1>6 DEF Held, TextsHeld, Writing
  <2>2. strings' = strings
    BY <1>6 DEF Next, SymbolsFd, Rename, Step, vars, AllocBuffer, Grow, ReadLink, ReadLinkFails,
       AllocLocations, Unknown, Format, Known, Open, ReadSymbols, ReadDynamic, AllLocated, AllocStrings,
       Build, Built, FreeLocation, Fail, Show, Returns
  <2> QED
    BY <1>5, <2>1, <2>2
<1>7. CASE Built \/ Show
  BY <1>4, <1>7 DEF Built, Show, Returns, Writing
<1>8. CASE UNCHANGED vars \/ \E n \in Links : Rename(n)
  BY <1>4, <1>8 DEF vars, Rename
<1>9. CASE pc \in {"build", "show", "idle"} /\ Step
  BY <1>3, <1>7, <1>9
     DEF Step, AllocBuffer, Grow, ReadLink, ReadLinkFails, AllocLocations, Unknown, Format,
         Known, Open, ReadSymbols, ReadDynamic, AllLocated, AllocStrings, FreeLocation, Fail
<1> QED
  BY <1>2, <1>6, <1>8, <1>9 DEF Next

(* The lines stay in the block, follow each other and fill it exactly:     *)
(* what is summed up while the frames are looked up is what is written,    *)
(* for every number of frames, of whatever number of digits.               *)
THEOREM LinesFitTheBlock == Spec => []LinesFit
<1>1. Init => Summed /\ Apart
  <2> SUFFICES ASSUME Init PROVE Summed /\ Apart
    OBVIOUS
  <2>1. size = 0 /\ pc = "idle" /\ DOMAIN strings = {}
    BY DEF Init, None
  <2> QED
    BY <2>1, SummedNowhere DEF Apart, Reading, Looking, Writing
<1>2. Held /\ Held' /\ Summed /\ Apart /\ [Next]_vars => Summed' /\ Apart'
  BY SummedNext, ApartNext
<1>3. Held /\ Summed /\ Apart => LinesFit
  <2> SUFFICES ASSUME Held, Summed, Apart PROVE LinesFit
    OBVIOUS
  <2>1. size \in Nat /\ Width \in Nat
    BY StackTraceAssumption, NumberType DEF Held, TypeOK, Width
  <2>2. ASSUME pc \in Writing
        PROVE  data <= charCount /\ (pc = "show" => data = charCount)
    <3>1. PICK total \in [0 .. size -> Nat] :
            /\ \A k, l \in 0 .. size : k <= l => total[l] <= total[k]
            /\ charCount = total[0] + Width * size
            /\ data = total[j + 1] + Width * (size - (j + 1))
      BY <2>2 DEF Summed
    <3>2. j \in -1 .. size - 1 /\ (pc = "show" => j = -1)
      BY DEF Held, TypeOK, TextsHeld
    <3>3. j + 1 \in 0 .. size /\ 0 \in 0 .. size /\ 0 <= j + 1
      BY <2>1, <3>2
    <3>4. total[j + 1] <= total[0] /\ total[j + 1] \in Nat /\ total[0] \in Nat
      BY <3>1, <3>3
    <3>5. PICK rest \in Nat : rest = Width * (j + 1)
      BY <2>1, <3>3
    <3>6. Width * size = Width * (size - (j + 1)) + rest /\ Width * (size - (j + 1)) \in Nat
      BY <2>1, <3>2, <3>5
    <3>7. data <= charCount
      BY <3>1, <3>4, <3>5, <3>6
    <3>8. CASE pc = "show"
      <4>1. j + 1 = 0 /\ size - (j + 1) = size
        BY <2>1, <3>2, <3>8
      <4> QED
        BY <3>1, <3>7, <4>1
    <3> QED
      BY <3>7, <3>8
  <2>3. \A l \in DOMAIN strings : NumberLength(l) = Width
    BY <2>1, NumberType DEF Held, TypeOK, Width
  <2> QED
    BY <2>2, <2>3 DEF LinesFit, Apart, Writing
<1> QED
  BY <1>1, <1>2, <1>3, HeldAlways, PTL DEF Spec
=============================================================================
