----------------------------- MODULE StackTrace -----------------------------
(***************************************************************************)
(* xcp_stacktrace_symbols_fd of src/src/stacktrace/stacktrace.c with       *)
(* stacktrace_symbols of platform/bfd-stacktrace.c and xcp_readlink of     *)
(* src/src/file.c: what they allocate and free on every path, and how the  *)
(* strings are laid out in one block.                                      *)
(*                                                                         *)
(* Texts are represented by their lengths.  The target of /proc/self/exe   *)
(* changes when the program's file is renamed.                             *)
(***************************************************************************)
EXTENDS Integers, FiniteSets

CONSTANTS
  Sizes,      \* numbers of frames a caller asks for
  Lengths,    \* lengths a line of the trace has without its number
  Links,      \* lengths the target of /proc/self/exe has
  Failing,    \* the calls that may fail
  Empty       \* what libbfd leaves when it finds no symbols: a table of none, or nothing

ASSUME StackTraceAssumption ==
  /\ Sizes \subseteq Nat
  /\ \A n \in Sizes : n \div 2 < 2 ^ 30      \* the loops count the frames with an int
  /\ Lengths \subseteq Nat /\ Links \subseteq Nat
  /\ Failing \subseteq {"malloc", "realloc", "readlink", "bfd", "asprintf", "strings"}
  /\ Empty \subseteq {"table", "none"}

NULL == -1

VARIABLES
  pc,         \* where the call stands, or "idle", or "undefined" after a bad use or free
  size,       \* the argument
  exe,        \* length of the link's target
  bufSize,    \* of the buffer of xcp_readlink
  self,       \* length of the name that xcp_readlink has returned
  seen,       \* history: length of the target when that name was read
  heap,       \* the single blocks that are allocated; "lost" are the tables without a pointer
  texts,      \* the frames whose text is allocated
  locations,  \* what the elements of the array that were set hold
  i,          \* the frame that is looked up, then the first that is freed
  charCount,
  strings,    \* where the lines that were written start
  j,          \* the frame that is written
  data        \* how far the block is filled

call == <<size, bufSize, self, seen>>
look == <<locations, i, charCount>>
out  == <<strings, j, data>>
vars == <<pc, exe, call, heap, texts, look, out>>

Blocks == {"self", "locations", "bin", "symbols", "lost", "strings"}

TypeOK ==
  /\ pc \in {"idle", "buffer", "link", "locations", "frame", "open", "read", "dynamic", "format",
             "strings", "build", "fail", "show", "undefined"}
  /\ size \in Sizes \cup {0} /\ exe \in Links /\ bufSize \in Nat
  /\ self \in Nat /\ seen \in Links \cup {0}
  /\ heap \subseteq Blocks /\ texts \subseteq 0 .. size - 1
  /\ DOMAIN locations \subseteq 0 .. size - 1
  /\ \A k \in DOMAIN locations : locations[k] \in Lengths \cup {NULL}
  /\ i \in -1 .. size /\ j \in -1 .. size - 1 /\ charCount \in Nat /\ data \in Nat
  /\ DOMAIN strings \subseteq 0 .. size - 1
  /\ \A k \in DOMAIN strings : strings[k] \in Nat

None == [k \in {} |-> 0]

Init ==
  /\ pc = "idle" /\ size = 0 /\ exe \in Links /\ bufSize = 0 /\ self = 0 /\ seen = 0
  /\ heap = {} /\ texts = {}
  /\ locations = None /\ i = 0 /\ charCount = 0
  /\ strings = None /\ j = -1 /\ data = 0

May(f) == f \in Failing

(* The program's file is renamed.                                          *)
Rename(n) == n # exe /\ exe' = n /\ UNCHANGED <<pc, call, heap, texts, look, out>>

(* xcp_stacktrace_symbols_fd(buffer, size, fd) is called.                  *)
SymbolsFd(n) ==
  /\ pc = "idle"
  /\ pc' = "buffer" /\ size' = n
  /\ bufSize' = 0 /\ self' = 0 /\ seen' = 0
  /\ locations' = None /\ i' = n /\ charCount' = 0
  /\ strings' = None /\ j' = -1 /\ data' = 0
  /\ UNCHANGED <<exe, heap, texts>>

(* It returns, with -1 when there are no strings.                          *)
Returns(blocks) ==
  /\ pc' = "idle" /\ heap' = heap \ blocks
  /\ UNCHANGED <<exe, call, texts, look, out>>

-----------------------------------------------------------------------------
(* xcp_readlink("/proc/self/exe").                                         *)

AllocBuffer ==
  /\ pc = "buffer"
  /\ \/ /\ pc' = "link" /\ bufSize' = 16 /\ heap' = heap \cup {"self"}
        /\ UNCHANGED <<exe, size, self, seen, texts, look, out>>
     \/ /\ May("malloc") /\ Returns({})

(* readlink, which stores the first bytes of the target that fit; when it  *)
(* fills the buffer, there may be more.                                    *)
Stored == IF exe < bufSize - 1 THEN exe ELSE bufSize - 1

Full_Never == Stored = bufSize

Full == Stored = bufSize - 1

Grow ==
  /\ pc = "link" /\ Full
  /\ \/ /\ bufSize' = 2 * bufSize
        /\ UNCHANGED <<pc, exe, size, self, seen, heap, texts, look, out>>
     \/ /\ May("realloc") /\ Returns({"self"})

ReadLink ==
  /\ pc = "link" /\ ~Full
  /\ pc' = "locations" /\ self' = Stored /\ seen' = exe
  /\ UNCHANGED <<exe, size, bufSize, heap, texts, look, out>>

ReadLinkFails ==
  /\ pc = "link" /\ May("readlink")
  /\ Returns({"self"})

-----------------------------------------------------------------------------
(* stacktrace_symbols, 2: a text for each frame, from the last to the      *)
(* first.                                                                  *)

AllocLocations ==
  /\ pc = "locations"
  /\ \/ /\ pc' = "frame" /\ heap' = heap \cup {"locations"} /\ i' = size - 1
        /\ UNCHANGED <<exe, call, texts, locations, charCount, out>>
     \/ /\ May("malloc") /\ pc' = "fail"
        /\ UNCHANGED <<exe, call, heap, texts, look, out>>

(* What a text of length n, with its NUL, adds to the block of strings.    *)
Room_NoNul(n) == n

Room(n) == n + 1

Set(value) == locations' = [k \in DOMAIN locations \cup {i} |-> IF k = i THEN value ELSE locations[k]]

(* locations[i] is set to a text of length n, and the loop goes on.        *)
Located(n) ==
  /\ Set(n)
  /\ texts' = texts \cup {i}
  /\ charCount' = charCount + Room(n)
  /\ i' = i - 1 /\ pc' = "frame"

(* locations[i] is set to NULL: goto fail.                                 *)
NotLocated_Unset ==
  /\ pc' = "fail" /\ UNCHANGED <<locations, texts, i, charCount>>

NotLocated ==
  /\ Set(NULL)
  /\ pc' = "fail" /\ UNCHANGED <<texts, i, charCount>>

(* No object has the address: asprintf makes the text.  When it fails      *)
(* locations[i] is not set.                                                *)
Unknown(n) ==
  /\ pc = "frame" /\ i >= 0
  /\ \/ Located(n)
     \/ May("asprintf") /\ pc' = "fail" /\ UNCHANGED <<texts, look>>
  /\ UNCHANGED <<exe, call, heap, out>>

(* An object has it: physical_addr_to_str_from_file.                       *)
Known ==
  /\ pc = "frame" /\ i >= 0
  /\ pc' = "open" /\ UNCHANGED <<exe, call, heap, texts, look, out>>

Open ==
  /\ pc = "open"
  /\ \/ /\ pc' = "read" /\ heap' = heap \cup {"bin"} /\ UNCHANGED <<texts, look>>
     \/ /\ May("bfd") /\ NotLocated /\ UNCHANGED heap
  /\ UNCHANGED <<exe, call, out>>

(* bfd_check_format and read_symbols, with two calls of                    *)
(* bfd_read_minisymbols: for the static symbols, and when there are none   *)
(* for the dynamic ones.  `symbols' points to the table that the last call *)
(* has left, and to nothing, being unset, as long as no call has left one. *)
NoSymbols_Leaks == {}

NoSymbols == {"bin"}

(* The file is of another format, has no symbols, or cannot be read.       *)
Unread == May("bfd") /\ NotLocated

ReadSymbols ==
  /\ pc = "read"
  /\ \/ /\ pc' = "format" /\ heap' = heap \cup {"symbols"} /\ UNCHANGED <<texts, look>>
     \/ /\ pc' = "dynamic" /\ UNCHANGED <<texts, look>>
        /\ \E e \in Empty : heap' = heap \cup (IF e = "table" THEN {"symbols"} ELSE {})
     \/ Unread /\ heap' = heap \ NoSymbols
  /\ UNCHANGED <<exe, call, out>>

(* The table of the first call loses its pointer, when there is one.       *)
Lost == {b \in {"lost"} : "symbols" \in heap}

(* Finding none again is no error.                                         *)
ReadDynamic ==
  /\ pc = "dynamic"
  /\ \/ /\ pc' = "format" /\ UNCHANGED <<texts, look>>
        /\ \/ heap' = heap \cup Lost \cup {"symbols"}
           \/ "none" \in Empty /\ UNCHANGED heap
     \/ Unread /\ heap' = ((heap \cup Lost) \ {"symbols"}) \ NoSymbols
  /\ UNCHANGED <<exe, call, out>>

(* physical_address_to_str_from_syms, and what is released after it.  With *)
(* `symbols' unset both use any address, which is harmless at most by      *)
(* chance.                                                                 *)
Format(n) ==
  /\ pc = "format"
  /\ \/ /\ Located(n) \/ (May("malloc") /\ NotLocated)
        /\ heap' = heap \ {"symbols", "bin"}
     \/ /\ "symbols" \notin heap
        /\ pc' = "undefined" /\ UNCHANGED <<heap, texts, look>>
  /\ UNCHANGED <<exe, call, out>>

AllLocated ==
  /\ pc = "frame" /\ i < 0
  /\ pc' = "strings" /\ UNCHANGED <<exe, call, heap, texts, look, out>>

-----------------------------------------------------------------------------
(* stacktrace_symbols, 3: one block of strings.                            *)

(* The integral part of the logarithm: the powers of ten up to n.          *)
Log10(n) == Cardinality({e \in 1 .. 9 : 10 ^ e \in 1 .. n})

Larger(a, b) == IF a > b THEN a ELSE b

(* With no frame, size - 1 is the largest size_t, whose logarithm is 19.   *)
SizeLength == (IF size = 0 THEN 19 ELSE Log10(Larger(1, size - 1))) + 2

(* The length of "#%-*u" for frame k.                                      *)
NumberLength(k) == 1 + Larger(SizeLength, 1 + Log10(Larger(1, k)))

AllocStrings ==
  /\ pc = "strings"
  /\ charCount' = charCount + (SizeLength + 1) * size
  /\ \/ /\ pc' = "build" /\ heap' = heap \cup {"strings"} /\ j' = size - 1
        /\ UNCHANGED <<strings, data>>
     \/ /\ May("strings") /\ pc' = "fail" /\ UNCHANGED <<heap, out>>
  /\ UNCHANGED <<exe, call, texts, locations, i>>

Build ==
  /\ pc = "build" /\ j >= 0
  /\ strings' = [k \in DOMAIN strings \cup {j} |-> IF k = j THEN data ELSE strings[k]]
  /\ data' = data + NumberLength(j) + locations[j] + 1
  /\ texts' = texts \ {j}
  /\ j' = j - 1
  /\ UNCHANGED <<pc, exe, call, heap, look>>

Built ==
  /\ pc = "build" /\ j < 0
  /\ pc' = "show" /\ heap' = heap \ {"locations", "self"}
  /\ UNCHANGED <<exe, call, texts, look, out>>

(* fail: the elements from i on are freed.  One that was never set holds   *)
(* anything, and locations[-1] is not an element: freeing those is         *)
(* undefined, if harmless when the word happens to be NULL.                *)
ToFree_Past == i <= size

ToFree == i < size

FreeLocation ==
  /\ pc = "fail" /\ ToFree
  /\ IF i \in DOMAIN locations
     THEN texts' = texts \ {i} /\ UNCHANGED pc
     ELSE pc' \in {"fail", "undefined"} /\ UNCHANGED texts
  /\ i' = i + 1
  /\ UNCHANGED <<exe, call, heap, locations, charCount, out>>

Fail ==
  /\ pc = "fail" /\ ~ToFree
  /\ Returns({"locations", "self"})

(* xcp_stacktrace_symbols_fd prints the strings and frees them.            *)
Show ==
  /\ pc = "show"
  /\ Returns({"strings"})

Step ==
  \/ AllocBuffer \/ Grow \/ ReadLink \/ ReadLinkFails \/ AllocLocations
  \/ \E n \in Lengths : Unknown(n) \/ Format(n)
  \/ Known \/ Open \/ ReadSymbols \/ ReadDynamic \/ AllLocated
  \/ AllocStrings \/ Build \/ Built \/ FreeLocation \/ Fail \/ Show

Next ==
  \/ \E n \in Sizes : SymbolsFd(n)
  \/ \E n \in Links : Rename(n)
  \/ Step

Spec == Init /\ [][Next]_vars
-----------------------------------------------------------------------------
(* Properties.                                                             *)

(* "if (!strings) return 0;" (stacktrace.h 56-57): when the strings cannot *)
(* be made the caller gets NULL and goes on, so whatever call fails and    *)
(* whatever an object file lacks, only what was set is used and freed      *)
(* (bfd-stacktrace.c 144-145 and 251-255).                                 *)
FailureReturns == pc # "undefined"

(* "free(strings);" (stacktrace.h 62) is all a caller has to release: when *)
(* _symbols_fd, which does that, has returned, nothing stays allocated and *)
(* no object file stays open.  This is so if libbfd makes no table when it *)
(* finds no symbols.                                                       *)
NoLeak == pc = "idle" => heap = {} /\ texts = {}

(* What is true of it with every libbfd and whatever call fails at         *)
(* whatever frame: only a table of static symbols stays allocated, of an   *)
(* object file that has none, whose pointer the call for the dynamic ones  *)
(* has overwritten (bfd-stacktrace.c 76-78).  The object file, the last    *)
(* table, the texts found so far and the block of strings do not (139-148, *)
(* 245-255).                                                               *)
OnlyTablesLeak == pc = "idle" => heap \subseteq {"lost"} /\ texts = {}

(* The name of the executable is never cut short, however its length       *)
(* changes between two readlinks (file.c 41-49): the object file opened    *)
(* for a frame of the binary is the one the link named.                    *)
NameWhole == self = seen

(* The lines stay in the block, follow each other without overlap and fill *)
(* it exactly: the length summed up frame by frame at lines 203, 220 and   *)
(* 229 is the length written at 238-241, for numbers of one digit and of   *)
(* more.  The last conjunct is the assertion of line 244.                  *)
LinesFit ==
  /\ pc \in {"build", "show"} => data <= charCount
  /\ \A k, l \in DOMAIN strings :
       k < l => strings[l] + NumberLength(l) + locations[l] + 1 <= strings[k]
  /\ pc = "show" => data = charCount
=============================================================================
