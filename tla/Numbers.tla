------------------------------ MODULE Numbers -------------------------------
(***************************************************************************)
(* The pure functions and macros of endian.h, math.h and algorithm.h.      *)
(*                                                                         *)
(* A byte is a digit in base Base, so that the eight bytes of a uint64_t   *)
(* make a number TLC can handle; a width is a number of bytes, and a       *)
(* memory is a sequence of bytes.  The bitwise macros of math.h work on    *)
(* XBits bits, the type of X, with a Y of YBits bits.                      *)
(***************************************************************************)
EXTENDS Integers, Sequences, FiniteSetsExt

CONSTANTS
  Base,           \* 256
  XBits, YBits    \* widths of two unsigned types, 64 and 32, say

ASSUME NumberAssumption ==
  /\ Base \in Nat /\ Base % 2 = 0 /\ Base > 0
  /\ XBits \in Nat /\ YBits \in 1 .. XBits

-----------------------------------------------------------------------------
(* Positional numbers.                                                     *)

Power(b, n) ==
  LET power[k \in 0 .. n] == IF k = 0 THEN 1 ELSE b * power[k - 1]
  IN  power[n]

(* f[0] + ... + f[n - 1].                                                  *)
SumUpTo(f, n) ==
  LET sum[k \in 0 .. n] == IF k = 0 THEN 0 ELSE sum[k - 1] + f[k - 1]
  IN  sum[n]

(* The number whose digit k in base b is f[k], and digit k of a number,    *)
(* which for a negative one is that of its two's complement.               *)
Composed(f, b, n) == SumUpTo([k \in 0 .. n - 1 |-> f[k] * Power(b, k)], n)

Digit(x, b, k) == (x \div Power(b, k)) % b

-----------------------------------------------------------------------------
(* endian.h.                                                               *)

ByteOrder == "little"

Size(width) == Power(Base, width)

Byte(src, k) == Digit(src, Base, k)

(* Each byte k of src is masked and shifted by shifts[k + 1] bytes; the    *)
(* disjunction of the results is their sum, as no two overlap.             *)
Moved(src, shifts) ==
  SumUpTo([k \in 0 .. Len(shifts) - 1 |-> Byte(src, k) * Size(k + shifts[k + 1])], Len(shifts))

SwapU16(src) == Moved(src, <<1, -1>>)

SwapU32_Halves(src) == Moved(src, <<1, -1, 1, -1>>)

SwapU32(src) == Moved(src, <<3, 1, -1, -3>>)

SwapU64(src) == Moved(src, <<7, 5, 3, 1, -1, -3, -5, -7>>)

Swap(src, width) ==
  CASE width = 2 -> SwapU16(src)
    [] width = 4 -> SwapU32(src)
    [] width = 8 -> SwapU64(src)

(* The conversions between a signed type and the unsigned one.             *)
ToUnsigned(src, width) == src % Size(width)

ToSigned(src, width) == IF 2 * src < Size(width) THEN src ELSE src - Size(width)

FromLeU(src, width) == IF ByteOrder = "big" THEN Swap(src, width) ELSE src

FromBeU(src, width) == IF ByteOrder = "little" THEN Swap(src, width) ELSE src

FromLe(src, width) == ToSigned(FromLeU(ToUnsigned(src, width), width), width)

FromBe(src, width) == ToSigned(FromBeU(ToUnsigned(src, width), width), width)

(* The forms for a pointer store the result where they found the source,   *)
(* in the byte order of the host, and return it.                           *)
Load(memory) ==
  LET n == Len(memory)
  IN  Composed([k \in 0 .. n - 1 |-> memory[IF ByteOrder = "little" THEN k + 1 ELSE n - k]], Base, n)

Store(value, width) ==
  [k \in 1 .. width |-> Byte(value, IF ByteOrder = "little" THEN k - 1 ELSE width - k)]

InPlace(value, memory) == [returned |-> value, memory |-> Store(value, Len(memory))]

FromLeUP(memory) == InPlace(FromLeU(Load(memory), Len(memory)), memory)

FromBeUP(memory) == InPlace(FromBeU(Load(memory), Len(memory)), memory)

FromLeP(memory) == InPlace(FromLe(Load(memory), Len(memory)), memory)

FromBeP(memory) == InPlace(FromBe(Load(memory), Len(memory)), memory)

(* The macros that convert to a byte order.                                *)
ToLeU(src, width) == FromLeU(src, width)

ToBeU(src, width) == FromBeU(src, width)

ToLe(src, width) == FromLe(src, width)

ToBe(src, width) == FromBe(src, width)

-----------------------------------------------------------------------------
(* math.h, with an X of an unsigned type not narrower than int.            *)

Wrapped(value) == value % Power(2, XBits)

(* The operators on the bits of the type of X: x as a set of bits, and the *)
(* value of one.                                                           *)
BitsOf(x) == {k \in 0 .. XBits - 1 : Digit(x, 2, k) = 1}

Word(bits) == Composed([k \in 0 .. XBits - 1 |-> IF k \in bits THEN 1 ELSE 0], 2, XBits)

And(x, y) == Word(BitsOf(x) \cap BitsOf(y))

Or(x, y) == Word(BitsOf(x) \cup BitsOf(y))

Not(x) == Word((0 .. XBits - 1) \ BitsOf(x))

(* __typeof__(X) widens the mask before anything else is done with it.     *)
RoundMask2(y) == y - 1

RoundUp2(x, y) == Wrapped(Or(Wrapped(x - 1), RoundMask2(y)) + 1)

RoundDown2(x, y) == And(x, Not(RoundMask2(y)))

RoundUp(x, y) == Wrapped((Wrapped(x + y - 1) \div y) * y)

(* The division and the remainder of C, which truncate.                    *)
Absolute(x) == IF x < 0 THEN -x ELSE x

Quotient(x, y) ==
  IF (x < 0) = (y < 0)
  THEN Absolute(x) \div Absolute(y)
  ELSE -(Absolute(x) \div Absolute(y))

Remainder(x, y) == x - y * Quotient(x, y)

DivRoundUp_Away(x, y) == Quotient(x, y) + (IF Remainder(x, y) # 0 THEN 1 ELSE 0)

DivRoundUp(x, y) ==
  Quotient(x, y) + (IF Remainder(x, y) # 0 /\ (x > 0) = (y > 0) THEN 1 ELSE 0)

-----------------------------------------------------------------------------
(* algorithm.h.  An array is a memory with n elements of elemSize bytes    *)
(* from its start; a predicate is the set of elements for which it holds.  *)

NotFound == -1    \* (size_t)-1

Element(arr, offset, elemSize) == SubSeq(arr, offset + 1, offset + elemSize)

Offsets(n, elemSize) == {p \in 0 .. n * elemSize - 1 : p % elemSize = 0}

IndexAt_Bytes(offset, elemSize) == offset

IndexAt(offset, elemSize) == offset \div elemSize

ArrIndexOf(arr, elemSize, n, predicate) ==
  LET found == {p \in Offsets(n, elemSize) : Element(arr, p, elemSize) \in predicate}
  IN  IF found = {} THEN NotFound ELSE IndexAt(Min(found), elemSize)

(* xcp_str_arr_index_of: elements that are strings and are compared whole. *)
StrArrIndexOf(arr, elemSize, n, needle) == ArrIndexOf(arr, elemSize, n, {needle})
=============================================================================
