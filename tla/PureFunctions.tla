--------------------------- MODULE PureFunctions ----------------------------
(***************************************************************************)
(* What the functions of path.c and string.c do with every string over an  *)
(* alphabet, and those of endian.h, math.h and algorithm.h with the same   *)
(* strings taken for bytes.  The state is the input.                       *)
(***************************************************************************)
EXTENDS Paths, Strings, Numbers, SequencesExt

CONSTANTS
  Alphabet, MaxLength,
  Code,      \* the byte of each character
  Octets     \* the digit in base Base that each character is taken for

ASSUME CharacterAssumption ==
  /\ MaxLength \in Nat
  /\ Code \in [Alphabet -> 0 .. 255] /\ Octets \in [Alphabet -> 0 .. Base - 1]

VARIABLE input

Init == input = << >>

Next == Len(input) < MaxLength /\ \E c \in Alphabet : input' = Append(input, c)

Spec == Init /\ [][Next]_input

-----------------------------------------------------------------------------
(* xcp_path_parent_dir is the reference dirname, with any number of        *)
(* slashes at the start, in the middle and at the end; it keeps two        *)
(* slashes at the start and makes one of three (path.c 103-110).  It undoes*)
(* what xcp_path_combine has done with one component, in the roots too.    *)
ParentIsReference ==
  /\ ParentDir(input) = Parent(input)
  /\ input # << >> => ParentDir(Combine(input, <<"a">>)) = Trimmed(input)

(* "Concat pathname with subpath. If subpath is an absolute path, pathname *)
(* is ignored." (path.h 30): it does not matter in which order three parts *)
(* are combined, empty and absolute ones included.                         *)
CombineAssociative ==
  \A k \in 0 .. Len(input), l \in 0 .. Len(input) :
    k <= l =>
      LET p == SubSeq(input, 1, k)
          q == SubSeq(input, k + 1, l)
          r == SubSeq(input, l + 1, Len(input))
      IN  Combine(Combine(p, q), r) = Combine(p, Combine(q, r))

(* The ok of xcp_str_to_int, _long and _longlong is true exactly when the  *)
(* string starts with a number and the type has it, and then it is the     *)
(* value (string.c 26-50): neither the saturation of strtoll nor the       *)
(* truncation to a narrower type goes unnoticed.                           *)
NumberExact ==
  LET Exact(result, limit) ==
        /\ result.ok <=> Numeral(input) # << >> /\ Number(input) \in Values(limit)
        /\ result.ok => result.value = Number(input)
  IN  /\ Exact(StrToInt(input), IntLimit)
      /\ Exact(StrToLong(input), LongLimit)
      /\ Exact(StrToLongLong(input), LongLongLimit)

(* xcp_str_trim_end removes the spaces at the end, all of them and nothing *)
(* else, from a string of spaces too.                                      *)
TrimmedAtEnd ==
  LET kept == TrimEnd(input)
      rest == SubSeq(input, Len(kept) + 1, Len(input))
  IN  /\ input = kept \o rest
      /\ \A k \in DOMAIN rest : rest[k] \in Space
      /\ kept # << >> => Last(kept) \notin Space

(* The hexadecimal forms read back as the bytes of the buffer, the reverse *)
(* form as those bytes from the last to the first (string.c 78-92); only   *)
(* an empty buffer has none (string.c 64).                                 *)
HexReadsBack ==
  LET bytes      == [k \in DOMAIN input |-> Code[input[k]]]
      ReadBack(hex) == [k \in DOMAIN input |-> 16 * hex[2 * k - 1] + hex[2 * k]]
  IN  /\ \A reverse \in BOOLEAN : HexBuf(bytes, reverse).null <=> input = << >>
      /\ ReadBack(HexBuf(bytes, FALSE).digits) = bytes
      /\ ReadBack(HexBuf(bytes, TRUE).digits) = Reverse(bytes)

-----------------------------------------------------------------------------
(* The same input as bytes, and as many more as a width leaves to be filled.*)
Memory == [k \in DOMAIN input |-> Octets[input[k]]]

Filled(width) == [k \in 1 .. width |-> IF k <= Len(input) THEN Memory[k] ELSE k % Base]

(* The least and the most significant byte first, whatever the host.       *)
LeValue(memory) ==
  SumUpTo([k \in 0 .. Len(memory) - 1 |-> memory[k + 1] * Power(Base, k)], Len(memory))

BeValue(memory) == LeValue(Reverse(memory))

(* What is converted to an order and stored has its bytes in that order,   *)
(* and what is loaded and converted from it is the value again, for the    *)
(* three widths (endian.h 42-150): no mask or shift is off.  A signed value*)
(* survives the way through either order and the conversion in place, which*)
(* leaves in memory what it returns (endian.h 154-202).                    *)
WireOrder ==
  \A width \in {2, 4, 8} :
    LET memory == Filled(width)
        value  == Load(memory)
        signed == ToSigned(value, width)
        be     == FromBeP(Store(ToBe(signed, width), width))
        le     == FromLeP(Store(ToLe(signed, width), width))
    IN  /\ FromLeUP(memory).returned = LeValue(memory)
        /\ FromBeUP(memory).returned = BeValue(memory)
        /\ LeValue(Store(ToLeU(value, width), width)) = value
        /\ BeValue(Store(ToBeU(value, width), width)) = value
        /\ \A p \in {be, le} : p.returned = signed /\ Load(p.memory) = value

(* A number of up to three digits in base Base.                            *)
Sample == LeValue(Memory) % Power(2, XBits)

(* The rounding macros return the nearest multiple on their side (math.h   *)
(* 40-44): RoundUp2 for every X whose rounded value the type has,          *)
(* RoundDown2 with a mask narrower than X too, RoundUp as long as X + Y - 1*)
(* does not wrap.  XCP_DIV_ROUND_UP is the ceiling of the quotient for     *)
(* operands of either sign (math.h 46).                                    *)
RoundedAsNamed ==
  Len(input) <= 3 =>
    /\ \A y \in 1 .. Power(2, YBits) - 1 :
         LET up   == CHOOSE v \in Sample .. Sample + y - 1 : v % y = 0
             down == Sample - (Sample % y)
         IN  /\ (\E e \in 0 .. YBits : y = Power(2, e)) =>
                  /\ RoundUp2(Sample, y) = up % Power(2, XBits)
                  /\ RoundDown2(Sample, y) = down
             /\ Sample + y - 1 < Power(2, XBits) => RoundUp(Sample, y) = up
    /\ \A y \in -9 .. 9 \ {0} :
         LET x    == Sample - Power(2, XBits - 1)
             q    == DivRoundUp(x, y)
             rest == IF y > 0 THEN q * y - x ELSE x - q * y
         IN  rest \in 0 .. Absolute(y) - 1

(* The index returned is that of the first element that equals the needle, *)
(* and none is returned only if there is no such element (algorithm.h      *)
(* 47-52), however wide the elements and whatever lies across two of them  *)
(* or behind the last.                                                     *)
FindsFirst ==
  \A elemSize \in 1 .. Len(input) :
    \A n \in 0 .. Len(input) \div elemSize :
      \A needle \in {SubSeq(input, k, k + elemSize - 1) : k \in 1 .. Len(input) + 1 - elemSize} :
        LET Equal(i) == SubSeq(input, i * elemSize + 1, (i + 1) * elemSize) = needle
            index    == StrArrIndexOf(input, elemSize, n, needle)
        IN  IF index = NotFound
            THEN \A i \in 0 .. n - 1 : ~Equal(i)
            ELSE index \in 0 .. n - 1 /\ Equal(index) /\ \A i \in 0 .. index - 1 : ~Equal(i)
=============================================================================
