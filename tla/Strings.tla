------------------------------ MODULE Strings -------------------------------
(***************************************************************************)
(* src/src/string.c.  A string is a sequence of one-character strings.     *)
(* The C types are given by their limits, so that small ones can be        *)
(* checked: one with limit l has the values -l to l - 1, and the limits of *)
(* an x86-64 build are 2^31, 2^63 and 2^63.                                *)
(***************************************************************************)
EXTENDS Integers, Sequences, FiniteSetsExt

CONSTANTS IntLimit, LongLimit, LongLongLimit

ASSUME LimitAssumption ==
  /\ {IntLimit, LongLimit, LongLongLimit} \subseteq Nat \ {0}
  /\ IntLimit <= LongLimit /\ LongLimit <= LongLongLimit

Digits == <<"0", "1", "2", "3", "4", "5", "6", "7", "8", "9">>

DigitChars == {Digits[d] : d \in DOMAIN Digits}

(* The characters isspace accepts, but for the vertical tab.               *)
Space == {" ", "\t", "\n", "\f", "\r"}

Values(limit) == -limit .. limit - 1

-----------------------------------------------------------------------------
(* strtoll with base 10: spaces, a sign, digits; the value saturates.      *)

(* The first position from pos on with a character outside set.            *)
Skip(str, pos, set) ==
  Min({k \in pos .. Len(str) : str[k] \notin set} \cup {Len(str) + 1})

SignAt(str) == Skip(str, 1, Space)

DigitsAt(str) ==
  IF SignAt(str) <= Len(str) /\ str[SignAt(str)] \in {"+", "-"} THEN SignAt(str) + 1 ELSE SignAt(str)

(* The digits of the number.                                               *)
Numeral(str) == SubSeq(str, DigitsAt(str), Skip(str, DigitsAt(str), DigitChars) - 1)

Magnitude(digits) ==
  LET value[k \in 0 .. Len(digits)] ==
        IF k = 0
        THEN 0
        ELSE 10 * value[k - 1] + CHOOSE d \in 0 .. 9 : Digits[d + 1] = digits[k]
  IN  value[Len(digits)]

Number(str) ==
  IF DigitsAt(str) > SignAt(str) /\ str[SignAt(str)] = "-"
  THEN -Magnitude(Numeral(str))
  ELSE Magnitude(Numeral(str))

Strtoll(str) ==
  CASE Number(str) < -LongLongLimit -> -LongLongLimit
    [] Number(str) >= LongLongLimit -> LongLongLimit - 1
    [] OTHER                        -> Number(str)

ERANGE(str) == Number(str) # Strtoll(str)

-----------------------------------------------------------------------------
(* The functions of string.c, with ok not NULL.                            *)

StrToLongLong_Unranged(str) == [value |-> Strtoll(str), ok |-> Numeral(str) # << >>]

StrToLongLong(str) ==
  [value |-> Strtoll(str), ok |-> Numeral(str) # << >> /\ ~ERANGE(str)]

(* The conversion of a value to a signed type with that limit.             *)
Narrow(value, limit) == ((value + limit) % (2 * limit)) - limit

Narrowed(str, limit) ==
  LET wide  == StrToLongLong(str)
      value == Narrow(wide.value, limit)
  IN  [value |-> value, ok |-> wide.ok /\ wide.value = value]

StrToInt(str) == Narrowed(str, IntLimit)

StrToLong(str) == Narrowed(str, LongLimit)

TrimEnd_KeepsFirst(str) ==
  SubSeq(str, 1, Max({0} \cup {k \in 1 .. Len(str) : k = 1 \/ str[k] \notin Space}))

TrimEnd(str) ==
  SubSeq(str, 1, Max({0} \cup {k \in 1 .. Len(str) : str[k] \notin Space}))

-----------------------------------------------------------------------------
(* The hexadecimal forms, without their "0x".  A digit is a number.        *)

HexDigits_Swapped(buf, reverse) ==
  [p \in 1 .. 2 * Len(buf) |->
     LET q    == IF reverse THEN 2 * Len(buf) + 1 - p ELSE p
         byte == buf[(q + 1) \div 2]
     IN  IF q % 2 = 1 THEN byte \div 16 ELSE byte % 16]

(* Character p of the output: going backwards, the low half of a byte is   *)
(* stored before the high half.                                            *)
HexDigits(buf, reverse) ==
  [p \in 1 .. 2 * Len(buf) |->
     LET byte == IF reverse THEN buf[Len(buf) - (p - 1) \div 2] ELSE buf[(p + 1) \div 2]
     IN  IF p % 2 = 1 THEN byte \div 16 ELSE byte % 16]

(* An empty buffer has no form: the result is NULL.                        *)
HexBuf(buf, reverse) == [null |-> buf = << >>, digits |-> HexDigits(buf, reverse)]
=============================================================================
