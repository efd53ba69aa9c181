CONSTANTS
  Alphabet = {"/", "a", " ", "-", "1", "9"}
  MaxLength = 6
  IntLimit = 16
  LongLimit = 128
  LongLongLimit = 128
  Base = 6
  XBits = 7
  YBits = 5
  Code <- ASCII
  Octets <- Ordinal
SPECIFICATION Spec
INVARIANTS ParentIsReference CombineAssociative NumberExact TrimmedAtEnd HexReadsBack
  WireOrder RoundedAsNamed FindsFirst
CHECK_DEADLOCK FALSE
