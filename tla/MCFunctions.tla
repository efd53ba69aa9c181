---------------------------- MODULE MCFunctions -----------------------------
(***************************************************************************)
(* PureFunctions on the strings over a slash, a letter, a space, a sign    *)
(* and two digits.                                                         *)
(***************************************************************************)
EXTENDS PureFunctions

ASCII == [c \in Alphabet |->
            CASE c = "/" -> 47 [] c = "a" -> 97 [] c = " " -> 32
              [] c = "-" -> 45 [] c = "1" -> 49 [] c = "9" -> 57]

Ordinal == [c \in Alphabet |->
              CASE c = "/" -> 0 [] c = "a" -> 1 [] c = " " -> 2
                [] c = "-" -> 3 [] c = "1" -> 4 [] c = "9" -> 5]
=============================================================================
