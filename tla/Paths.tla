------------------------------- MODULE Paths --------------------------------
(***************************************************************************)
(* src/src/path.c.  A path is a sequence of characters; a pointer into it  *)
(* is an index from 1, and 0 stands for NULL.  NULL itself is no path of   *)
(* this module.                                                            *)
(***************************************************************************)
EXTENDS Integers, Sequences, FiniteSetsExt

Slash == "/"

IsAbs(pathname) == pathname # << >> /\ pathname[1] = Slash

Combine_Separates(pathname, subpath) ==
  IF pathname = << >> \/ IsAbs(subpath)
  THEN subpath
  ELSE pathname \o <<Slash>> \o subpath

Combine(pathname, subpath) ==
  IF pathname = << >> \/ IsAbs(subpath)
  THEN subpath
  ELSE pathname \o (IF pathname[Len(pathname)] # Slash THEN <<Slash>> ELSE << >>) \o subpath

(* The last slash among the first n characters: strrchr and memrchr.       *)
LastSlash(pathname, n) == Max({0} \cup {k \in 1 .. n : pathname[k] = Slash})

(* The first of the slashes that stand right before pos.                   *)
GetFirstSlash(pathname, pos) ==
  Max({0} \cup {k \in 1 .. pos - 1 : pathname[k] # Slash}) + 1

SlashOf_Last(pathname) == LastSlash(pathname, Len(pathname))

(* Steps 1 and 2: the last slash that does not end the path.               *)
SlashOf(pathname) ==
  LET last == LastSlash(pathname, Len(pathname))
      p    == GetFirstSlash(pathname, last)
  IN  IF last > 1 /\ last = Len(pathname) /\ p # 1
      THEN LastSlash(pathname, p - 1)
      ELSE last

(* How many characters of the path are kept.                               *)
KeptLength(pathname, slash) ==
  LET p == GetFirstSlash(pathname, slash)
  IN  IF p = 1
      THEN IF slash = 2 THEN 2 ELSE 1
      ELSE p - 1

ParentDir(pathname) ==
  LET slash == SlashOf(pathname)
  IN  IF slash = 0
      THEN <<".">>
      ELSE SubSeq(pathname, 1, KeptLength(pathname, slash))

-----------------------------------------------------------------------------
(* Reference definitions.                                                  *)

(* A path without the slashes at its end, or the root it consists of.      *)
Trimmed(pathname) ==
  LET n == Max({0} \cup {k \in 1 .. Len(pathname) : pathname[k] # Slash})
  IN  IF n > 0
      THEN SubSeq(pathname, 1, n)
      ELSE CASE Len(pathname) = 0 -> << >>
             [] Len(pathname) = 2 -> <<Slash, Slash>>
             [] OTHER             -> <<Slash>>

(* The parent, as dirname has it: the path up to its last component.       *)
Parent(pathname) ==
  LET trimmed == Trimmed(pathname)
      ends    == {k \in 0 .. Len(trimmed) - 1 : k = 0 \/ trimmed[k] = Slash}
      before  == SubSeq(trimmed, 1, Max(ends \cup {0}))
      isRoot  == trimmed # << >> /\ \A k \in DOMAIN trimmed : trimmed[k] = Slash
  IN  IF isRoot THEN trimmed ELSE IF before = << >> THEN <<".">> ELSE Trimmed(before)
=============================================================================
