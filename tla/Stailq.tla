------------------------------- MODULE Stailq -------------------------------
(***************************************************************************)
(* The intrusive singly linked tail queue of <sys/queue.h>, as far as      *)
(* coroutine.c uses it.  An element carries its own link (the function     *)
(* `next'); a head is a record [first, last] in which `last' names the     *)
(* element whose link field the C pointer stqh_last addresses, NULL        *)
(* standing for the head's own stqh_first.  One link per element: putting  *)
(* an element on a second queue rewrites the link the first one relies on. *)
(***************************************************************************)
EXTENDS Naturals, Sequences, FiniteSets

CONSTANT NULL

(* STAILQ_INIT *)
Empty == [first |-> NULL, last |-> NULL]

(* STAILQ_INSERT_TAIL: the link is cleared, then *stqh_last is written.    *)
InsertLinks(next, head, elm) ==
  LET cleared == [next EXCEPT ![elm] = NULL]
  IN  IF head.last = NULL THEN cleared ELSE [cleared EXCEPT ![head.last] = elm]

InsertHead(head, elm) ==
  [first |-> IF head.last = NULL THEN elm ELSE head.first, last |-> elm]

(* STAILQ_REMOVE_HEAD: the removed element's link is left as it was.       *)
RemoveHead(next, head) ==
  IF next[head.first] = NULL THEN Empty
  ELSE [first |-> next[head.first], last |-> head.last]

(* STAILQ_CONCAT(head1, head2): head2 is spliced after head1 and emptied.  *)
ConcatLinks(next, head1, head2) ==
  IF head2.first = NULL \/ head1.last = NULL
  THEN next
  ELSE [next EXCEPT ![head1.last] = head2.first]

ConcatHead(head1, head2) ==
  IF head2.first = NULL
  THEN head1
  ELSE [first |-> IF head1.last = NULL THEN head2.first ELSE head1.first,
        last  |-> head2.last]

(* The elements met by following at most `bound' links from the head, in   *)
(* order: what a traversal sees.  A well-formed queue is shorter.          *)
Walk(next, head, bound) ==
  LET after == [elm \in DOMAIN next \cup {NULL} |-> IF elm = NULL THEN NULL ELSE next[elm]]
      node[i \in 0 .. bound] == IF i = 0 THEN head.first ELSE after[node[i - 1]]
  IN  [i \in 1 .. Cardinality({k \in 0 .. bound : node[k] # NULL}) |-> node[i - 1]]
=============================================================================
