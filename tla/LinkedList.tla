----------------------------- MODULE LinkedList -----------------------------
(***************************************************************************)
(* The LIST macros of sys/include/queue.h, pointer by pointer.  A list is  *)
(* doubly linked without a tail: an element holds le_next, and le_prev,    *)
(* the address of the pointer that points to it, which is the head's       *)
(* lh_first or another element's le_next.  l is a record of                *)
(*                                                                         *)
(*   at    what is stored in each of those pointers: at[h] for a head,     *)
(*         at[e] for the le_next of an element;                            *)
(*   prev  for each element the pointer that its le_prev names, a head or  *)
(*         an element.                                                     *)
(*                                                                         *)
(* Nothing here asks whether an element is on a list.                      *)
(***************************************************************************)
EXTENDS Integers

CONSTANT Null

LIST_FIRST(l, h) == l.at[h]
LIST_EMPTY(l, h) == LIST_FIRST(l, h) = Null
LIST_INIT(l, h) == [l EXCEPT !.at[h] = Null]

\* The old first element is told of its new predecessor before the new one is
\* linked in; the two may be the same.
LIST_INSERT_HEAD(l, h, e) ==
  LET first == l.at[h]
      told == IF first = Null THEN l.prev ELSE [l.prev EXCEPT ![first] = e]
  IN [at |-> [l.at EXCEPT ![e] = first, ![h] = e],
      prev |-> [told EXCEPT ![e] = h]]

\* The element keeps its own pointers.  A le_prev that is Null names address 0,
\* where a write changes no list.
LIST_REMOVE(l, e) ==
  LET next == l.at[e]
  IN [at |-> IF l.prev[e] = Null THEN l.at ELSE [l.at EXCEPT ![l.prev[e]] = next],
      prev |-> IF next = Null THEN l.prev ELSE [l.prev EXCEPT ![next] = l.prev[e]]]

\* Where LIST_FOREACH is after n steps; it stays at Null once it is there.
Visited(l, h, n) ==
  LET visit[i \in 0 .. n] ==
        IF i = 0 THEN l.at[h]
        ELSE IF visit[i - 1] = Null THEN Null ELSE l.at[visit[i - 1]]
  IN visit

\* The elements of a list, of which there are at most n.
Elements(l, h, n) ==
  LET visit == Visited(l, h, n)
  IN {visit[i] : i \in 0 .. n} \ {Null}

\* LIST_FOREACH ends, meets no element twice, and every le_prev names the
\* pointer by which the element is reached.
WellFormed(l, h, n) ==
  LET visit == Visited(l, h, n)
  IN /\ visit[n] = Null
     /\ visit[0] # Null => l.prev[visit[0]] = h
     /\ \A i \in 1 .. n : visit[i] # Null => l.prev[visit[i]] = visit[i - 1]
=============================================================================
