------------------------------- MODULE DynList -------------------------------
(***************************************************************************)
(* The growable list of backend/src/list.c: an array of capacity cells, of *)
(* which the first len are in use.  list_insert, list_pop and list_remove  *)
(* have no caller in the program and are left out.                         *)
(***************************************************************************)
EXTENDS Integers, Sequences

CONSTANTS
  NULL,        \* nullptr
  Garbage      \* what realloc leaves in a new cell

list_new == [capacity |-> 1, len |-> 0, array |-> <<NULL>>]

list_grow(l) ==
  [l EXCEPT !.capacity = 2 * @, !.array = @ \o [i \in 1..l.capacity |-> Garbage]]

Put(l, element) == [l EXCEPT !.array[l.len + 1] = element, !.len = @ + 1]

\* Faulty: grows one element too late.
list_append_late(l, element) == Put(IF l.len > l.capacity THEN list_grow(l) ELSE l, element)

list_append(l, element) == Put(IF l.len = l.capacity THEN list_grow(l) ELSE l, element)

\* The elements in use, in order.
Contents(l) == SubSeq(l.array, 1, l.len)

list_free_contents(l) ==
  [l EXCEPT !.array = [i \in 1..l.capacity |-> IF i <= l.len THEN NULL ELSE @[i]], !.len = 0]

list_free(l) == [capacity |-> 0, len |-> 0, array |-> <<>>]
=============================================================================
