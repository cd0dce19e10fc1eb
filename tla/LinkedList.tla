----------------------------- MODULE LinkedList -----------------------------
(***************************************************************************)
(* The singly linked list with a head and a tail pointer that wsclient.c   *)
(* and mqtt.c each build for their queue.                                  *)
(***************************************************************************)
EXTENDS Naturals, Sequences, Functions

\* head, tail and the next fields spell the sequence order of nodes: no node
\* stands in it twice, an empty list has two NULL pointers, and the last node
\* has no successor.
Spells(order, head, tail, next, NULL) ==
  /\ IsInjective(order)
  /\ head = IF order = <<>> THEN NULL ELSE order[1]
  /\ tail = IF order = <<>> THEN NULL ELSE order[Len(order)]
  /\ \A i \in DOMAIN order :
       next[order[i]] = IF i = Len(order) THEN NULL ELSE order[i + 1]

\* The texts of the nodes of a list, front first.
Texts(order, msg) == [i \in DOMAIN order |-> msg[order[i]]]

=============================================================================
