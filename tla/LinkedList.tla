------------------------------ MODULE LinkedList ------------------------------
(***************************************************************************)
(* The doubly linked list of coreShared/linkedList.c: what addNode,        *)
(* removeNode and a walk do to the pointers.  A list is a record of its    *)
(* two pointers and of those in the nodes, the freed nodes' included:      *)
(* free() leaves them as they are, and nothing stops the list from         *)
(* following or writing one of them.                                       *)
(***************************************************************************)
EXTENDS Integers, FiniteSets

CONSTANTS Nodes,  \* nodes, each of them added at most once
          Null    \* the null pointer

NoPointers == [n \in Nodes |-> Null]

(* linkedList_init                                                         *)
EmptyList == [head |-> Null, tail |-> Null, next |-> NoPointers, prev |-> NoPointers]

ListType ==
  [head : Nodes \cup {Null}, tail : Nodes \cup {Null},
   next : [Nodes -> Nodes \cup {Null}], prev : [Nodes -> Nodes \cup {Null}]]

(* linkedList_addNode.  The tail may be a node that is free: the pointer   *)
(* to the new node is then written where no walk will find it.             *)
AddNode(l, n) ==
  IF l.head = Null
  THEN [l EXCEPT !.head = n, !.tail = n]
  ELSE [l EXCEPT !.next[l.tail] = n, !.prev[n] = l.tail, !.tail = n]

(* Mutant of RemoveNode: the head is removed, and with it all the others.  *)
RemoveAll(l, n) ==
  LET p == l.prev[n]
      s == l.next[n]
  IN  CASE p # Null /\ s # Null -> [l EXCEPT !.next[p] = s, !.prev[s] = p]
        [] p = Null             -> [l EXCEPT !.head = Null, !.tail = Null]
        [] p # Null /\ s = Null -> [l EXCEPT !.next[p] = Null]

(* Mutant of RemoveNode: the new head still points back.                   *)
RemoveKeepPrev(l, n) ==
  LET p == l.prev[n]
      s == l.next[n]
  IN  CASE p # Null /\ s # Null -> [l EXCEPT !.next[p] = s, !.prev[s] = p]
        [] p = Null /\ s # Null -> [l EXCEPT !.head = s]
        [] p # Null /\ s = Null -> [l EXCEPT !.next[p] = Null]
        [] p = Null /\ s = Null -> [l EXCEPT !.head = Null, !.tail = Null]

(* linkedList_removeNode of a node that is in the list.  The tail pointer  *)
(* is left alone when the last of several nodes goes.                      *)
RemoveNode(l, n) ==
  LET p == l.prev[n]
      s == l.next[n]
  IN  CASE p # Null /\ s # Null -> [l EXCEPT !.next[p] = s, !.prev[s] = p]
        [] p = Null /\ s # Null -> [l EXCEPT !.head = s, !.prev[s] = Null]
        [] p # Null /\ s = Null -> [l EXCEPT !.next[p] = Null]
        [] p = Null /\ s = Null -> [l EXCEPT !.head = Null, !.tail = Null]

(* The nodes that a walk from the head visits (linkedList_forEach).        *)
Elements(l) ==
  LET at[i \in 0 .. Cardinality(Nodes)] ==
        IF i = 0 THEN l.head
        ELSE IF at[i - 1] = Null THEN Null ELSE l.next[at[i - 1]]
  IN  {at[i] : i \in 0 .. Cardinality(Nodes)} \ {Null}
==============================================================================
