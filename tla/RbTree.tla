-------------------------------- MODULE RbTree --------------------------------
(***************************************************************************)
(* The red-black tree that the sorting test keeps in the snapshot segment  *)
(* (sorting_tests/rbtree.c, rbtree.h) under the operations on keys of      *)
(* rbtdata.c.  One action is one pass through a loop of the code, so that  *)
(* what holds between two passes can be stated.                            *)
(*                                                                         *)
(* A key is in the tree at most once and its node is named by the key.     *)
(* The mirrored halves of the code are one definition with the side as its *)
(* parameter.                                                              *)
(***************************************************************************)
EXTENDS Integers, Sequences, FiniteSets, Functions

CONSTANT MaxKey  \* max_key

Keys == 1 .. MaxKey
Null == 0
Ptr  == Keys \cup {Null}

Sides == {"left", "right"}
Other(s) == IF s = "left" THEN "right" ELSE "left"

VARIABLES
  tree,    \* root, the nodes' rb_left and rb_right, their parents, the red ones
  op, key, \* the call: "insert", "delete" or "none", and its key
  pc,      \* where it is
  node, parent  \* the variables of the loop it is in

opVars == <<op, key>>
vars   == <<tree, opVars, pc, node, parent>>

EmptyTree ==
  [root |-> Null, kid |-> [s \in Sides |-> [k \in Keys |-> Null]],
   up |-> [k \in Keys |-> Null], red |-> {}]

Tree == [root : Ptr, kid : [Sides -> [Keys -> Ptr]], up : [Keys -> Ptr], red : SUBSET Keys]

TreeTypeOK ==
  /\ tree \in Tree
  /\ op \in {"none", "insert", "delete"} /\ key \in Ptr
  /\ pc \in {"idle", "search", "place", "insert_color", "erase", "erase_color"}
  /\ node \in Ptr /\ parent \in Ptr
  /\ (op = "none") <=> (pc = "idle")

TreeInit ==
  /\ tree = EmptyTree
  /\ op = "none" /\ key = Null
  /\ pc = "idle" /\ node = Null /\ parent = Null

-----------------------------------------------------------------------------
(* The pointer that leads to x, the root or one in its parent q, leads to  *)
(* y instead.                                                              *)
Replace(t, q, x, y) ==
  IF q = Null THEN [t EXCEPT !.root = y]
  ELSE IF t.kid["left"][q] = x THEN [t EXCEPT !.kid["left"][q] = y]
  ELSE [t EXCEPT !.kid["right"][q] = y]

SetParent(t, x, q) == IF x = Null THEN t ELSE [t EXCEPT !.up[x] = q]

IsRed(t, x)  == x # Null /\ x \in t.red
SetRed(t, x) == [t EXCEPT !.red = @ \cup {x}]
SetBlack(t, x) == [t EXCEPT !.red = @ \ {x}]

(* __rb_rotate_left and __rb_rotate_right: x goes down to side s and its   *)
(* other child takes its place.                                            *)
Rotate(t, x, s) ==
  LET y  == t.kid[Other(s)][x]
      t1 == SetParent([t EXCEPT !.kid[Other(s)][x] = t.kid[s][y]], t.kid[s][y], x)
      t2 == [t1 EXCEPT !.kid[s][y] = x, !.up[y] = t.up[x]]
      t3 == Replace(t2, t.up[x], x, y)
  IN  [t3 EXCEPT !.up[x] = y]

(* The last node that is reached from x by going to side s only.           *)
Outermost(t, x, s) ==
  LET down[d \in 0 .. MaxKey] ==
        [y \in Keys |->
          IF d = 0 \/ t.kid[s][y] = Null THEN y ELSE down[d - 1][t.kid[s][y]]]
  IN  down[MaxKey][x]

-----------------------------------------------------------------------------
(* rbtdata_insert and sort_tester_delete begin with rbtdata_search.        *)
Call(o, k) ==
  /\ pc = "idle"
  /\ op' = o /\ key' = k
  /\ pc' = "search" /\ node' = tree.root /\ parent' = Null
  /\ UNCHANGED tree

Return ==
  /\ pc' = "idle" /\ op' = "none"
  /\ key' = Null /\ node' = Null /\ parent' = Null

(* The side of node on which the key would be.                             *)
SideOf(k) == IF key < k THEN "left" ELSE "right"

(* Mutant of Descend: the loop stays where it is.                          *)
DescendStay ==
  /\ pc \in {"search", "place"}
  /\ node \notin {Null, key}
  /\ parent' = node
  /\ UNCHANGED <<tree, node, opVars, pc>>

(* A pass of rbtdata_search or of rbtdata_insert.                          *)
Descend ==
  /\ pc \in {"search", "place"}
  /\ node \notin {Null, key}
  /\ parent' = node
  /\ node' = tree.kid[SideOf(node)][node]
  /\ UNCHANGED <<tree, opVars, pc>>

(* rbtdata_search is over.  A key that is there is taken out by both calls;*)
(* one that is not is put in by insert, which goes down once more.         *)
Searched ==
  /\ pc = "search"
  /\ node \in {Null, key}
  /\ \/ /\ node = key
        /\ pc' = "erase"
        /\ UNCHANGED <<tree, opVars, node, parent>>
     \/ /\ node = Null /\ op = "insert"
        /\ pc' = "place" /\ node' = tree.root /\ parent' = Null
        /\ UNCHANGED <<tree, opVars>>
     \/ /\ node = Null /\ op = "delete"
        /\ Return
        /\ UNCHANGED tree

(* rb_link_node: a red leaf.                                               *)
Link ==
  /\ pc = "place"
  /\ node = Null
  /\ LET t == [tree EXCEPT !.up[key] = parent, !.red = @ \cup {key},
                           !.kid = [s \in Sides |-> [@[s] EXCEPT ![key] = Null]]]
     IN  tree' = IF parent = Null THEN [t EXCEPT !.root = key]
                 ELSE [t EXCEPT !.kid[SideOf(parent)][parent] = key]
  /\ pc' = "insert_color" /\ node' = key
  /\ UNCHANGED <<opVars, parent>>

-----------------------------------------------------------------------------
(* A pass of rb_insert_color: node and its parent p are red.  With a red   *)
(* uncle the red moves up by two; otherwise a rotation, after another one  *)
(* when node is the inner child, puts a black node above both.             *)
InsertColor ==
  LET p == tree.up[node]
      g == tree.up[p]
      s == IF p = tree.kid["left"][g] THEN "left" ELSE "right"
      uncle == tree.kid[Other(s)][g]
      inner == tree.kid[Other(s)][p] = node
      t == IF inner THEN Rotate(tree, p, s) ELSE tree
      top == IF inner THEN node ELSE p
  IN  /\ pc = "insert_color" /\ IsRed(tree, p)
      /\ \/ /\ IsRed(tree, uncle)
            /\ tree' = SetRed(SetBlack(SetBlack(tree, uncle), p), g)
            /\ node' = g
         \/ /\ ~IsRed(tree, uncle)
            /\ tree' = Rotate(SetRed(SetBlack(t, top), g), g, Other(s))
            /\ node' = IF inner THEN p ELSE node
      /\ UNCHANGED <<opVars, pc, parent>>

InsertColorEnd ==
  /\ pc = "insert_color" /\ ~IsRed(tree, tree.up[node])
  /\ tree' = SetBlack(tree, tree.root)
  /\ Return

-----------------------------------------------------------------------------
(* MM_free of the node: what it held is gone.                              *)
Freed(t, x) == [t EXCEPT !.up[x] = Null, !.red = @ \ {x},
                         !.kid = [s \in Sides |-> [t.kid[s] EXCEPT ![x] = Null]]]

(* rb_erase: the colour of the node that leaves its place decides whether  *)
(* __rb_erase_color is called, for child below par.                        *)
EraseAs(t, black, child, par) ==
  /\ tree' = Freed(t, key)
  /\ \/ black /\ pc' = "erase_color" /\ node' = child /\ parent' = par /\ UNCHANGED opVars
     \/ ~black /\ Return

(* Mutant of EraseOuter: the right child is not looked for.                *)
EraseOuterLeft ==
  LET x == node
      q == tree.up[x]
      child == tree.kid["left"][x]
  IN  /\ pc = "erase"
      /\ \E s \in Sides : tree.kid[s][x] = Null
      /\ EraseAs(Replace(SetParent(tree, child, q), q, x, child), x \notin tree.red, child, q)

(* A node with at most one child: the child takes its place.               *)
EraseOuter ==
  LET x == node
      q == tree.up[x]
      child == IF tree.kid["left"][x] = Null THEN tree.kid["right"][x] ELSE tree.kid["left"][x]
  IN  /\ pc = "erase"
      /\ \E s \in Sides : tree.kid[s][x] = Null
      /\ EraseAs(Replace(SetParent(tree, child, q), q, x, child), x \notin tree.red, child, q)

(* With two: the leftmost node n on the right takes its place and colour,  *)
(* and the right child of n that of n.                                     *)
EraseInner ==
  LET old == node
      right == tree.kid["right"][old]
      n == Outermost(tree, right, "left")
      child == tree.kid["right"][n]
      q == tree.up[n]
      t1 == Replace(tree, tree.up[old], old, n)
      t2 == IF q = old THEN t1
            ELSE [SetParent(t1, child, q) EXCEPT !.kid["left"][q] = child,
                    !.kid["right"][n] = right, !.up[right] = n]
      t3 == [t2 EXCEPT !.up[n] = tree.up[old], !.kid["left"][n] = tree.kid["left"][old],
               !.up[tree.kid["left"][old]] = n,
               !.red = IF old \in @ THEN @ \cup {n} ELSE @ \ {n}]
  IN  /\ pc = "erase"
      /\ \A s \in Sides : tree.kid[s][old] # Null
      /\ EraseAs(t3, n \notin tree.red, child, IF q = old THEN n ELSE q)

(* A pass of __rb_erase_color: the paths through node, which may be null,  *)
(* are one black node short.  A red sibling is rotated away first.  With   *)
(* no red nephew the sibling becomes red and the parent is looked at next; *)
(* with one, Even makes up for it and the loop ends, the outer nephew      *)
(* having been made red first.  (t and t1 are bound so as to be evaluated  *)
(* once.)                                                                  *)
EraseColor ==
  LET s == IF tree.kid["left"][parent] = node THEN "left" ELSE "right"
      o == Other(s)
      first == tree.kid[o][parent]
      RedAway == IF IsRed(tree, first)
                 THEN Rotate(SetRed(SetBlack(tree, first), parent), parent, s) ELSE tree
      Even(t) ==
        LET top == t.kid[o][parent]
            t1  == IF IsRed(t, parent) THEN SetRed(t, top) ELSE SetBlack(t, top)
        IN  Rotate(SetBlack(SetBlack(t1, parent), t.kid[o][top]), parent, s)
  IN  /\ pc = "erase_color"
      /\ ~IsRed(tree, node) /\ node # tree.root
      /\ \E t \in {RedAway} :
           LET other == t.kid[o][parent]
               near  == t.kid[s][other]
               far   == t.kid[o][other]
           IN  \/ /\ ~IsRed(t, near) /\ ~IsRed(t, far)
                  /\ tree' = SetRed(t, other)
                  /\ node' = parent /\ parent' = t.up[parent]
               \/ /\ IsRed(t, far)
                  /\ tree' = Even(t)
                  /\ node' = tree'.root
                  /\ UNCHANGED parent
               \/ /\ IsRed(t, near) /\ ~IsRed(t, far)
                  /\ \E t1 \in {Rotate(SetRed(SetBlack(t, near), other), other, o)} :
                        tree' = Even(t1)
                  /\ node' = tree'.root
                  /\ UNCHANGED parent
      /\ UNCHANGED <<opVars, pc>>

(* Mutant of EraseColorEnd: the node is not made black.                    *)
EraseColorEndRed ==
  /\ pc = "erase_color"
  /\ IsRed(tree, node) \/ node = tree.root
  /\ Return /\ UNCHANGED tree

EraseColorEnd ==
  /\ pc = "erase_color"
  /\ IsRed(tree, node) \/ node = tree.root
  /\ tree' = SetBlack(tree, node)
  /\ Return

-----------------------------------------------------------------------------
Step == \/ Descend \/ Searched \/ Link \/ InsertColor \/ InsertColorEnd
        \/ EraseOuter \/ EraseInner \/ EraseColor \/ EraseColorEnd

TreeNext == Step \/ \E o \in {"insert", "delete"}, k \in Keys : Call(o, k)

(* The owner runs: a call that has begun goes on.                          *)
TreeSpec == TreeInit /\ [][TreeNext]_vars /\ WF_vars(Step)

-----------------------------------------------------------------------------
(* __rbtdata_map: the keys in the order in which it visits them.           *)
Map ==
  LET walk[d \in 0 .. MaxKey] ==
        [x \in Ptr |->
          IF d = 0 \/ x = Null THEN <<>>
          ELSE walk[d - 1][tree.kid["left"][x]] \o <<x>> \o walk[d - 1][tree.kid["right"][x]]]
  IN  walk[MaxKey][tree.root]

Members == Range(Map)

(* rb_first (s = "left") and rb_last (s = "right").                        *)
FirstNode(s) == IF tree.root = Null THEN Null ELSE Outermost(tree, tree.root, s)

(* rb_next (s = "right") and rb_prev (s = "left").                         *)
NextNode(x, s) ==
  LET climb[d \in 0 .. MaxKey] ==
        [y \in Keys |->
          IF d = 0 \/ tree.up[y] = Null \/ tree.kid[s][tree.up[y]] # y THEN tree.up[y]
          ELSE climb[d - 1][tree.up[y]]]
  IN  IF tree.kid[s][x] # Null THEN Outermost(tree, tree.kid[s][x], Other(s))
      ELSE climb[MaxKey][x]

(* The numbers of black nodes on the paths from x down.  While a node is   *)
(* erased, node counts for one more than is there.                         *)
Blacks ==
  LET lack(x, s) == IF /\ pc = "erase_color" /\ x = parent
                       /\ node = tree.kid[s][x] THEN 1 ELSE 0
      count[d \in 0 .. MaxKey] ==
        [x \in Ptr |->
          IF d = 0 \/ x = Null THEN {0}
          ELSE UNION {{n + lack(x, s) + (IF x \in tree.red THEN 0 ELSE 1) :
                         n \in count[d - 1][tree.kid[s][x]]} : s \in Sides}]
  IN  count[MaxKey][tree.root]

-----------------------------------------------------------------------------
(* In the middle of a call, too, no rotation loses a node, doubles one or  *)
(* puts one on the wrong side: the map that a reader might begin finds the *)
(* keys in ascending order, and a walk by rb_next or rb_prev, along the    *)
(* parent pointers, finds the same ones.  Between two passes the tree is a *)
(* red-black tree but for one place: a red node below a red one, where     *)
(* rb_insert_color stands, or one black node that is missing, where        *)
(* __rb_erase_color stands.                                                *)
RedBlack ==
  LET map == Map
      n == Len(map)
      at(i) == IF i \in 1 .. n THEN map[i] ELSE Null
  IN  /\ \A i \in 1 .. n - 1 : map[i] < map[i + 1]
      /\ FirstNode("left") = at(1) /\ FirstNode("right") = at(n)
      /\ \A i \in 1 .. n : /\ NextNode(at(i), "right") = at(i + 1)
                           /\ NextNode(at(i), "left") = at(i - 1)
      /\ Cardinality(Blacks) = 1
      /\ \A x \in Members \cap tree.red :
            tree.up[x] \in tree.red \cup {Null} =>
              \/ pc = "insert_color" /\ x = node
              \/ pc = "erase_color" /\ node \in {x, tree.up[x]}

(* Every call ends: both loops move up, or stop.                           *)
CallsEnd == pc # "idle" ~> pc = "idle"

(* To its callers the tree is a set of keys.                               *)
S == INSTANCE KeySet WITH keys <- Members
ImplementsKeySet == S!Spec
===============================================================================
