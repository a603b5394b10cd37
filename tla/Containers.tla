------------------------------ MODULE Containers ------------------------------
(***************************************************************************)
(* The data structures that the programs keep in mapped memory, for TLC:   *)
(* a list in an array (Lists), an array written by index (Attributes), or  *)
(* one of the sorting test's two, a red-black tree (RbTree) and a list     *)
(* (SortedList).  Their callers have nothing to do with each other.        *)
(***************************************************************************)
EXTENDS Lists

CONSTANTS MaxKey, MaxListSize, Increment, MaxVertices, MaxFile

ASSUME ContainersAssumption ==
  /\ MaxKey \in Nat /\ MaxListSize \in Nat
  /\ Increment \in Nat \ {0, 1} /\ MaxVertices \in Nat /\ MaxFile \in Nat

VARIABLES which, tree, op, key, pc, node, parent, max, listSize, up,
          vertices, objects, i, base, room, attrAllocated, slots, alive, given, whole

T == INSTANCE RbTree
D == INSTANCE SortedList
A == INSTANCE Attributes WITH allocated <- attrAllocated

treeVars == <<tree, op, key, pc, node, parent>>
sortVars == <<max, listSize, up>>
attrVars == <<vertices, objects, i, base, room, attrAllocated, slots, alive, given, whole>>
allVars  == <<which, vars, treeVars, sortVars, attrVars>>

ContainersInit ==
  /\ which \in {"list", "tree", "sorted_list", "attributes"}
  /\ ListsInit /\ T!TreeInit /\ D!ListInit /\ A!AttributesInit
  /\ which # "sorted_list" => max = MaxListSize

ContainersNext ==
  \/ which = "list" /\ ListsNext /\ UNCHANGED <<which, treeVars, sortVars, attrVars>>
  \/ which = "tree" /\ T!TreeNext /\ UNCHANGED <<which, vars, sortVars, attrVars>>
  \/ which = "sorted_list" /\ D!AddOrRemove /\ UNCHANGED <<which, vars, treeVars, attrVars>>
  \/ which = "attributes" /\ A!AttributesNext /\ UNCHANGED <<which, vars, treeVars, sortVars>>

ContainersSpec ==
  ContainersInit /\ [][ContainersNext]_allVars /\ WF_treeVars(T!Step)

(* The variables of all have values of their types.                        *)
ContainersTypeOK == ListsTypeOK /\ T!TreeTypeOK /\ D!ListTypeOK /\ A!AttributesTypeOK

(* In the middle of a call, too, a map of the tree and walks by rb_next    *)
(* and rb_prev find the same keys, in order, and between two passes of a   *)
(* loop it is a red-black tree but for one place.                          *)
RedBlack == T!RedBlack

(* Every call on the tree ends.                                            *)
CallsEnd == T!CallsEnd

(* To its callers the tree is a set of keys (KeySet).                      *)
ImplementsKeySet == T!ImplementsKeySet

(* Attributes are found at their vertices, and adding one kills the client *)
(* only at a gap.                                                          *)
AttributesFound == A!AttributesFound
===============================================================================
