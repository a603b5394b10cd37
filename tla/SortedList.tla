------------------------------ MODULE SortedList ------------------------------
(***************************************************************************)
(* The sorting test's other data structure (sorting_tests/list.c): a       *)
(* circular queue that insert and delete alike make longer at its head or  *)
(* shorter at its tail, so that it swings between one entry and            *)
(* max_list_size of them.  Keys are left out: no call looks at one.        *)
(***************************************************************************)
EXTENDS Integers

CONSTANT MaxListSize  \* bound: the greatest max_list_size

VARIABLES max,      \* max_list_size
          listSize, \* list_size: the entries of the queue
          up        \* direction

vars == <<max, listSize, up>>

(* A list with room for an entry stays within its room.                    *)
ListTypeOK ==
  /\ max \in 0 .. MaxListSize /\ up \in BOOLEAN
  /\ listSize \in 0 .. (IF max = 0 THEN 1 ELSE max)

(* sorted_list_init: max_list_size depends on the size of the segment, and *)
(* a small one has room for no entry at all.                               *)
ListInit == max \in 0 .. MaxListSize /\ listSize = 0 /\ up = TRUE

(* __add_or_remove: CIRCLEQ_INSERT_HEAD, or removal of CIRCLEQ_LAST, or    *)
(* neither, when the direction changes.                                    *)
Grow ==
  /\ listSize = 0 \/ (listSize < max /\ up)
  /\ listSize' = listSize + 1
  /\ UNCHANGED <<max, up>>

Shrink ==
  /\ listSize > 1 /\ ~up
  /\ listSize' = listSize - 1
  /\ UNCHANGED <<max, up>>

TurnAround ==
  /\ \/ listSize = 1 /\ ~up
     \/ listSize = max /\ up /\ listSize > 0
  /\ up' = ~up
  /\ UNCHANGED <<max, listSize>>

(* "huh?"                                                                  *)
Huh ==
  /\ listSize > max /\ up
  /\ UNCHANGED vars

AddOrRemove == Grow \/ Shrink \/ TurnAround \/ Huh
===============================================================================
