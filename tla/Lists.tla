-------------------------------- MODULE Lists --------------------------------
(***************************************************************************)
(* Linked lists kept in the slots of an array (collections/list.c), and a  *)
(* caller that fills one, then walks over it with LISTS_FOR_EACH and       *)
(* removes objects as it goes, as the tests do (collections/main.c).       *)
(*                                                                         *)
(* Before there is a list, callers use the array for other objects and may *)
(* make it larger.  From then on there is room: a resize would lose the    *)
(* list with everything else in memory (AddWithResize).                    *)
(*                                                                         *)
(* The removal of an object leaves prev of the next one, and tail, at the  *)
(* freed slot.  The model's caller is the one for whom this does no harm:  *)
(* it adds first, then loops once, and removes the object on which the     *)
(* loop stands, but never two in a row.                                    *)
(***************************************************************************)
EXTENDS Array, Sequences

VARIABLES
  list,    \* the list: the slot of its header
  ptr1,    \* listHeader.head of a header, ptrs.next of an object
  ptr2,    \* listHeader.tail of a header, ptrs.prev of an object
  members, \* what the caller has put into the list and not removed, in order
  iter,    \* the object at which the loop is; Nil before and after it
  seen,    \* the objects that the loop has passed
  removed  \* those of them that were removed

linkVars == <<list, ptr1, ptr2>>
loopVars == <<iter, seen, removed>>
vars     == <<arrayVars, linkVars, members, loopVars>>

ListsTypeOK ==
  /\ TypeOK
  /\ list \in Slots \cup {Nil}
  /\ ptr1 \in [Slots -> Slots \cup {Nil}] /\ ptr2 \in [Slots -> Slots \cup {Nil}]
  /\ members \in Seq(inUse \ {list})
  /\ iter \in Slots \cup {Nil} /\ seen \in Seq(Slots)
  /\ removed \subseteq Slots \ inUse

ListsInit ==
  /\ Init
  /\ list = Nil
  /\ ptr1 = [s \in Slots |-> Nil] /\ ptr2 = [s \in Slots |-> Nil]
  /\ members = <<>>
  /\ iter = Nil /\ seen = <<>> /\ removed = {}

-----------------------------------------------------------------------------
(* Mutant of Target: the free list is overlooked.                          *)
TargetAtEnd == nextFreeSlot

(* The slot that array_addObject is about to take.                         *)
Target == IF firstFree # Nil THEN firstFree ELSE nextFreeSlot

(* What was in the array before the list: objects of other lists.          *)
OtherObjects ==
  /\ list = Nil
  /\ Next
  /\ UNCHANGED <<linkVars, members, loopVars>>

(* lists_addList                                                           *)
AddList ==
  /\ list = Nil
  /\ AddObject /\ UNCHANGED size
  /\ list' = Target
  /\ ptr1' = [ptr1 EXCEPT ![Target] = Nil]
  /\ ptr2' = [ptr2 EXCEPT ![Target] = Nil]
  /\ UNCHANGED <<members, loopVars>>

(* lists_addObjectToList: behind listHeader.tail, whatever that is.        *)
AddObjectToList ==
  /\ list # Nil /\ iter = Nil /\ seen = <<>>
  /\ AddObject /\ UNCHANGED size
  /\ LET t    == Target
         tail == ptr2[list]
         new1 == [ptr1 EXCEPT ![t] = Nil]
         new2 == [ptr2 EXCEPT ![t] = Nil]
     IN  IF ptr1[list] = Nil
         THEN /\ ptr1' = [new1 EXCEPT ![list] = t]
              /\ ptr2' = [new2 EXCEPT ![list] = t]
         ELSE /\ ptr1' = [new1 EXCEPT ![tail] = t]
              /\ ptr2' = [new2 EXCEPT ![t] = tail, ![list] = t]
  /\ members' = Append(members, Target)
  /\ UNCHANGED <<list, loopVars>>

(* Mutant of Unlink: the object's own pointer is cleared.                  *)
UnlinkClear(s) ==
  ptr1' = CASE ptr2[s] # Nil -> [ptr1 EXCEPT ![ptr2[s]] = ptr1[s], ![s] = Nil]
            [] OTHER         -> [ptr1 EXCEPT ![list] = ptr1[s], ![s] = Nil]

(* lists_removeObjectFromList, its four cases in two: next of the object   *)
(* before s, or head, is what next of s was.  Neither prev of the object   *)
(* after s nor tail is changed.                                            *)
Unlink(s) ==
  ptr1' = CASE ptr2[s] # Nil -> [ptr1 EXCEPT ![ptr2[s]] = ptr1[s]]
            [] OTHER         -> [ptr1 EXCEPT ![list] = ptr1[s]]

RemoveObjectFromList(s) ==
  /\ s = iter
  /\ seen # <<>> => seen[Len(seen)] \notin removed
  /\ Unlink(s)
  /\ RemoveObject(s)
  /\ \E i \in 1 .. Len(members) :
       /\ members[i] = s
       /\ members' = [j \in 1 .. Len(members) - 1 |-> members[IF j < i THEN j ELSE j + 1]]
  /\ removed' = removed \cup {s}
  /\ UNCHANGED <<list, ptr2, iter, seen>>

(* LISTS_FOR_EACH: lists_getFirst and lists_getNextObject, the second of   *)
(* an object that may have been removed.                                   *)
GetFirst ==
  /\ list # Nil /\ iter = Nil /\ seen = <<>>
  /\ iter' = ptr1[list]
  /\ UNCHANGED <<arrayVars, linkVars, members, seen, removed>>

GetNextObject ==
  /\ iter # Nil
  /\ iter' = ptr1[iter]
  /\ seen' = Append(seen, iter)
  /\ UNCHANGED <<arrayVars, linkVars, members, removed>>

ListsNext ==
  \/ OtherObjects \/ AddList \/ AddObjectToList
  \/ \E s \in Slots : RemoveObjectFromList(s)
  \/ GetFirst \/ GetNextObject

ListsSpec == ListsInit /\ [][ListsNext]_vars

-----------------------------------------------------------------------------
(* A walk over the list, cut off after as many steps as there are slots.   *)
Walk ==
  LET at[i \in 0 .. MaxSlots] ==
        IF i = 0 THEN IF list = Nil THEN Nil ELSE ptr1[list]
        ELSE IF at[i - 1] = Nil THEN Nil ELSE ptr1[at[i - 1]]
  IN  at

(* Where the caller's objects are in such a walk.                          *)
InOrder == [i \in 0 .. MaxSlots |-> IF i < Len(members) THEN members[i + 1] ELSE Nil]

(* The steps of the loop that passed an object and left it in the list.    *)
Kept    == {i \in 1 .. Len(seen) : seen[i] \notin removed}
Rank(i) == Cardinality({j \in Kept : j <= i})

(* A walk over the list ends and finds what callers added and did not      *)
(* remove, in the order in which they added it.  The loop is not thrown    *)
(* off by the removal of the object it stands on: what it has passed and   *)
(* not removed are the first objects of the list, each passed once and in  *)
(* order, and the one that comes next is the first that it has not passed. *)
LoopSeesAll ==
  /\ Walk = InOrder /\ Walk[MaxSlots] = Nil
  /\ iter # Nil \/ seen # <<>> =>
       /\ \A i \in Kept : Rank(i) <= Len(members) /\ seen[i] = members[Rank(i)]
       /\ iter \notin removed => iter = InOrder[Cardinality(Kept)]
==============================================================================
