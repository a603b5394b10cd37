-------------------------------- MODULE Array --------------------------------
(***************************************************************************)
(* An array of objects in a mapped file, with a free list                  *)
(* (collections/collection.c, array.c and, for the mapping,                *)
(* coreShared/shmUtility.c).  A slot is named by its index, for its offset *)
(* in the mapping and for its address alike.  What the objects hold, apart *)
(* from their free list pointer, is left out.                              *)
(*                                                                         *)
(* Callers add objects and remove those they got, and slot 0, which nobody *)
(* is given but array_getById finds, as the tests do (collections/main.c). *)
(* They may remove one again, as collection_remove is "just making sure    *)
(* this thing isn't already free".                                         *)
(***************************************************************************)
EXTENDS Integers, FiniteSets

CONSTANTS SlabIncrement,  \* slabIncrementSize
          MaxSlots        \* bound: slots that the file may come to have

ASSUME ArrayAssumption ==
  SlabIncrement \in Nat \ {0, 1} /\ MaxSlots \in Nat /\ SlabIncrement <= MaxSlots

Slots == 0 .. MaxSlots - 1

(* The null pointer, and the offset 0: the header of the file is there.    *)
Nil == -1

VARIABLES
  size,         \* sizeOfMapping, in slots
  firstFree, lastFree, allocated, \* the header: currentObjectsAllocated
  nextFree,     \* the objects' nextFree
  nextFreeSlot, \* array->nextFreeSlot
  inUse         \* the objects that callers have or may fetch

headerVars == <<firstFree, lastFree, allocated>>
arrayVars  == <<size, headerVars, nextFree, nextFreeSlot, inUse>>

TypeOK ==
  /\ size \in 0 .. MaxSlots
  /\ firstFree \in Slots \cup {Nil} /\ lastFree \in Slots \cup {Nil}
  /\ (firstFree = Nil) <=> (lastFree = Nil)
  /\ nextFree \in [Slots -> Slots \cup {Nil}]
  /\ nextFreeSlot \in 1 .. size
  /\ allocated \in {nextFreeSlot - 1, nextFreeSlot}
  /\ inUse \subseteq 0 .. nextFreeSlot - 1

(* array_init of a new file.  Objects begin with slot 1, "so a pointer of  *)
(* 0 will indicate NULL"; slot 0 is valid all the same, as all is zero.    *)
Init ==
  /\ size = SlabIncrement
  /\ firstFree = Nil /\ lastFree = Nil /\ allocated = 1
  /\ nextFree = [s \in Slots |-> Nil]
  /\ nextFreeSlot = 1
  /\ inUse = {0}

-----------------------------------------------------------------------------
(* Mutant of IsValid: every object counts as in use.                       *)
AlwaysValid(s) == TRUE

(* isValid                                                                 *)
IsValid(s) == nextFree[s] = Nil /\ firstFree # s

(* collection_findFree: the first slot of the free list.                   *)
FindFree(s) ==
  /\ s = firstFree
  /\ firstFree' = IF firstFree = lastFree THEN Nil ELSE nextFree[s]
  /\ lastFree' = IF firstFree = lastFree THEN Nil ELSE lastFree

(* array_addObject, with a slot of the free list.                          *)
AddFromFreeList ==
  /\ firstFree # Nil
  /\ FindFree(firstFree)
  /\ nextFree' = [nextFree EXCEPT ![firstFree] = Nil]
  /\ inUse' = inUse \cup {firstFree}
  /\ UNCHANGED <<size, allocated, nextFreeSlot>>

(* With a slot that was never used.                                        *)
AddAtEnd ==
  /\ firstFree = Nil
  /\ nextFreeSlot < size
  /\ nextFreeSlot' = nextFreeSlot + 1
  /\ allocated' = allocated + 1
  /\ inUse' = inUse \cup {nextFreeSlot}
  /\ UNCHANGED <<size, firstFree, lastFree, nextFree>>

(* With no room left.  coreUtil_resizeSharedMemory unmaps the file, makes  *)
(* it larger and maps it again.  The mapping is private, so the file has   *)
(* never changed: what was in memory, the header included, is lost.        *)
AddWithResize ==
  /\ firstFree = Nil
  /\ nextFreeSlot = size /\ size + SlabIncrement <= MaxSlots
  /\ size' = size + SlabIncrement
  /\ firstFree' = Nil /\ lastFree' = Nil
  /\ allocated' = nextFreeSlot
  /\ nextFree' = [s \in Slots |-> Nil]
  /\ inUse' = inUse \cup {nextFreeSlot}
  /\ nextFreeSlot' = nextFreeSlot + 1

AddObject == AddFromFreeList \/ AddAtEnd \/ AddWithResize

(* collection_remove: at the end of the free list.                         *)
Link(s) ==
  /\ nextFree' = IF firstFree = Nil THEN nextFree ELSE [nextFree EXCEPT ![lastFree] = s]
  /\ firstFree' = IF firstFree = Nil THEN s ELSE firstFree
  /\ lastFree' = s

(* array_removeObject of an object that is in use, or was.                 *)
RemoveObject(s) ==
  /\ s \in 0 .. nextFreeSlot - 1
  /\ IF IsValid(s) THEN Link(s) ELSE UNCHANGED <<nextFree, firstFree, lastFree>>
  /\ inUse' = inUse \ {s}
  /\ UNCHANGED <<size, allocated, nextFreeSlot>>

-----------------------------------------------------------------------------
Next == \/ AddObject
        \/ \E s \in Slots : RemoveObject(s)

Spec == Init /\ [][Next]_arrayVars

-----------------------------------------------------------------------------
(* The free list, in the order in which its slots will be used.            *)
FreeChain ==
  LET at[i \in 0 .. MaxSlots] ==
        IF i = 0 THEN firstFree
        ELSE IF at[i - 1] \in {Nil, lastFree} THEN Nil ELSE nextFree[at[i - 1]]
  IN  at

FreeSlots == {FreeChain[i] : i \in 0 .. MaxSlots} \ {Nil}

(* However often a slot is removed, the free list ends, at lastFree, and   *)
(* has the slots, 0 included, that were valid and are removed: none is lost*)
(* and none will be handed out twice.  Those in use are valid: they can be *)
(* found, and removed.                                                     *)
FreeListSound ==
  /\ FreeSlots = (0 .. nextFreeSlot - 1) \ inUse
  /\ FreeChain[MaxSlots] = Nil
  /\ lastFree # Nil => lastFree \in FreeSlots
  /\ \A s \in inUse : IsValid(s)

==============================================================================
