------------------------------ MODULE Attributes ------------------------------
(***************************************************************************)
(* A client's attribute of its vertices (clientLibrary/attributes.c and    *)
(* jsonProcessing.c): a private array of the client, written by index      *)
(* (array_addObjectByIndex).  addVertices asks the server for as many      *)
(* vertices as a file has objects and then goes through the objects; a     *)
(* number with a fraction loses it and is stored at the vertex, a whole one*)
(* is stored at its place in the file.  Other clients insert vertices too. *)
(*                                                                         *)
(* The attribute is a double; of a whole number it takes the bits of an    *)
(* int.  Numbers of files are written in halves.  Vertex k may be given the*)
(* number k + 1/2 or -(k + 1/2), so that values tell whose they are.       *)
(***************************************************************************)
EXTENDS Integers, FiniteSets

CONSTANTS Increment,   \* slabIncrementSize of the array of attributes
          MaxVertices, \* bound: vertices of the graph
          MaxFile      \* bound: objects of a file

Indices == 0 .. MaxVertices

(* What is in a slot that has an attribute of no vertex.                   *)
Zero == 0
Bits == MaxVertices + 1

Fractions(k) == {2 * k + 1, -(2 * k + 1)}

VARIABLES
  vertices,  \* vertices of the graph
  objects,   \* objects of the file that is parsed
  i,         \* the object it is at
  base,      \* indexArray[0]
  room,      \* slots of the array
  allocated, \* currentObjectsAllocated
  slots,     \* what is in them
  alive,     \* is the client running?
  given,     \* the number with a fraction in each vertex's object, or 0
  whole      \* was there a whole number in a file?

fileVars == <<objects, i, base>>
vars     == <<vertices, fileVars, room, allocated, slots, alive, given, whole>>

AttributesTypeOK ==
  /\ vertices \in Indices
  /\ objects \in 0 .. MaxFile /\ i \in 0 .. objects /\ base \in 0 .. MaxVertices + 1
  /\ room \in Nat /\ allocated \in Nat \ {0}
  /\ slots \in [Indices -> -MaxVertices .. Bits]
  /\ alive \in BOOLEAN /\ whole \in BOOLEAN
  /\ given \in [Indices -> -(2 * MaxVertices + 1) .. 2 * MaxVertices + 1]

(* attribute_init, of a graph with no vertices.                            *)
AttributesInit ==
  /\ vertices = 0
  /\ objects = 0 /\ i = 0 /\ base = 0
  /\ room = Increment /\ allocated = 1
  /\ slots = [k \in Indices |-> Zero]
  /\ alive = TRUE
  /\ given = [k \in Indices |-> 0] /\ whole = FALSE

-----------------------------------------------------------------------------
(* Another client's vertex, at any time.                                   *)
OtherVertex ==
  /\ vertices < MaxVertices
  /\ vertices' = vertices + 1
  /\ UNCHANGED <<fileVars, room, allocated, slots, alive, given, whole>>

(* addVerticesInCore: the server inserts all of them at once.              *)
AddVertices(n) ==
  /\ alive /\ i = objects
  /\ vertices + n <= MaxVertices
  /\ vertices' = vertices + n
  /\ base' = vertices + 1
  /\ objects' = n /\ i' = 0
  /\ UNCHANGED <<room, allocated, slots, alive, given, whole>>

(* Mutant of Refused: the slot after the last is refused too.              *)
RefusedEarly(k) == k >= allocated

(* array_getNextValidObjectFromIndex: there is no object at this index.    *)
Refused(k) == k > allocated

(* The object is copied to NULL, or its slot is outside of the mapping and *)
(* looked at before the array grows.                                       *)
Fault ==
  /\ alive' = FALSE
  /\ UNCHANGED <<room, allocated, slots>>

Store(k, v) ==
  /\ slots' = [slots EXCEPT ![k] = v]
  /\ allocated' = allocated + 1
  /\ UNCHANGED <<room, alive>>

(* The slot could be looked at, as a mapping ends with a page.  The array  *)
(* is mapped again, and was private: its header and all slots are lost.    *)
StoreWithResize(k, v) ==
  LET diff == k + 1 - room
  IN  /\ room' = room + Increment + (IF diff > Increment THEN diff ELSE 0)
      /\ slots' = [x \in Indices |-> IF x = k THEN v ELSE Zero]
      /\ allocated' = k
      /\ UNCHANGED alive

(* array_addObjectByIndex                                                  *)
AddObjectByIndex(k, v) ==
  \/ Refused(k) /\ Fault
  \/ ~Refused(k) /\ k < room /\ Store(k, v)
  \/ ~Refused(k) /\ k >= room /\ (Fault \/ StoreWithResize(k, v))

(* (int)value->u.number.d: towards zero.                                   *)
Truncate(n) == IF n >= 0 THEN n \div 2 ELSE -((-n) \div 2)

(* attribute_addDoubleWithIndex, of a number that was made an int.         *)
AddDouble ==
  /\ \E n \in Fractions(base + i) :
       /\ AddObjectByIndex(base + i, Truncate(n))
       /\ given' = [given EXCEPT ![base + i] = n]
  /\ UNCHANGED whole

(* attribute_addIntegerWithIndex                                           *)
AddInteger ==
  /\ AddObjectByIndex(i, Bits)
  /\ whole' = TRUE
  /\ UNCHANGED given

(* The object does not have the attribute.                                 *)
AddNothing == UNCHANGED <<room, allocated, slots, alive, given, whole>>

(* json_parseArrayOfObjectAndFindAttributes: the next object.              *)
ParseObject ==
  /\ alive /\ i < objects
  /\ AddDouble \/ AddInteger \/ AddNothing
  /\ i' = i + 1
  /\ UNCHANGED <<vertices, objects, base>>

AttributesNext ==
  \/ OtherVertex
  \/ \E n \in 1 .. MaxFile : AddVertices(n)
  \/ ParseObject

-----------------------------------------------------------------------------
(* attribute_getDouble                                                     *)
GetDouble(k) == IF Refused(k) THEN Zero ELSE slots[k]

(* v is n halves without the fraction.                                     *)
IsWholePart(v, n) == IF n >= 0 THEN n - 2 * v \in {0, 1} ELSE 2 * v - n \in {0, 1}

GivenTo == {k \in Indices : given[k] # 0}

(* Every vertex has the whole part of the number it was given, whatever    *)
(* other clients insert, and the others have none: as long as there are    *)
(* only numbers with fractions and the array has not grown.  Until then a  *)
(* client never dies of adding it whose vertices all have it, and are all  *)
(* the graph has as far as they go.  (It dies of the first gap: another    *)
(* client's vertex, or one whose object does not have the attribute.)      *)
AttributesFound ==
  \/ whole \/ room # Increment
  \/ /\ alive
     /\ GivenTo \subseteq 1 .. vertices
     /\ \A k \in 1 .. vertices : IsWholePart(GetDouble(k), given[k])
  \/ /\ ~alive
     /\ GivenTo # 1 .. Cardinality(GivenTo) \/ Cardinality(GivenTo) >= Increment
===============================================================================
