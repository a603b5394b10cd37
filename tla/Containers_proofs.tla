--------------------------- MODULE Containers_proofs ---------------------------
(***************************************************************************)
(* Proofs about the data structures in mapped memory, for arrays of any    *)
(* size and increment and trees of any size: the attributes, the free list *)
(* of an array, the lists in one, and the red-black tree.                  *)
(***************************************************************************)
EXTENDS Containers, FiniteSetTheorems, NaturalsInduction, WellFoundedInduction, TLAPS

(* Attributes: until the array grows, or a whole number is stored, every   *)
(* slot has the whole part of what its vertex was given, and one fewer than*)
(* are allocated were given something.  A client dies at a gap, or at the  *)
(* end of the array.                                                       *)
G == {k \in 0 .. MaxVertices : given[k] # 0}

Numbers ==
  \/ /\ alive
     /\ attrAllocated = 1 + Cardinality(G)
     /\ \A k \in 0 .. MaxVertices : slots[k] = A!Truncate(given[k])
     /\ \A k \in G : k <= attrAllocated
  \/ /\ ~alive
     /\ G # 1 .. Cardinality(G) \/ Cardinality(G) >= Increment

AttributesInv ==
  /\ A!AttributesTypeOK
  /\ room >= Increment
  /\ G \subseteq 1 .. vertices
  /\ G \subseteq 1 .. base + i - 1
  /\ base + objects - 1 <= vertices
  /\ objects > 0 => base > 0
  /\ whole \/ room # Increment \/ Numbers
-----------------------------------------------------------------------------
(* What the proofs use of the constants.                                   *)
LEMMA AttributeConstants ==
  Increment \in Nat /\ Increment > 1 /\ MaxVertices \in Nat /\ MaxFile \in Nat
BY ContainersAssumption

LEMMA SameCardinality == \A S : A!Cardinality(S) = Cardinality(S)
BY DEF A!Cardinality, Cardinality

(* A number loses its fraction, and no vertex is given the number 0.       *)
LEMMA Truncated ==
  \A n \in Int : A!Truncate(n) \in Int /\ A!IsWholePart(A!Truncate(n), n)
BY DEF A!Truncate, A!IsWholePart

LEMMA TruncateFraction ==
  ASSUME NEW k \in 1 .. MaxVertices, NEW n \in A!Fractions(k)
  PROVE  /\ n \in -(2 * MaxVertices + 1) .. 2 * MaxVertices + 1 /\ n # 0
         /\ A!Truncate(n) \in -MaxVertices .. MaxVertices + 1
BY AttributeConstants DEF A!Truncate, A!Fractions

LEMMA TruncateZero == A!Truncate(0) = 0
BY DEF A!Truncate

(* One more vertex is given its attribute.                                 *)
LEMMA GivenGrows ==
  ASSUME NEW S, S \subseteq 1 .. base + i - 1, base \in Nat, i \in Nat
  PROVE  /\ Cardinality(S) \in Nat
         /\ Cardinality(S \cup {base + i}) = 1 + Cardinality(S)
<1>1. base + i - 1 \in Int /\ 1 \in Int /\ base + i \notin S
  OBVIOUS
<1>2. IsFiniteSet(S)
  BY <1>1, FS_Interval, FS_Subset
<1> QED BY <1>1, <1>2, FS_AddElement, FS_CardinalityType

LEMMA AttributesStep ==
  ASSUME AttributesInv, A!AttributesNext
  PROVE  AttributesInv'
<1> USE AttributeConstants DEF A!Indices, A!Bits, A!Zero, A!fileVars
<1>1. /\ vertices \in 0 .. MaxVertices
      /\ objects \in 0 .. MaxFile /\ i \in 0 .. objects /\ base \in 0 .. MaxVertices + 1
      /\ room \in Nat /\ attrAllocated \in Nat \ {0}
      /\ slots \in [0 .. MaxVertices -> -MaxVertices .. MaxVertices + 1]
      /\ alive \in BOOLEAN /\ whole \in BOOLEAN
      /\ given \in [0 .. MaxVertices -> -(2 * MaxVertices + 1) .. 2 * MaxVertices + 1]
      /\ G \subseteq 1 .. vertices /\ room >= Increment
      /\ G \subseteq 1 .. base + i - 1 /\ base + objects - 1 <= vertices
      /\ objects > 0 => base > 0
  BY DEF AttributesInv, A!AttributesTypeOK
<1>2. CASE A!OtherVertex
  <2>1. G' = G
    BY <1>2 DEF A!OtherVertex, G
  <2> QED BY <1>1, <1>2, <2>1 DEF A!OtherVertex, AttributesInv, A!AttributesTypeOK, Numbers
<1>3. ASSUME NEW n \in 1 .. MaxFile, A!AddVertices(n) PROVE AttributesInv'
  <2>1. G' = G
    BY <1>3 DEF A!AddVertices, G
  <2> QED BY <1>1, <1>3, <2>1 DEF A!AddVertices, AttributesInv, A!AttributesTypeOK, Numbers
<1>4. CASE A!ParseObject
  <2> DEFINE k == base + i
             ArrayFacts == /\ room' \in Nat /\ attrAllocated' \in Nat \ {0} /\ room' >= Increment
                           /\ slots' \in [0 .. MaxVertices -> -MaxVertices .. MaxVertices + 1]
                           /\ alive' \in BOOLEAN
                           /\ room # Increment => room' # Increment
  <2>1. /\ alive /\ i < objects /\ i' = i + 1 /\ UNCHANGED <<vertices, objects, base>>
        /\ k \in 1 .. vertices /\ k \in 0 .. MaxVertices /\ i \in 0 .. MaxVertices
        /\ k \notin G /\ k = base + i /\ k \in Int
    BY <1>1, <1>4 DEF A!ParseObject
  <2>b. vertices' \in 0 .. MaxVertices /\ objects' \in 0 .. MaxFile /\ i' \in 0 .. objects'
        /\ base' \in 0 .. MaxVertices + 1
    BY <1>1, <2>1
  <2>2. G \subseteq 1 .. base + i' - 1 /\ G \cup {k} \subseteq 1 .. base + i' - 1
    BY <1>1, <2>1
  <2>3. ASSUME NEW j \in 0 .. MaxVertices, NEW v \in -MaxVertices .. MaxVertices + 1, A!AddObjectByIndex(j, v)
        PROVE  ArrayFacts
    <3>1. CASE A!Fault
      BY <1>1, <3>1 DEF A!Fault
    <3>2. CASE A!Store(j, v)
      BY <1>1, <3>2 DEF A!Store
    <3>3. CASE j >= room /\ A!StoreWithResize(j, v)
      <4>1. room' \in Nat /\ room' > Increment
        BY <1>1, <3>3, <2>3 DEF A!StoreWithResize
      <4>2. slots' \in [0 .. MaxVertices -> -MaxVertices .. MaxVertices + 1]
        BY <1>1, <3>3, <2>3 DEF A!StoreWithResize
      <4>3. attrAllocated' \in Nat \ {0} /\ alive' \in BOOLEAN
        BY <1>1, <3>3, <2>3 DEF A!StoreWithResize
      <4> QED BY <4>1, <4>2, <4>3
    <3> QED BY <2>3, <3>1, <3>2, <3>3 DEF A!AddObjectByIndex
  <2> HIDE DEF k
  <2>4. CASE A!AddNothing
    <3>1. G' = G
      BY <2>4 DEF A!AddNothing, G
    <3>2. Numbers' <=> Numbers
      BY <2>4, <3>1 DEF A!AddNothing, Numbers
    <3> QED BY <1>1, <2>1, <2>2, <2>4, <3>1, <3>2 DEF A!AddNothing, AttributesInv, A!AttributesTypeOK
  <2>5. CASE A!AddInteger
    <3>1. A!AddObjectByIndex(i, MaxVertices + 1) /\ whole' = TRUE /\ UNCHANGED given /\ G' = G
      BY <2>5 DEF A!AddInteger, G
    <3>2. ArrayFacts
      <4>1. i \in 0 .. MaxVertices /\ MaxVertices + 1 \in -MaxVertices .. MaxVertices + 1
        BY <2>1
      <4> HIDE DEF ArrayFacts
      <4> QED BY <2>3, <3>1, <4>1
    <3>3. G' \subseteq 1 .. vertices' /\ G' \subseteq 1 .. base + i' - 1
      BY <1>1, <2>1, <2>2, <3>1
    <3>4. A!AttributesTypeOK'
      <4>1. given' \in [0 .. MaxVertices -> -(2 * MaxVertices + 1) .. 2 * MaxVertices + 1] /\ whole' \in BOOLEAN
        BY <1>1, <3>1
      <4> QED BY <2>b, <3>2, <4>1 DEF A!AttributesTypeOK
    <3> QED BY <1>1, <2>1, <3>1, <3>2, <3>3, <3>4 DEF AttributesInv
  <2>6. CASE A!AddDouble
    <3>0. PICK n \in A!Fractions(k) :
               A!AddObjectByIndex(k, A!Truncate(n)) /\ given' = [given EXCEPT ![k] = n]
      BY <2>1, <2>6 DEF A!AddDouble
    <3> DEFINE w == A!Truncate(n)
    <3>1. A!AddObjectByIndex(k, w) /\ G' = G \cup {k} /\ UNCHANGED whole
      <4>1. n # 0
        BY <2>1, TruncateFraction
      <4>2. UNCHANGED whole
        BY <2>6 DEF A!AddDouble
      <4> QED BY <1>1, <2>1, <3>0, <4>1, <4>2 DEF G
    <3>a. w \in -MaxVertices .. MaxVertices + 1 /\ n \in -(2 * MaxVertices + 1) .. 2 * MaxVertices + 1
      BY <2>1, TruncateFraction
    <3> HIDE DEF w
    <3>2. Cardinality(G) \in Nat /\ Cardinality(G') = 1 + Cardinality(G)
      <4>1. base \in Nat /\ i \in Nat /\ k = base + i /\ G' = G \cup {k} /\ G \subseteq 1 .. base + i - 1
        BY <1>1, <2>1, <3>1
      <4> QED BY <4>1, GivenGrows
    <3>3. ASSUME ~whole, room' = Increment PROVE Numbers'
      <4>1. room = Increment /\ Numbers
        BY <1>1, <2>1, <2>3, <3>1, <3>a, <3>3 DEF AttributesInv
      <4>2. attrAllocated = 1 + Cardinality(G)
        BY <2>1, <4>1 DEF Numbers
      <4>3. CASE k > attrAllocated
        <5>1. ~alive'
          <6>1. A!Refused(k)
            BY <4>3 DEF A!Refused
          <6> QED BY <3>1, <6>1 DEF A!AddObjectByIndex, A!Fault
        <5>2. k \in G' /\ ~(k \in 1 .. Cardinality(G'))
          BY <2>1, <3>1, <3>2, <4>2, <4>3
        <5> QED BY <5>1, <5>2 DEF Numbers
      <4>4. CASE k <= attrAllocated /\ k >= room
        <5>1. ~alive'
          <6>1. ~(k < room) /\ ~A!Refused(k)
            BY <1>1, <2>1, <4>4 DEF A!Refused
          <6>2. A!Fault \/ A!StoreWithResize(k, w)
            BY <3>1, <6>1 DEF A!AddObjectByIndex
          <6>3. ASSUME A!StoreWithResize(k, w) PROVE FALSE
            <7>1. room' = room + Increment + (IF k + 1 - room > Increment THEN k + 1 - room ELSE 0)
              BY <6>3 DEF A!StoreWithResize
            <7>2. room' > Increment
              BY <1>1, <2>1, <7>1
            <7> QED BY <3>3, <7>2
          <6> QED BY <6>2, <6>3 DEF A!Fault
        <5>2. Cardinality(G') >= Increment
          BY <1>1, <2>1, <3>2, <4>1, <4>2, <4>4
        <5> QED BY <5>1, <5>2 DEF Numbers
      <4>5. CASE k <= attrAllocated /\ k < room
        <5>1. slots' = [slots EXCEPT ![k] = w] /\ attrAllocated' = attrAllocated + 1 /\ alive' = alive
          <6>1. ~(k >= room) /\ ~A!Refused(k)
            BY <1>1, <2>1, <4>5 DEF A!Refused
          <6>2. A!Store(k, w)
            BY <3>1, <6>1 DEF A!AddObjectByIndex
          <6> QED BY <6>2 DEF A!Store
        <5>2. \A j \in 0 .. MaxVertices : slots'[j] = A!Truncate(given'[j])
          <6>1. \A j \in 0 .. MaxVertices : slots[j] = A!Truncate(given[j])
            BY <2>1, <4>1 DEF Numbers
          <6>2. slots' = [slots EXCEPT ![k] = A!Truncate(n)]
            BY <5>1 DEF w
          <6>3. slots \in [0 .. MaxVertices -> -MaxVertices .. MaxVertices + 1]
            BY <1>1
          <6>4. given \in [0 .. MaxVertices -> -(2 * MaxVertices + 1) .. 2 * MaxVertices + 1]
            BY <1>1
          <6> SUFFICES ASSUME NEW j \in 0 .. MaxVertices PROVE slots'[j] = A!Truncate(given'[j])
            OBVIOUS
          <6>5. CASE j = k
            BY <2>1, <3>0, <6>2, <6>3, <6>4, <6>5
          <6>6. CASE j # k
            BY <2>1, <3>0, <6>1, <6>2, <6>3, <6>4, <6>6
          <6> QED BY <6>5, <6>6
        <5>3. \A j \in G' : j <= attrAllocated'
          BY <1>1, <2>1, <3>1, <4>1, <4>5, <5>1 DEF Numbers
        <5>4. attrAllocated' = 1 + Cardinality(G') /\ alive'
          <6>1. attrAllocated \in Nat /\ alive
            BY <1>1, <2>1
          <6> QED BY <3>2, <4>2, <5>1, <6>1
        <5> QED BY <5>2, <5>3, <5>4 DEF Numbers
      <4> QED BY <1>1, <2>1, <4>3, <4>4, <4>5
    <3>4. G' \subseteq 1 .. vertices'
      BY <1>1, <2>1, <3>1
    <3>5. given' \in [0 .. MaxVertices -> -(2 * MaxVertices + 1) .. 2 * MaxVertices + 1]
      BY <1>1, <2>1, <3>0, <3>a
    <3>6. ArrayFacts
      BY <2>1, <2>3, <3>1, <3>a
    <3>7. G' \subseteq 1 .. base + i' - 1 /\ UNCHANGED whole
      BY <2>2, <3>1
    <3>8. A!AttributesTypeOK'
      <4>1. whole' \in BOOLEAN
        BY <1>1, <3>7
      <4> QED BY <2>b, <3>5, <3>6, <4>1 DEF A!AttributesTypeOK
    <3> QED BY <1>1, <2>1, <3>3, <3>4, <3>6, <3>7, <3>8 DEF AttributesInv
  <2> QED BY <1>4, <2>4, <2>5, <2>6 DEF A!ParseObject
<1> QED BY <1>2, <1>3, <1>4 DEF A!AttributesNext

(* The client library begins with an empty array, and only it changes it.  *)
LEMMA AttributesBegin == ContainersInit => AttributesInv
<1> SUFFICES ASSUME ContainersInit PROVE AttributesInv
  OBVIOUS
<1>1. A!AttributesInit
  BY DEF ContainersInit
<1>2. G = {} /\ Cardinality(G) = 0
  <2>1. G = {}
    BY <1>1 DEF A!AttributesInit, A!Indices, G
  <2> QED BY <2>1, FS_EmptySet
<1>3. slots = [k \in 0 .. MaxVertices |-> 0]
  BY <1>1 DEF A!AttributesInit, A!Indices, A!Zero
<1>4. A!AttributesTypeOK
  <2>1. slots \in [A!Indices -> -MaxVertices .. A!Bits]
    BY <1>3, AttributeConstants DEF A!Indices, A!Bits
  <2>3. given \in [A!Indices -> -(2 * MaxVertices + 1) .. 2 * MaxVertices + 1]
    BY <1>1, AttributeConstants DEF A!AttributesInit, A!Indices
  <2>2. /\ vertices \in A!Indices
        /\ objects \in 0 .. MaxFile /\ i \in 0 .. objects /\ base \in 0 .. MaxVertices + 1
        /\ room \in Nat /\ attrAllocated \in Nat \ {0}
        /\ alive \in BOOLEAN /\ whole \in BOOLEAN
    <3>1. /\ vertices = 0 /\ objects = 0 /\ i = 0 /\ base = 0 /\ room = Increment
          /\ attrAllocated = 1 /\ alive = TRUE /\ whole = FALSE
      BY <1>1 DEF A!AttributesInit
    <3>2. vertices \in A!Indices /\ objects \in 0 .. MaxFile /\ base \in 0 .. MaxVertices + 1
      BY <3>1, AttributeConstants DEF A!Indices
    <3>3. i \in 0 .. objects /\ room \in Nat /\ attrAllocated \in Nat \ {0}
      BY <3>1, AttributeConstants
    <3>4. alive \in BOOLEAN /\ whole \in BOOLEAN
      BY <3>1
    <3> QED BY <3>2, <3>3, <3>4
  <2> QED BY <2>1, <2>2, <2>3 DEF A!AttributesTypeOK
<1>5. Numbers
  <2>1. \A k \in 0 .. MaxVertices : slots[k] = A!Truncate(given[k])
    BY <1>1, <1>3, TruncateZero DEF A!AttributesInit, A!Indices
  <2> QED BY <1>1, <1>2, <2>1 DEF A!AttributesInit, Numbers
<1> QED BY <1>1, <1>2, <1>4, <1>5, AttributeConstants
        DEF A!AttributesInit, AttributesInv, A!AttributesTypeOK, A!Indices, A!Zero, Numbers

LEMMA AttributesKept == AttributesInv /\ [ContainersNext]_allVars => AttributesInv'
<1> SUFFICES ASSUME AttributesInv, [ContainersNext]_allVars PROVE AttributesInv'
  OBVIOUS
<1>1. A!AttributesNext \/ UNCHANGED attrVars
  BY DEF ContainersNext, allVars
<1>2. UNCHANGED attrVars => AttributesInv'
  BY DEF attrVars, AttributesInv, A!AttributesTypeOK, Numbers, G
<1> QED BY <1>1, <1>2, AttributesStep

(* Until a client stores a whole number or its array grows, each vertex has*)
(* the whole part of the number it was given, and the client dies only at a*)
(* gap or the end of the array, for any number of files and of other       *)
(* clients' vertices (AttributesFound).                                    *)
THEOREM AlwaysAttributesFound == ContainersSpec => []AttributesFound
<1>1. AttributesInv => AttributesFound
  <2> SUFFICES ASSUME AttributesInv PROVE AttributesFound
    OBVIOUS
  <2>0. A!GivenTo = G
    BY DEF A!GivenTo, A!Indices, G
  <2>1. CASE whole \/ room # Increment
    BY <2>1 DEF AttributesFound, A!AttributesFound
  <2>2. CASE Numbers
    <3>1. CASE alive
      <4>1. \A k \in 1 .. vertices : k \in 0 .. MaxVertices /\ given[k] \in Int
        BY AttributeConstants DEF AttributesInv, A!AttributesTypeOK, A!Indices
      <4>2. \A k \in 1 .. vertices : A!GetDouble(k) = A!Truncate(given[k])
        <5> SUFFICES ASSUME NEW k \in 1 .. vertices PROVE A!GetDouble(k) = A!Truncate(given[k])
          OBVIOUS
        <5>1. slots[k] = A!Truncate(given[k]) /\ (given[k] # 0 => k <= attrAllocated)
          BY <2>2, <3>1, <4>1 DEF Numbers, G
        <5>2. k \in Int /\ attrAllocated \in Int
          BY <4>1 DEF AttributesInv, A!AttributesTypeOK
        <5>3. CASE A!Refused(k)
          BY <5>1, <5>2, <5>3, TruncateZero DEF A!GetDouble, A!Refused, A!Zero
        <5>4. CASE ~A!Refused(k)
          BY <5>1, <5>4 DEF A!GetDouble
        <5> QED BY <5>3, <5>4
      <4>3. \A k \in 1 .. vertices : A!IsWholePart(A!GetDouble(k), given[k])
        BY <4>1, <4>2, Truncated
      <4> QED BY <2>0, <3>1, <4>3 DEF AttributesFound, A!AttributesFound, AttributesInv
    <3>2. CASE ~alive
      BY <2>0, <2>2, <3>2, SameCardinality DEF Numbers, AttributesFound, A!AttributesFound
    <3> QED BY <3>1, <3>2
  <2> QED BY <2>1, <2>2 DEF AttributesInv
<1> QED BY <1>1, AttributesBegin, AttributesKept, PTL DEF ContainersSpec
-----------------------------------------------------------------------------
(* The free list has the slots of s, each once: those that were used and   *)
(* are not in use.  No pointer is left in another slot.  The last one's    *)
(* may point to itself: collection_remove takes it for an object in use.   *)
Chain(n, s) ==
  /\ \A j, k \in 1 .. n : s[j] = s[k] => j = k
  /\ firstFree = IF n = 0 THEN Nil ELSE s[1]
  /\ lastFree = IF n = 0 THEN Nil ELSE s[n]
  /\ \A j \in 1 .. n - 1 : nextFree[s[j]] = s[j + 1]
  /\ n # 0 => nextFree[s[n]] \in {Nil, s[n]}
  /\ \A x \in Slots : (\A j \in 1 .. n : s[j] # x) => nextFree[x] = Nil
  /\ \A j \in 1 .. n : s[j] \in (0 .. nextFreeSlot - 1) \ inUse
  /\ \A x \in (0 .. nextFreeSlot - 1) \ inUse : \E j \in 1 .. n : s[j] = x

ArrayInv == TypeOK /\ \E n \in Nat : \E s \in [1 .. n -> Slots] : Chain(n, s)

LEMMA ArrayConstants ==
  /\ SlabIncrement \in Nat /\ SlabIncrement > 1 /\ MaxSlots \in Nat /\ SlabIncrement <= MaxSlots
  /\ Nil = -1 /\ Nil \notin Slots /\ \A x \in Slots : x \in Nat
BY ArrayAssumption DEF Nil, Slots

(* Every step leaves a chain: a slot is taken from its head, or put at its *)
(* end, unless it is in it, or the slots are all in use.                   *)
LEMMA ChainTaken ==
  ASSUME TypeOK, NEW n \in Nat, NEW s \in [1 .. n -> Slots], Chain(n, s), AddFromFreeList
  PROVE  ArrayInv'
<1> USE ArrayConstants
<1> DEFINE t == [j \in 1 .. n - 1 |-> s[j + 1]]
<1>1. /\ n > 0 /\ n - 1 \in Nat /\ firstFree = s[1] /\ lastFree = s[n] /\ 1 \in 1 .. n /\ n \in 1 .. n
      /\ \A j \in 1 .. n : s[j] \in Slots
      /\ nextFree \in [Slots -> Slots \cup {Nil}]
  BY DEF AddFromFreeList, Chain, TypeOK
<1>2. /\ t \in [1 .. n - 1 -> Slots]
      /\ \A j \in 1 .. n - 1 : j + 1 \in 1 .. n /\ t[j] = s[j + 1]
  BY <1>1
<1> HIDE DEF t
<1>3. s[1] = s[n] <=> n = 1
  BY <1>1 DEF Chain
<1>4. /\ nextFree' = [nextFree EXCEPT ![s[1]] = Nil] /\ inUse' = inUse \cup {s[1]}
      /\ UNCHANGED <<size, allocated, nextFreeSlot>>
      /\ firstFree' = IF n = 1 THEN Nil ELSE nextFree[s[1]]
      /\ lastFree' = IF n = 1 THEN Nil ELSE s[n]
  BY <1>1, <1>3 DEF AddFromFreeList, FindFree
<1>5. n # 1 => nextFree[s[1]] = s[2] /\ t[1] = s[2] /\ t[n - 1] = s[n] /\ 2 \in 1 .. n
  BY <1>1, <1>2 DEF Chain
<1>6. \A j \in 1 .. n - 1 : s[j + 1] # s[1]
  BY <1>1, <1>2 DEF Chain
<1>7. \A j, k \in 1 .. n - 1 : t[j] = t[k] => j = k
  <2> SUFFICES ASSUME NEW j \in 1 .. n - 1, NEW k \in 1 .. n - 1, s[j + 1] = s[k + 1] PROVE j = k
    BY <1>2
  <2>1. j + 1 \in 1 .. n /\ k + 1 \in 1 .. n
    BY <1>2
  <2>2. j + 1 = k + 1
    BY <2>1 DEF Chain
  <2> QED BY <2>2
<1>8. \A j \in 1 .. n - 2 : nextFree'[t[j]] = t[j + 1]
  <2> SUFFICES ASSUME NEW j \in 1 .. n - 2 PROVE nextFree'[t[j]] = t[j + 1]
    OBVIOUS
  <2>1. j \in 1 .. n - 1 /\ j + 1 \in 1 .. n - 1 /\ j + 1 \in 1 .. n
    OBVIOUS
  <2>2. t[j] = s[j + 1] /\ t[j + 1] = s[j + 1 + 1] /\ nextFree[s[j + 1]] = s[j + 1 + 1]
    BY <1>2, <2>1 DEF Chain
  <2> QED BY <1>1, <1>4, <1>6, <2>1, <2>2
<1>9. n # 1 => nextFree'[t[n - 1]] \in {Nil, t[n - 1]}
  BY <1>1, <1>3, <1>4, <1>5 DEF Chain
<1>10. \A x \in Slots : (\A j \in 1 .. n - 1 : t[j] # x) => nextFree'[x] = Nil
  <2> SUFFICES ASSUME NEW x \in Slots, \A j \in 1 .. n - 1 : t[j] # x PROVE nextFree'[x] = Nil
    OBVIOUS
  <2>1. CASE x = s[1]
    BY <1>1, <1>4, <2>1
  <2>2. CASE x # s[1]
    <3>1. ASSUME NEW j \in 1 .. n PROVE s[j] # x
      <4>1. j # 1 => j - 1 \in 1 .. n - 1 /\ t[j - 1] = s[j]
        BY <1>2
      <4> QED BY <2>2, <4>1
    <3> QED BY <1>1, <1>4, <2>2, <3>1 DEF Chain
  <2> QED BY <2>1, <2>2
<1>11. \A j \in 1 .. n - 1 : t[j] \in (0 .. nextFreeSlot' - 1) \ inUse'
  BY <1>2, <1>4, <1>6 DEF Chain
<1>12. \A x \in (0 .. nextFreeSlot' - 1) \ inUse' : \E j \in 1 .. n - 1 : t[j] = x
  <2> SUFFICES ASSUME NEW x \in (0 .. nextFreeSlot - 1) \ inUse, x # s[1]
               PROVE  \E j \in 1 .. n - 1 : t[j] = x
    BY <1>4
  <2>1. PICK j \in 1 .. n : s[j] = x
    BY DEF Chain
  <2>2. j - 1 \in 1 .. n - 1 /\ t[j - 1] = x
    BY <1>2, <2>1
  <2> QED BY <2>2
<1>13. Chain(n - 1, t)'
  BY <1>4, <1>5, <1>7, <1>8, <1>9, <1>10, <1>11, <1>12 DEF Chain
<1>14. TypeOK'
  <2>1. firstFree' \in Slots \cup {Nil} /\ lastFree' \in Slots \cup {Nil} /\ (firstFree' = Nil <=> lastFree' = Nil)
    BY <1>1, <1>4, <1>5
  <2>2. s[1] \in 0 .. nextFreeSlot - 1
    BY <1>1 DEF Chain
  <2> QED BY <1>1, <1>4, <2>1, <2>2 DEF TypeOK
<1>15. \E m \in Nat : \E u \in [1 .. m -> Slots] : Chain(m, u)'
  BY <1>1, <1>2, <1>13
<1> QED BY <1>14, <1>15 DEF ArrayInv

LEMMA ChainLinked ==
  ASSUME TypeOK, NEW n \in Nat, NEW s \in [1 .. n -> Slots], Chain(n, s),
         NEW x \in Slots, RemoveObject(x)
  PROVE  ArrayInv'
<1> USE ArrayConstants
<1>1. /\ x \in 0 .. nextFreeSlot - 1 /\ inUse' = inUse \ {x}
      /\ UNCHANGED <<size, allocated, nextFreeSlot>>
      /\ nextFree \in [Slots -> Slots \cup {Nil}]
      /\ \A j \in 1 .. n : s[j] \in Slots
  BY DEF RemoveObject, TypeOK
<1>2. /\ n # 0 => /\ firstFree = s[1] /\ lastFree = s[n] /\ 1 \in 1 .. n /\ n \in 1 .. n
                  /\ firstFree # Nil
      /\ n = 0 => firstFree = Nil /\ lastFree = Nil
  BY <1>1 DEF Chain
<1>3. CASE ~IsValid(x)
  <2>1. UNCHANGED <<nextFree, firstFree, lastFree>>
    BY <1>3 DEF RemoveObject
  <2>2. x \notin inUse
    <3>1. SUFFICES ASSUME x \in inUse PROVE FALSE
      OBVIOUS
    <3>2. \A j \in 1 .. n : s[j] # x
      BY <3>1 DEF Chain
    <3>3. nextFree[x] = Nil /\ firstFree # x
      BY <1>2, <3>2 DEF Chain
    <3> QED BY <1>3, <3>3 DEF IsValid
  <2>3. inUse' = inUse
    BY <1>1, <2>2
  <2>4. Chain(n, s)'
    BY <1>1, <2>1, <2>3 DEF Chain
  <2>5. TypeOK'
    BY <1>1, <2>1, <2>3 DEF TypeOK
  <2> QED BY <2>4, <2>5 DEF ArrayInv
<1>4. CASE IsValid(x) /\ x \notin inUse
  <2>1. PICK k \in 1 .. n : s[k] = x
    BY <1>1, <1>4 DEF Chain
  <2>2. k = n /\ n # 0
    <3>1. CASE k \in 1 .. n - 1
      <4>1. nextFree[x] = s[k + 1] /\ k + 1 \in 1 .. n
        BY <2>1, <3>1 DEF Chain
      <4> QED BY <1>1, <1>4, <4>1 DEF IsValid
    <3> QED BY <3>1
  <2>3. /\ nextFree' = [nextFree EXCEPT ![s[n]] = s[n]] /\ firstFree' = firstFree /\ lastFree' = s[n]
        /\ UNCHANGED inUse
    BY <1>1, <1>2, <1>4, <2>1, <2>2 DEF RemoveObject, Link
  <2>4. \A j \in 1 .. n - 1 : s[j] # s[n] /\ s[j] \in Slots
    BY <1>1, <1>2, <2>2 DEF Chain
  <2>5. Chain(n, s)'
    BY <1>1, <1>2, <2>2, <2>3, <2>4 DEF Chain
  <2>6. TypeOK'
    BY <1>1, <1>2, <2>2, <2>3 DEF TypeOK
  <2> QED BY <2>5, <2>6 DEF ArrayInv
<1>5. CASE IsValid(x) /\ x \in inUse
  <2> DEFINE t == [j \in 1 .. n + 1 |-> IF j <= n THEN s[j] ELSE x]
  <2>1. /\ t \in [1 .. n + 1 -> Slots] /\ n + 1 \in Nat /\ t[n + 1] = x
        /\ \A j \in 1 .. n : t[j] = s[j]
    BY <1>1
  <2> HIDE DEF t
  <2>2. \A j \in 1 .. n : s[j] # x
    BY <1>5 DEF Chain
  <2>3. /\ nextFree' = IF n = 0 THEN nextFree ELSE [nextFree EXCEPT ![s[n]] = x]
        /\ firstFree' = (IF n = 0 THEN x ELSE s[1]) /\ lastFree' = x
    BY <1>2, <1>5 DEF RemoveObject, Link
  <2>4. nextFree[x] = Nil
    BY <2>2 DEF Chain
  <2>5. \A j, k \in 1 .. n + 1 : t[j] = t[k] => j = k
    <3> SUFFICES ASSUME NEW j \in 1 .. n + 1, NEW k \in 1 .. n + 1, t[j] = t[k] PROVE j = k
      OBVIOUS
    <3>1. j # n + 1 => j \in 1 .. n
      OBVIOUS
    <3>2. k # n + 1 => k \in 1 .. n
      OBVIOUS
    <3> QED BY <2>1, <2>2, <3>1, <3>2 DEF Chain
  <2>6. \A j \in 1 .. n : nextFree'[t[j]] = t[j + 1]
    <3> SUFFICES ASSUME NEW j \in 1 .. n PROVE nextFree'[t[j]] = t[j + 1]
      OBVIOUS
    <3>1. CASE j = n
      BY <1>1, <1>2, <2>1, <2>3, <3>1
    <3>2. CASE j # n
      <4>1. j \in 1 .. n - 1 /\ j + 1 \in 1 .. n /\ s[j] # s[n]
        BY <1>2, <3>2 DEF Chain
      <4> QED BY <1>1, <2>1, <2>3, <4>1 DEF Chain
    <3> QED BY <3>1, <3>2
  <2>7. nextFree'[t[n + 1]] \in {Nil, t[n + 1]}
    BY <1>1, <1>2, <2>1, <2>2, <2>3, <2>4
  <2>8. \A y \in Slots : (\A j \in 1 .. n + 1 : t[j] # y) => nextFree'[y] = Nil
    <3> SUFFICES ASSUME NEW y \in Slots, \A j \in 1 .. n + 1 : t[j] # y PROVE nextFree'[y] = Nil
      OBVIOUS
    <3>1. \A j \in 1 .. n : j \in 1 .. n + 1 /\ s[j] # y
      BY <2>1
    <3> QED BY <1>1, <1>2, <2>3, <3>1 DEF Chain
  <2>9. \A j \in 1 .. n + 1 : t[j] \in (0 .. nextFreeSlot' - 1) \ inUse'
    <3> SUFFICES ASSUME NEW j \in 1 .. n + 1 PROVE t[j] \in (0 .. nextFreeSlot - 1) \ (inUse \ {x})
      BY <1>1
    <3>1. j # n + 1 => j \in 1 .. n
      OBVIOUS
    <3> QED BY <1>1, <2>1, <3>1 DEF Chain
  <2>10. \A y \in (0 .. nextFreeSlot' - 1) \ inUse' : \E j \in 1 .. n + 1 : t[j] = y
    <3> SUFFICES ASSUME NEW y \in (0 .. nextFreeSlot - 1) \ inUse PROVE \E j \in 1 .. n + 1 : t[j] = y
      BY <1>1, <2>1
    <3>1. PICK j \in 1 .. n : s[j] = y
      BY DEF Chain
    <3>2. j \in 1 .. n + 1
      OBVIOUS
    <3> QED BY <2>1, <3>1, <3>2
  <2>11. t[1] = IF n = 0 THEN x ELSE s[1]
    BY <1>2, <2>1
  <2>12. Chain(n + 1, t)'
    <3>1. n + 1 - 1 = n /\ n + 1 # 0
      OBVIOUS
    <3> QED BY <2>1, <2>3, <2>5, <2>6, <2>7, <2>8, <2>9, <2>10, <2>11, <3>1 DEF Chain
  <2>13. TypeOK'
    BY <1>1, <1>2, <2>3 DEF TypeOK
  <2>14. \E m \in Nat : \E u \in [1 .. m -> Slots] : Chain(m, u)'
    BY <2>1, <2>12
  <2> QED BY <2>13, <2>14 DEF ArrayInv
<1> QED BY <1>3, <1>4, <1>5

LEMMA ArrayStep ==
  ASSUME ArrayInv, Next
  PROVE  ArrayInv'
<1> USE ArrayConstants
<1>1. TypeOK
  BY DEF ArrayInv
<1>2. PICK n \in Nat : \E u \in [1 .. n -> Slots] : Chain(n, u)
  BY DEF ArrayInv
<1>3. PICK s \in [1 .. n -> Slots] : Chain(n, s)
  BY <1>2
<1>4. CASE AddAtEnd \/ AddWithResize
  <2>1. /\ firstFree = Nil /\ lastFree = Nil /\ n = 0
        /\ nextFreeSlot' = nextFreeSlot + 1 /\ inUse' = inUse \cup {nextFreeSlot}
        /\ firstFree' = Nil /\ lastFree' = Nil
    BY <1>1, <1>3, <1>4 DEF Chain, AddAtEnd, AddWithResize, TypeOK
  <2>2. \A x \in Slots : nextFree'[x] = Nil
    BY <1>3, <1>4, <2>1 DEF Chain, AddAtEnd, AddWithResize
  <2>3. (0 .. nextFreeSlot' - 1) \ inUse' = {}
    BY <1>1, <1>3, <2>1 DEF Chain, TypeOK
  <2>4. Chain(n, s)'
    BY <2>1, <2>2, <2>3 DEF Chain
  <2>5. TypeOK'
    BY <1>1, <1>4, <2>1 DEF TypeOK, AddAtEnd, AddWithResize
  <2> QED BY <2>4, <2>5 DEF ArrayInv
<1>5. CASE AddFromFreeList
  BY <1>1, <1>3, <1>5, ChainTaken
<1>6. ASSUME NEW x \in Slots, RemoveObject(x) PROVE ArrayInv'
  BY <1>1, <1>3, <1>6, ChainLinked
<1> QED BY <1>4, <1>5, <1>6 DEF Next, AddObject

(* A set of naturals has a smallest one.                                   *)
LEMMA Smallest ==
  ASSUME NEW S, S \subseteq Nat, S # {}
  PROVE  \E n \in S : \A m \in S : n <= m
<1> DEFINE R == OpToRel(<, Nat)
<1>1. IsWellFoundedOn(R, Nat)
  BY NatLessThanWellFounded
<1> HIDE DEF R
<1>2. PICK n \in S : \A m \in S : ~(<<m, n>> \in R)
  BY <1>1, WFMin
<1>3. \A m \in S : ~(m < n)
  BY <1>2 DEF R, OpToRel
<1> QED BY <1>3

(* As many slots are named by s as there are, at most.                     *)
LEMMA ChainFits ==
  ASSUME NEW n \in Nat, NEW s \in [1 .. n -> Slots], \A j, k \in 1 .. n : s[j] = s[k] => j = k
  PROVE  n <= MaxSlots
<1>1. 0 \in Int /\ MaxSlots - 1 \in Int /\ MaxSlots \in Nat /\ 1 \in Int /\ n \in Int
  BY ArrayConstants
<1>2. IsFiniteSet(Slots)
  BY <1>1, FS_Interval DEF Slots
<1>3. Cardinality(Slots) = MaxSlots
  BY <1>1, FS_Interval DEF Slots
<1>4. s \in Injection(1 .. n, Slots)
  BY DEF Injection, IsInjective
<1>5. Cardinality(1 .. n) = n
  BY <1>1, FS_Interval
<1> QED BY <1>2, <1>3, <1>4, <1>5, FS_Injection

(* FreeChain follows the free list to its end.                             *)
LEMMA ChainWalked ==
  ASSUME TypeOK, NEW n \in Nat, NEW s \in [1 .. n -> Slots], Chain(n, s)
  PROVE  FreeChain = [j \in 0 .. MaxSlots |-> IF j < n THEN s[j + 1] ELSE Nil]
<1> USE ArrayConstants
<1> DEFINE Follows(f) == f = [j \in 0 .. MaxSlots |->
                             IF j = 0 THEN firstFree
                             ELSE IF f[j - 1] \in {Nil, lastFree} THEN Nil ELSE nextFree[f[j - 1]]]
           g == [j \in 0 .. MaxSlots |-> IF j < n THEN s[j + 1] ELSE Nil]
<1>1. /\ \A j \in 1 .. n : s[j] \in Slots /\ s[j] # Nil
      /\ n # 0 => 1 \in 1 .. n /\ n \in 1 .. n
  OBVIOUS
<1>2. Follows(g)
  <2> SUFFICES ASSUME NEW j \in 0 .. MaxSlots
               PROVE  g[j] = IF j = 0 THEN firstFree
                             ELSE IF g[j - 1] \in {Nil, lastFree} THEN Nil ELSE nextFree[g[j - 1]]
    OBVIOUS
  <2>1. CASE j = 0
    BY <1>1, <2>1 DEF Chain
  <2>2. CASE j # 0 /\ j < n
    <3>1. j \in 1 .. n - 1 /\ j \in 1 .. n /\ j - 1 \in 0 .. MaxSlots /\ g[j - 1] = s[j] /\ g[j] = s[j + 1]
      BY <2>2
    <3>2. s[j] # s[n] /\ lastFree = s[n] /\ s[j] # Nil /\ nextFree[s[j]] = s[j + 1]
      BY <1>1, <2>2, <3>1 DEF Chain
    <3> HIDE DEF g
    <3> QED BY <2>2, <3>1, <3>2
  <2>3. CASE j # 0 /\ j = n
    <3>1. g[j - 1] = s[n] /\ g[j] = Nil /\ lastFree = s[n]
      BY <2>3 DEF Chain
    <3> HIDE DEF g
    <3> QED BY <2>3, <3>1
  <2>4. CASE j > n
    <3>1. g[j - 1] = Nil /\ g[j] = Nil /\ j # 0
      BY <2>4
    <3> HIDE DEF g
    <3> QED BY <3>1
  <2> QED BY <2>1, <2>2, <2>3, <2>4
<1>3. ASSUME NEW f, Follows(f) PROVE f = g
  <2> DEFINE Bad == {j \in 0 .. MaxSlots : f[j] # g[j]}
  <2>1. /\ f = [j \in 0 .. MaxSlots |-> f[j]]
        /\ \A j \in 0 .. MaxSlots : f[j] = IF j = 0 THEN firstFree
                                          ELSE IF f[j - 1] \in {Nil, lastFree} THEN Nil
                                          ELSE nextFree[f[j - 1]]
    BY <1>3
  <2>2. \A j \in 0 .. MaxSlots : g[j] = IF j = 0 THEN firstFree
                                        ELSE IF g[j - 1] \in {Nil, lastFree} THEN Nil
                                        ELSE nextFree[g[j - 1]]
    BY <1>2
  <2>3. g = [j \in 0 .. MaxSlots |-> g[j]]
    OBVIOUS
  <2> HIDE DEF g
  <2>4. CASE Bad # {}
    <3>1. Bad \subseteq Nat
      OBVIOUS
    <3>2. PICK b \in Bad : \A m \in Bad : b <= m
      BY <2>4, <3>1, Smallest
    <3>3. b # 0
      BY <2>1, <2>2, <3>2
    <3>4. b - 1 \in 0 .. MaxSlots /\ f[b - 1] = g[b - 1]
      BY <3>2, <3>3
    <3> QED BY <2>1, <2>2, <3>2, <3>3, <3>4
  <2>5. CASE Bad = {}
    <3>1. \A j \in 0 .. MaxSlots : f[j] = g[j]
      BY <2>5
    <3> QED BY <2>1, <2>3, <3>1
  <2> QED BY <2>4, <2>5
<1>4. (CHOOSE f : Follows(f)) = g
  BY <1>2, <1>3
<1>5. FreeChain = CHOOSE f : f = [j \in 0 .. MaxSlots |->
                             IF j = 0 THEN firstFree
                             ELSE IF f[j - 1] \in {Nil, lastFree} THEN Nil ELSE nextFree[f[j - 1]]]
  BY DEF FreeChain
<1> HIDE DEF g
<1>6. FreeChain = g
  BY <1>4, <1>5
<1> QED BY <1>6 DEF g

(* The array of a new file has an empty free list.                         *)
LEMMA ArrayBegins == ContainersInit => ArrayInv
<1> SUFFICES ASSUME ContainersInit PROVE ArrayInv
  OBVIOUS
<1>1. Init
  BY DEF ContainersInit, ListsInit
<1> DEFINE s == [j \in 1 .. 0 |-> 0]
<1>2. s \in [1 .. 0 -> Slots] /\ 1 .. 0 = {}
  OBVIOUS
<1> HIDE DEF s
<1>3. TypeOK
  BY <1>1, ArrayConstants DEF Init, TypeOK, Slots
<1>4. Chain(0, s)
  BY <1>1, <1>2 DEF Init, Chain
<1> QED BY <1>2, <1>3, <1>4 DEF ArrayInv

(* Nothing but the array's operations changes the array.                   *)
LEMMA ArrayKept == ArrayInv /\ [ContainersNext]_allVars => ArrayInv'
<1> SUFFICES ASSUME ArrayInv, [ContainersNext]_allVars PROVE ArrayInv'
  OBVIOUS
<1>1. ListsNext => Next \/ UNCHANGED arrayVars
  BY DEF ListsNext, OtherObjects, AddList, AddObjectToList, RemoveObjectFromList,
         GetFirst, GetNextObject, Next
<1>2. Next \/ UNCHANGED arrayVars
  BY <1>1 DEF ContainersNext, allVars, vars
<1>3. ASSUME UNCHANGED arrayVars PROVE ArrayInv'
  <2>1. PICK n \in Nat : \E u \in [1 .. n -> Slots] : Chain(n, u)
    BY DEF ArrayInv
  <2>2. PICK s \in [1 .. n -> Slots] : Chain(n, s)
    BY <2>1
  <2>3. Chain(n, s)' /\ TypeOK'
    BY <1>3, <2>2 DEF arrayVars, headerVars, ArrayInv, TypeOK, Chain
  <2> QED BY <2>3 DEF ArrayInv
<1> QED BY <1>2, <1>3, ArrayStep

(* The free list ends, and has the slots that were used and are not in use:*)
(* none is lost, and none is handed out twice (FreeListSound).             *)
THEOREM AlwaysFreeListSound == ContainersSpec => []FreeListSound
<1>1. ArrayInv => FreeListSound
  <2> SUFFICES ASSUME ArrayInv PROVE FreeListSound
    OBVIOUS
  <2>1. TypeOK
    BY DEF ArrayInv
  <2>2. PICK n \in Nat : \E u \in [1 .. n -> Slots] : Chain(n, u)
    BY DEF ArrayInv
  <2>3. PICK s \in [1 .. n -> Slots] : Chain(n, s)
    BY <2>2
  <2>4. n <= MaxSlots
    BY <2>3, ChainFits DEF Chain
  <2> DEFINE c == FreeChain
  <2>5. c = [j \in 0 .. MaxSlots |-> IF j < n THEN s[j + 1] ELSE Nil]
    BY <2>1, <2>3, ChainWalked
  <2>6. \A j \in 1 .. n : s[j] \in Slots /\ s[j] # Nil
    BY ArrayConstants
  <2> HIDE DEF c
  <2>7. \A j \in 1 .. n : j - 1 \in 0 .. MaxSlots /\ c[j - 1] = s[j]
    BY <2>4, <2>5, ArrayConstants
  <2>8. \A j \in 0 .. MaxSlots : c[j] # Nil => j + 1 \in 1 .. n /\ c[j] = s[j + 1]
    BY <2>5, ArrayConstants
  <2>9. FreeSlots = {s[j] : j \in 1 .. n}
    BY <2>6, <2>7, <2>8 DEF FreeSlots, c
  <2>10. FreeSlots = (0 .. nextFreeSlot - 1) \ inUse
    BY <2>3, <2>9 DEF Chain
  <2>11. c[MaxSlots] = Nil
    BY <2>4, <2>5, ArrayConstants
  <2>12. lastFree # Nil => lastFree \in FreeSlots
    BY <2>3, <2>9 DEF Chain
  <2>13. \A x \in inUse : IsValid(x)
    <3> SUFFICES ASSUME NEW x \in inUse PROVE IsValid(x)
      OBVIOUS
    <3>1. x \in Slots /\ \A j \in 1 .. n : s[j] # x
      BY <2>1, <2>3, ArrayConstants DEF TypeOK, Chain, Slots
    <3> QED BY <2>3, <3>1, ArrayConstants DEF IsValid, Chain
  <2> QED BY <2>10, <2>11, <2>12, <2>13 DEF FreeListSound, c
<1> QED BY ArrayBegins, ArrayKept, <1>1, PTL DEF ContainersSpec
-----------------------------------------------------------------------------
(* Lists: the pointers of the list, and where the loop over it is.  The    *)
(* first as many members as there are kept steps are behind the loop.  The *)
(* prev of a member that is still to come is the member before it, but for *)
(* one member: that after an object that the loop has just removed.        *)
Passed  == Cardinality(Kept)
Member(j) == IF j \in 1 .. Len(members) THEN members[j] ELSE Nil
Skipped == iter \in removed \/ (seen # <<>> /\ seen[Len(seen)] \in removed)

Forward ==
  /\ members # <<>> => list # Nil
  /\ list # Nil => list \in inUse /\ ptr1[list] = Member(1)
  /\ \A j \in 1 .. Len(members) : ptr1[members[j]] = Member(j + 1)
  /\ \A j, k \in 1 .. Len(members) : members[j] = members[k] => j = k

Backward ==
  /\ iter = Nil /\ seen = <<>> /\ members # <<>> => ptr2[list] = members[Len(members)]
  /\ \A j \in Passed + 1 .. Len(members) :
       (j = Passed + 1 /\ Skipped) \/ ptr2[members[j]] = Member(j - 1)

Loop ==
  /\ seen = <<>> => removed \subseteq {iter}
  /\ list = Nil => iter = Nil /\ seen = <<>>
  /\ Passed <= Len(members)
  /\ \A j \in Kept : Rank(j) \in 1 .. Passed /\ seen[j] = members[Rank(j)]
  /\ iter # Nil \/ seen # <<>> =>
       Member(Passed + 1) = IF iter \in removed THEN ptr1[iter] ELSE iter

ListsInv == ListsTypeOK /\ ArrayInv /\ Forward /\ Backward /\ Loop

(* The slot that array_addObject is about to take is not in use.           *)
LEMMA TargetFresh ==
  ASSUME ArrayInv, AddObject, UNCHANGED size
  PROVE  Target \in Slots \ inUse /\ inUse' = inUse \cup {Target}
<1> USE ArrayConstants
<1>1. TypeOK
  BY DEF ArrayInv
<1>2. PICK n \in Nat : \E u \in [1 .. n -> Slots] : Chain(n, u)
  BY DEF ArrayInv
<1>3. PICK s \in [1 .. n -> Slots] : Chain(n, s)
  BY <1>2
<1>4. CASE AddFromFreeList
  <2>1. n # 0 /\ firstFree = s[1] /\ 1 \in 1 .. n /\ Target = firstFree
    BY <1>3, <1>4 DEF AddFromFreeList, Chain, Target
  <2>2. s[1] \in Slots /\ s[1] \notin inUse
    BY <1>3, <2>1 DEF Chain
  <2> QED BY <1>4, <2>1, <2>2 DEF AddFromFreeList
<1>5. CASE AddAtEnd
  <2>1. Target = nextFreeSlot /\ nextFreeSlot < size /\ inUse' = inUse \cup {nextFreeSlot}
    BY <1>5 DEF AddAtEnd, Target
  <2> QED BY <1>1, <2>1 DEF TypeOK, Slots
<1>6. CASE AddWithResize
  BY <1>1, <1>6 DEF AddWithResize, TypeOK
<1> QED BY <1>4, <1>5, <1>6 DEF AddObject

(* What the loop has passed.                                               *)
LEMMA KeptFacts ==
  ASSUME seen \in Seq(Slots)
  PROVE  /\ IsFiniteSet(Kept) /\ Passed \in Nat
         /\ \A j \in Kept : j \in 1 .. Len(seen) /\ seen[j] \in Slots
         /\ seen = <<>> => Kept = {} /\ Passed = 0
<1>1. IsFiniteSet(1 .. Len(seen)) /\ Kept \subseteq 1 .. Len(seen)
  <2>1. Len(seen) \in Int /\ 1 \in Int
    OBVIOUS
  <2> QED BY <2>1, FS_Interval DEF Kept
<1>2. IsFiniteSet(Kept)
  BY <1>1, FS_Subset
<1>3. Passed \in Nat
  BY <1>2, FS_CardinalityType DEF Passed
<1>4. seen = <<>> => Kept = {}
  BY DEF Kept
<1>5. \A j \in Kept : j \in 1 .. Len(seen) /\ seen[j] \in Slots
  BY DEF Kept
<1>6. Kept = {} => Passed = 0
  BY FS_EmptySet DEF Passed
<1> QED BY <1>2, <1>3, <1>4, <1>5, <1>6

(* An object that the loop stands on, and was not removed, is not behind it*)
LEMMA StandsAhead ==
  ASSUME ListsInv, iter # Nil, iter \notin removed
  PROVE  /\ Passed + 1 \in 1 .. Len(members) /\ iter = members[Passed + 1]
         /\ \A j \in Kept : seen[j] # iter
<1>1. seen \in Seq(Slots) /\ Passed \in Nat
  BY KeptFacts DEF ListsInv, ListsTypeOK
<1>2. Passed + 1 \in 1 .. Len(members) /\ iter = members[Passed + 1]
  BY <1>1 DEF ListsInv, Loop, Member
<1>3. ASSUME NEW j \in Kept PROVE seen[j] # iter
  <2>1. Rank(j) \in 1 .. Len(members) /\ seen[j] = members[Rank(j)] /\ Rank(j) # Passed + 1
    BY <1>1, <1>2 DEF ListsInv, Loop
  <2> QED BY <1>2, <2>1 DEF ListsInv, Forward
<1> QED BY <1>2, <1>3

(* Taking a member out leaves the others, in order.                        *)
LEMMA MemberTaken ==
  ASSUME NEW S, NEW q \in Seq(S), NEW k \in 1 .. Len(q),
         NEW r, r = [j \in 1 .. Len(q) - 1 |-> q[IF j < k THEN j ELSE j + 1]]
  PROVE  /\ r \in Seq(S) /\ Len(r) = Len(q) - 1 /\ Len(r) \in Nat
         /\ \A j \in 1 .. Len(r) : /\ j \in 1 .. Len(q) /\ j + 1 \in 1 .. Len(q)
                                   /\ r[j] = IF j < k THEN q[j] ELSE q[j + 1]
<1>1. \A j \in 1 .. Len(q) - 1 : q[IF j < k THEN j ELSE j + 1] \in S
  OBVIOUS
<1>2. Len(q) - 1 \in Nat
  OBVIOUS
<1>3. r \in Seq(S) /\ Len(r) = Len(q) - 1
  BY <1>1, <1>2
<1> QED BY <1>2, <1>3

(* The members are the same, and so is what the loop has passed, when      *)
(* nothing but the array changes.                                          *)
LEMMA ListsUntouched ==
  ASSUME ListsInv, ArrayInv', UNCHANGED <<linkVars, members, loopVars>>,
         inUse \subseteq inUse' \/ list = Nil, removed \cap inUse' = {}
  PROVE  ListsInv'
<1>1. UNCHANGED <<list, ptr1, ptr2, members, iter, seen, removed>>
  BY DEF linkVars, loopVars
<1>2. list = Nil => members = <<>>
  BY DEF ListsInv, Forward
<1>3. members' \in Seq(inUse' \ {list'})
  BY <1>1, <1>2 DEF ListsInv, ListsTypeOK
<1>4. ListsTypeOK'
  BY <1>1, <1>3 DEF ListsInv, ListsTypeOK, ArrayInv
<1>5. Forward'
  BY <1>1 DEF ListsInv, Forward, Member
<1>6. Kept' = Kept /\ Passed' = Passed /\ Skipped' = Skipped /\ \A j : Member(j)' = Member(j)
  BY <1>1 DEF Passed, Kept, Skipped, Member
<1>7. \A j : Rank(j)' = Rank(j)
  BY <1>6 DEF Rank
<1>8. Backward' /\ Loop'
  BY <1>1, <1>6, <1>7 DEF ListsInv, Backward, Loop
<1> QED BY <1>4, <1>5, <1>8 DEF ListsInv

(* lists_addList                                                           *)
LEMMA AddListStep ==
  ASSUME ListsInv, ArrayInv', AddList
  PROVE  ListsInv'
<1> DEFINE t == Target
<1>1. t \in Slots \ inUse /\ inUse' = inUse \cup {t}
  BY TargetFresh DEF AddList, ListsInv
<1> HIDE DEF t
<1>2. /\ list = Nil /\ list' = t
      /\ ptr1' = [ptr1 EXCEPT ![t] = Nil] /\ ptr2' = [ptr2 EXCEPT ![t] = Nil]
      /\ UNCHANGED <<members, iter, seen, removed>>
  BY DEF AddList, loopVars, t
<1>3. members = <<>> /\ iter = Nil /\ seen = <<>> /\ removed \subseteq {Nil}
  BY <1>2 DEF ListsInv, Forward, Loop
<1>4. removed = {} /\ Nil \notin Slots
  BY <1>3, ArrayConstants DEF ListsInv, ListsTypeOK
<1>5. ListsTypeOK'
  BY <1>1, <1>2, <1>3, <1>4 DEF ListsInv, ListsTypeOK, ArrayInv
<1>6. Forward'
  BY <1>1, <1>2, <1>3 DEF ListsInv, ListsTypeOK, Forward, Member
<1>7. Kept = {} /\ Kept' = {} /\ Passed = 0 /\ Passed' = 0
  BY <1>2, <1>3, FS_EmptySet DEF Kept, Passed
<1>8. Backward' /\ Loop'
  BY <1>2, <1>3, <1>4, <1>7, ArrayConstants DEF Backward, Loop, Member
<1> QED BY <1>5, <1>6, <1>8 DEF ListsInv

(* lists_addObjectToList: the new object is the last member.               *)
LEMMA AddObjectStep ==
  ASSUME ListsInv, ArrayInv', AddObjectToList
  PROVE  ListsInv'
<1> DEFINE t == Target
           n == Len(members)
<1>1. t \in Slots \ inUse /\ inUse' = inUse \cup {t}
  BY TargetFresh DEF AddObjectToList, ListsInv
<1> HIDE DEF t
<1>2. /\ list # Nil /\ iter = Nil /\ seen = <<>>
      /\ members' = Append(members, t)
      /\ UNCHANGED <<list, iter, seen, removed>>
      /\ IF ptr1[list] = Nil
         THEN /\ ptr1' = [ptr1 EXCEPT ![t] = Nil, ![list] = t]
              /\ ptr2' = [ptr2 EXCEPT ![t] = Nil, ![list] = t]
         ELSE /\ ptr1' = [ptr1 EXCEPT ![t] = Nil, ![ptr2[list]] = t]
              /\ ptr2' = [ptr2 EXCEPT ![t] = Nil, ![t] = ptr2[list], ![list] = t]
  BY DEF AddObjectToList, loopVars, t
<1>3. removed = {} /\ Nil \notin Slots
  BY <1>2, ArrayConstants DEF ListsInv, ListsTypeOK, Loop
<1>4. /\ members \in Seq(inUse \ {list}) /\ n \in Nat
      /\ \A j \in 1 .. n : members[j] \in Slots /\ members[j] # t /\ members[j] # list
                         /\ members[j] # Nil
      /\ list \in Slots /\ list # t
      /\ ptr1 \in [Slots -> Slots \cup {Nil}] /\ ptr2 \in [Slots -> Slots \cup {Nil}]
  <2>1. inUse \subseteq Slots
    BY ArrayConstants DEF ListsInv, ArrayInv, TypeOK, Slots
  <2>2. members \in Seq(inUse \ {list}) /\ n \in Nat
    BY DEF ListsInv, ListsTypeOK
  <2>3. \A j \in 1 .. n : members[j] \in inUse \ {list}
    BY <2>2
  <2>4. list \in inUse
    BY <1>2 DEF ListsInv, Forward
  <2> QED BY <1>1, <1>3, <2>1, <2>2, <2>3, <2>4 DEF ListsInv, ListsTypeOK
<1>5. /\ Len(members') = n + 1 /\ members'[n + 1] = t
      /\ \A j \in 1 .. n : members'[j] = members[j]
      /\ members' \in Seq(inUse' \ {list'})
  <2>1. members \in Seq(inUse' \ {list'}) /\ t \in inUse' \ {list'}
    BY <1>1, <1>2, <1>4
  <2> QED BY <1>2, <2>1
<1>6. Kept = {} /\ Kept' = {} /\ Passed = 0 /\ Passed' = 0
  BY <1>2, FS_EmptySet DEF Kept, Passed
<1>7. n # 0 => ptr2[list] = members[n] /\ n \in 1 .. n /\ 1 \in 1 .. n
  BY <1>2, <1>4 DEF ListsInv, Backward
<1>8. ptr1[list] = Member(1) /\ (ptr1[list] = Nil <=> n = 0)
  BY <1>2, <1>4, <1>7 DEF ListsInv, Forward, Member
<1> HIDE DEF n
<1>9. /\ ptr1' \in [Slots -> Slots \cup {Nil}] /\ ptr2' \in [Slots -> Slots \cup {Nil}]
      /\ ptr2'[list] = t /\ ptr1'[t] = Nil
      /\ ptr2'[t] = IF n = 0 THEN Nil ELSE members[n]
      /\ ptr1'[list] = IF n = 0 THEN t ELSE members[1]
  BY <1>1, <1>2, <1>4, <1>7, <1>8 DEF Member, n
<1>10. ASSUME NEW j \in 1 .. n
       PROVE  /\ ptr1'[members[j]] = IF j = n THEN t ELSE members[j + 1]
              /\ ptr2'[members[j]] = IF j = 1 THEN Nil ELSE members[j - 1]
  <2>1. ptr1[members[j]] = IF j = n THEN Nil ELSE members[j + 1]
    BY <1>4, <1>10 DEF ListsInv, Forward, Member, n
  <2>2. ptr2[members[j]] = IF j = 1 THEN Nil ELSE members[j - 1]
    <3>1. ~Skipped
      BY <1>2, <1>3 DEF Skipped
    <3>2. j \in Passed + 1 .. Len(members)
      BY <1>6, <1>10 DEF n
    <3> QED BY <1>4, <1>10, <3>1, <3>2 DEF ListsInv, Backward, Member, n
  <2>3. j # n => members[j] # members[n]
    BY <1>4, <1>7, <1>10 DEF ListsInv, Forward, n
  <2> QED BY <1>1, <1>2, <1>4, <1>7, <1>8, <2>1, <2>2, <2>3
<1>11. ListsTypeOK'
  BY <1>1, <1>2, <1>3, <1>5, <1>9 DEF ListsInv, ListsTypeOK, ArrayInv
<1>12. \A j : Member(j)' = IF j = n + 1 THEN t ELSE IF j \in 1 .. n THEN members[j] ELSE Nil
  BY <1>4, <1>5 DEF Member
<1>13. Forward'
  <2>1. members' # <<>> => list' # Nil
    BY <1>2
  <2>2. list' \in inUse' /\ ptr1'[list'] = Member(1)'
    BY <1>1, <1>2, <1>4, <1>7, <1>9, <1>12 DEF ListsInv, Forward
  <2>3. ASSUME NEW j \in 1 .. n + 1 PROVE ptr1'[members'[j]] = Member(j + 1)'
    <3>1. CASE j = n + 1
      BY <1>4, <1>5, <1>9, <1>12, <3>1, SMTT(30)
    <3>2. CASE j \in 1 .. n
      <4>1. Member(j + 1)' = IF j = n THEN t ELSE members[j + 1]
        BY <1>4, <1>12, <3>2
      <4>2. members'[j] = members[j]
        BY <1>5, <3>2
      <4> QED BY <1>10, <3>2, <4>1, <4>2
    <3> QED BY <1>4, <2>3, <3>1, <3>2
  <2>4. ASSUME NEW j \in 1 .. n + 1, NEW k \in 1 .. n + 1, members'[j] = members'[k] PROVE j = k
    <3>1. ASSUME NEW m \in 1 .. n + 1, m # n + 1
          PROVE  m \in 1 .. n /\ members'[m] = members[m] /\ members[m] # t
      <4>1. m \in 1 .. n
        BY <1>4, <3>1
      <4> QED BY <1>4, <1>5, <4>1
    <3>2. members'[n + 1] = t
      BY <1>5
    <3> QED BY <1>5, <2>4, <3>1, <3>2 DEF ListsInv, Forward, n
  <2> QED BY <1>5, <2>1, <2>2, <2>3, <2>4 DEF Forward
<1>14. Backward'
  <2>1. ASSUME NEW j \in 1 .. n + 1 PROVE ptr2'[members'[j]] = Member(j - 1)'
    <3>1. CASE j = n + 1
      BY <1>4, <1>5, <1>9, <1>12, <3>1, SMTT(30)
    <3>2. CASE j \in 1 .. n
      BY <1>4, <1>5, <1>10, <1>12, <3>2, SMTT(30)
    <3> QED BY <1>4, <2>1, <3>1, <3>2
  <2> QED BY <1>2, <1>5, <1>6, <1>9, <2>1 DEF Backward
<1>15. Loop'
  BY <1>2, <1>3, <1>5, <1>6 DEF Loop, n
<1> QED BY <1>11, <1>13, <1>14, <1>15 DEF ListsInv

(* Members, and NULL, are not among the objects that were removed.         *)
LEMMA MembersThere ==
  ASSUME ListsInv
  PROVE  /\ members \in Seq(inUse \ {list}) /\ Len(members) \in Nat
         /\ \A j \in 1 .. Len(members) :
              members[j] \in Slots /\ members[j] \in inUse /\ members[j] # list
         /\ \A j : Member(j) \in Slots \cup {Nil} /\ Member(j) \notin removed
         /\ list # Nil => list \in Slots
<1> USE ArrayConstants
<1>1. members \in Seq(inUse \ {list}) /\ removed \subseteq Slots \ inUse /\ inUse \subseteq Slots
  BY DEF ListsInv, ListsTypeOK, ArrayInv, TypeOK, Slots
<1>2. \A j \in 1 .. Len(members) : members[j] \in inUse \ {list}
  BY <1>1
<1>3. list # Nil => list \in Slots
  BY DEF ListsInv, ListsTypeOK
<1> QED BY <1>1, <1>2, <1>3 DEF Member

(* lists_removeObjectFromList of the object that the loop stands on.       *)
LEMMA RemoveListObjectStep ==
  ASSUME ListsInv, ArrayInv', NEW s \in Slots, RemoveObjectFromList(s)
  PROVE  ListsInv'
<1> DEFINE n == Len(members)
<1>0. PICK c \in Nat : c = Passed
  BY KeptFacts DEF ListsInv, ListsTypeOK
<1>1. PICK k \in 1 .. n :
        /\ members[k] = s
        /\ members' = [j \in 1 .. n - 1 |-> members[IF j < k THEN j ELSE j + 1]]
  BY DEF RemoveObjectFromList
<1>2. /\ s = iter /\ Unlink(s) /\ inUse' = inUse \ {s} /\ removed' = removed \cup {s}
      /\ UNCHANGED <<list, ptr2, iter, seen>>
      /\ seen # <<>> => seen[Len(seen)] \notin removed
  BY DEF RemoveObjectFromList, RemoveObject
<1>3. /\ members \in Seq(inUse \ {list}) /\ n \in Nat /\ n # 0
      /\ \A j \in 1 .. n : members[j] \in Slots /\ members[j] \in inUse /\ members[j] # list
      /\ Nil \notin Slots /\ list \in Slots /\ list \in inUse /\ list # s
      /\ ptr1 \in [Slots -> Slots \cup {Nil}] /\ ptr2 \in [Slots -> Slots \cup {Nil}]
      /\ removed \subseteq Slots \ inUse
  <2>1. members # <<>>
    BY <1>1
  <2>2. list # Nil /\ list \in inUse
    BY <2>1 DEF ListsInv, Forward
  <2> QED BY <1>1, <2>1, <2>2, MembersThere, ArrayConstants DEF ListsInv, ListsTypeOK
<1>4. s \notin removed /\ iter # Nil
  BY <1>1, <1>2, <1>3
<1>5. c \in Nat /\ c + 1 \in 1 .. n /\ s = members[c + 1] /\ \A j \in Kept : seen[j] # s
  BY <1>0, <1>2, <1>4, StandsAhead
<1>6. k = c + 1
  BY <1>1, <1>5 DEF ListsInv, Forward
<1>7. ~Skipped
  BY <1>2, <1>4 DEF Skipped
<1>8. /\ members' \in Seq(inUse \ {list}) /\ Len(members') = n - 1
      /\ \A j \in 1 .. n - 1 : /\ j \in 1 .. n /\ j + 1 \in 1 .. n
                               /\ members'[j] = IF j <= c THEN members[j] ELSE members[j + 1]
  BY <1>1, <1>3, <1>5, <1>6, MemberTaken
<1>9. Kept' = Kept /\ Passed' = c
  BY <1>0, <1>2, <1>5 DEF Kept, Passed
<1>10. \A j : Rank(j)' = Rank(j)
  BY <1>9 DEF Rank
<1> HIDE DEF n
<1>11. \A j \in Int : Member(j)' = IF j <= c THEN Member(j) ELSE Member(j + 1)
  <2> SUFFICES ASSUME NEW j \in Int PROVE Member(j)' = IF j <= c THEN Member(j) ELSE Member(j + 1)
    OBVIOUS
  <2>1. CASE j \in 1 .. n - 1
    BY <1>8, <2>1 DEF Member, n
  <2>2. CASE j \notin 1 .. n - 1
    <3>1. Member(j)' = Nil
      BY <1>8, <2>2 DEF Member
    <3>2. j <= c => j \notin 1 .. n
      BY <1>3, <1>5, <2>2
    <3>3. j > c => j + 1 \notin 1 .. n
      BY <1>3, <1>5, <2>2
    <3> QED BY <1>5, <3>1, <3>2, <3>3 DEF Member, n
  <2> QED BY <2>1, <2>2
<1>12. ptr1[s] = Member(c + 2)
  BY <1>5 DEF ListsInv, Forward, n
<1>13. ptr1' = [ptr1 EXCEPT ![IF c = 0 THEN list ELSE members[c]] = Member(c + 2)]
  <2>1. ptr2[s] = Member(c)
    BY <1>0, <1>5, <1>7 DEF ListsInv, Backward, n
  <2>2. Member(c) = IF c = 0 THEN Nil ELSE members[c]
    BY <1>3, <1>5 DEF Member, n
  <2>3. c # 0 => members[c] # Nil
    BY <1>3, <1>5
  <2> QED BY <1>2, <1>12, <2>1, <2>2, <2>3 DEF Unlink
<1>14. \A j \in 1 .. n : j # c /\ c # 0 => members[j] # members[c]
  <2>1. c # 0 => c \in 1 .. n
    BY <1>3, <1>5
  <2> QED BY <2>1 DEF ListsInv, Forward, n
<1>15. ListsTypeOK'
  <2>1. ptr1' \in [Slots -> Slots \cup {Nil}]
    BY <1>3, <1>13, MembersThere
  <2>2. \A j \in 1 .. n - 1 : members'[j] \in inUse' \ {list}
    <3> SUFFICES ASSUME NEW j \in 1 .. n - 1 PROVE members'[j] \in inUse \ {list, s}
      BY <1>2
    <3>1. members'[j] \in inUse \ {list}
      BY <1>3, <1>8
    <3>2. PICK m \in 1 .. n : members'[j] = members[m] /\ m # c + 1
      BY <1>5, <1>8
    <3>3. members[m] # s
      BY <1>5, <3>2 DEF ListsInv, Forward, n
    <3> QED BY <3>1, <3>2, <3>3
  <2>3. members' \in Seq(inUse' \ {list'})
    BY <1>2, <1>8, <2>2
  <2> QED BY <1>2, <1>3, <2>1, <2>3 DEF ListsInv, ListsTypeOK, ArrayInv
<1>16. Forward'
  <2>1. list' \in inUse' /\ ptr1'[list'] = Member(1)'
    <3>1. CASE c = 0
      BY <1>2, <1>3, <1>11, <1>13, <3>1
    <3>2. CASE c # 0
      <4>1. c \in 1 .. n /\ members[c] # list /\ 1 <= c
        BY <1>3, <1>5, <3>2
      <4>2. ptr1[list] = Member(1) /\ Member(1)' = Member(1)
        BY <1>3, <1>11, <4>1 DEF ListsInv, Forward
      <4> QED BY <1>2, <1>3, <1>13, <3>2, <4>1, <4>2
    <3> QED BY <3>1, <3>2
  <2>2. ASSUME NEW j \in 1 .. n - 1 PROVE ptr1'[members'[j]] = Member(j + 1)'
    <3>0. /\ j \in 1 .. n /\ j + 1 \in 1 .. n
          /\ ptr1[members[j]] = Member(j + 1) /\ ptr1[members[j + 1]] = Member(j + 2)
      BY <1>8 DEF ListsInv, Forward, n
    <3>1. CASE j < c
      <4>1. ptr1'[members[j]] = ptr1[members[j]]
        BY <1>3, <1>5, <1>13, <1>14, <3>0, <3>1
      <4>2. Member(j + 1)' = Member(j + 1)
        BY <1>5, <1>11, <3>1
      <4> QED BY <1>5, <1>8, <3>0, <3>1, <4>1, <4>2
    <3>2. CASE j = c
      <4>1. Member(j + 1)' = Member(c + 2) /\ members'[j] = members[c] /\ c # 0
        BY <1>5, <1>8, <1>11, <3>2
      <4> QED BY <1>3, <1>13, <3>0, <3>2, <4>1
    <3>3. CASE j > c
      <4>1. ptr1'[members[j + 1]] = ptr1[members[j + 1]]
        <5>1. j + 1 # c
          BY <1>5, <3>3
        <5> QED BY <1>3, <1>13, <1>14, <3>0, <5>1
      <4>2. Member(j + 1)' = Member(j + 2)
        BY <1>5, <1>11, <3>3
      <4> QED BY <1>5, <1>8, <3>0, <3>3, <4>1, <4>2
    <3> QED BY <1>5, <3>1, <3>2, <3>3
  <2>3. ASSUME NEW j \in 1 .. n - 1, NEW m \in 1 .. n - 1, members'[j] = members'[m] PROVE j = m
    <3>1. \A x, y \in 1 .. n : members[x] = members[y] => x = y
      BY DEF ListsInv, Forward, n
    <3>2. /\ members'[j] = IF j <= c THEN members[j] ELSE members[j + 1]
          /\ members'[m] = IF m <= c THEN members[m] ELSE members[m + 1]
          /\ j \in 1 .. n /\ j + 1 \in 1 .. n /\ m \in 1 .. n /\ m + 1 \in 1 .. n
      BY <1>8
    <3>3. CASE j <= c /\ m <= c
      BY <2>3, <3>1, <3>2, <3>3
    <3>4. CASE j <= c /\ ~(m <= c)
      <4>1. j = m + 1
        BY <2>3, <3>1, <3>2, <3>4
      <4> QED BY <1>5, <3>4, <4>1
    <3>5. CASE ~(j <= c) /\ m <= c
      <4>1. j + 1 = m
        BY <2>3, <3>1, <3>2, <3>5
      <4> QED BY <1>5, <3>5, <4>1
    <3>6. CASE ~(j <= c) /\ ~(m <= c)
      <4>1. j + 1 = m + 1
        BY <2>3, <3>1, <3>2, <3>6
      <4> QED BY <4>1
    <3> QED BY <3>3, <3>4, <3>5, <3>6
  <2>4. list' # Nil
    BY <1>2, <1>3
  <2> QED BY <1>8, <2>1, <2>2, <2>3, <2>4 DEF Forward
<1>17. Backward'
  <2>1. Skipped' /\ iter' # Nil
    BY <1>2, <1>4 DEF Skipped
  <2>2. ASSUME NEW j \in c + 1 .. n - 1, j # c + 1 PROVE ptr2'[members'[j]] = Member(j - 1)'
    <3>1. j \in 1 .. n - 1 /\ ~(j <= c) /\ j + 1 \in c + 1 .. n /\ j + 1 # c + 1 /\ j + 1 - 1 = j
      BY <1>3, <1>5, <2>2
    <3>2. members'[j] = members[j + 1]
      BY <1>8, <3>1
    <3>3. ptr2[members[j + 1]] = Member(j)
      BY <1>0, <1>7, <3>1 DEF ListsInv, Backward, n
    <3>4. Member(j - 1)' = Member(j)
      BY <1>5, <1>11, <2>2
    <3> QED BY <1>2, <3>2, <3>3, <3>4
  <2> QED BY <1>8, <1>9, <2>1, <2>2 DEF Backward
<1>18. Loop'
  <2>1. seen' = <<>> => removed' \subseteq {iter'}
    BY <1>2 DEF ListsInv, Loop
  <2>2. list' # Nil /\ Passed' <= Len(members')
    BY <1>2, <1>3, <1>5, <1>8, <1>9
  <2>3. ASSUME NEW j \in Kept PROVE Rank(j) \in 1 .. c /\ seen'[j] = members'[Rank(j)]
    <3>1. Rank(j) \in 1 .. c /\ seen[j] = members[Rank(j)]
      BY <1>0 DEF ListsInv, Loop
    <3>2. Rank(j) \in 1 .. n - 1 /\ Rank(j) <= c
      BY <1>3, <1>5, <3>1
    <3> QED BY <1>2, <1>8, <3>1, <3>2
  <2>4. Member(c + 1)' = ptr1'[iter']
    <3>1. Member(c + 1)' = Member(c + 2)
      <4>1. c + 1 \in Int /\ ~(c + 1 <= c) /\ c + 1 + 1 = c + 2
        BY <1>5
      <4> QED BY <1>11, <4>1
    <3>2. c # 0 => members[c] # s
      BY <1>5, <1>14
    <3> QED BY <1>2, <1>3, <1>12, <1>13, <3>1, <3>2
  <2>5. iter' \in removed'
    BY <1>2
  <2>6. \A j \in Kept' : Rank(j)' \in 1 .. Passed' /\ seen'[j] = members'[Rank(j)']
    BY <1>9, <1>10, <2>3
  <2> QED BY <1>9, <2>1, <2>2, <2>4, <2>5, <2>6 DEF Loop
<1> QED BY <1>15, <1>16, <1>17, <1>18 DEF ListsInv

(* LISTS_FOR_EACH begins.                                                  *)
LEMMA GetFirstStep ==
  ASSUME ListsInv, ArrayInv', GetFirst
  PROVE  ListsInv'
<1>1. /\ list # Nil /\ iter = Nil /\ seen = <<>> /\ iter' = ptr1[list]
      /\ UNCHANGED <<list, ptr1, ptr2, members, seen, removed, inUse>>
  BY DEF GetFirst, linkVars, arrayVars
<1>2. removed = {} /\ ptr1[list] = Member(1)
  BY <1>1, ArrayConstants DEF ListsInv, ListsTypeOK, Loop, Forward
<1>3. ListsTypeOK'
  BY <1>1, <1>2, MembersThere DEF ListsInv, ListsTypeOK, ArrayInv
<1>4. \A j : Member(j)' = Member(j)
  BY <1>1 DEF Member
<1>5. Forward'
  BY <1>1, <1>4 DEF ListsInv, Forward
<1>6. Kept = {} /\ Kept' = {} /\ Passed = 0 /\ Passed' = 0
  BY <1>1, FS_EmptySet DEF Kept, Passed
<1>7. Backward'
  <2>1. ~Skipped
    BY <1>1, <1>2 DEF Skipped
  <2>2. \A j \in 1 .. Len(members) : ptr2[members[j]] = Member(j - 1)
    BY <1>6, <2>1 DEF ListsInv, Backward
  <2>3. members # <<>> => ptr2[list] = members[Len(members)]
    BY <1>1 DEF ListsInv, Backward
  <2> QED BY <1>1, <1>4, <1>6, <2>2, <2>3 DEF Backward
<1>8. Loop'
  BY <1>1, <1>2, <1>4, <1>6, MembersThere DEF Loop
<1> QED BY <1>3, <1>5, <1>7, <1>8 DEF ListsInv

(* LISTS_FOR_EACH goes on from an object that is in the list, or that it   *)
(* has just removed.                                                       *)
LEMMA GetNextStep ==
  ASSUME ListsInv, ArrayInv', GetNextObject
  PROVE  ListsInv'
<1>0. PICK c \in Nat : c = Passed
  BY KeptFacts DEF ListsInv, ListsTypeOK
<1> PICK m \in Nat : m = Len(seen)
  BY DEF ListsInv, ListsTypeOK
<1> DEFINE n == Len(members)
<1>1. /\ iter # Nil /\ iter' = ptr1[iter] /\ seen' = Append(seen, iter)
      /\ UNCHANGED <<list, ptr1, ptr2, members, removed, inUse>>
  BY DEF GetNextObject, linkVars, arrayVars
<1>2. /\ n \in Nat /\ m \in Nat /\ seen \in Seq(Slots) /\ iter \in Slots
      /\ ptr1 \in [Slots -> Slots \cup {Nil}] /\ list # Nil /\ c <= n
  BY <1>0, <1>1 DEF ListsInv, ListsTypeOK, Loop
<1>3. /\ seen' \in Seq(Slots) /\ Len(seen') = m + 1 /\ seen' # <<>> /\ seen'[m + 1] = iter
      /\ \A j \in 1 .. m : seen'[j] = seen[j]
  BY <1>1, <1>2
<1>4. iter' \in Slots \cup {Nil}
  BY <1>1, <1>2
<1>5. ListsTypeOK'
  BY <1>1, <1>3, <1>4 DEF ListsInv, ListsTypeOK, ArrayInv
<1>6. \A j : Member(j)' = Member(j)
  BY <1>1 DEF Member
<1>7. Forward'
  BY <1>1, <1>6 DEF ListsInv, Forward
<1> HIDE DEF n
<1>8. Kept' = IF iter \in removed THEN Kept ELSE Kept \cup {m + 1}
  <2>1. Kept' = {j \in 1 .. m + 1 : seen'[j] \notin removed}
    BY <1>1, <1>3 DEF Kept
  <2>2. Kept = {j \in 1 .. m : seen'[j] \notin removed}
    BY <1>3 DEF Kept
  <2> QED BY <1>2, <1>3, <2>1, <2>2
<1>9. \A j \in Kept : j \in 1 .. m /\ j <= m
  BY <1>2 DEF Kept
<1>10. \A j \in Kept : Rank(j)' = Rank(j)
  <2> SUFFICES ASSUME NEW j \in Kept PROVE Rank(j)' = Rank(j)
    OBVIOUS
  <2>1. {x \in Kept' : x <= j} = {x \in Kept : x <= j}
    BY <1>2, <1>8, <1>9
  <2> QED BY <2>1 DEF Rank
<1>11. \A j \in Kept : Rank(j)' \in 1 .. c /\ seen'[j] = members[Rank(j)']
  BY <1>0, <1>3, <1>9, <1>10 DEF ListsInv, Loop
<1>12. CASE iter \in removed
  <2>1. Kept' = Kept /\ Passed' = c
    BY <1>0, <1>8, <1>12 DEF Passed
  <2>2. iter' = Member(c + 1) /\ iter' \notin removed'
    <3>1. Member(c + 1) = ptr1[iter]
      BY <1>0, <1>1, <1>12 DEF ListsInv, Loop
    <3> QED BY <1>1, <3>1, MembersThere
  <2>3. Loop'
    <3>1. Member(Passed + 1)' = IF iter' \in removed' THEN ptr1'[iter'] ELSE iter'
      BY <1>6, <2>1, <2>2
    <3>2. \A j \in Kept' : Rank(j)' \in 1 .. Passed' /\ seen'[j] = members'[Rank(j)']
      BY <1>1, <1>11, <2>1
    <3> QED BY <1>1, <1>2, <1>3, <2>1, <3>1, <3>2 DEF Loop, n
  <2>4. Backward'
    <3>1. Skipped'
      BY <1>1, <1>3, <1>12 DEF Skipped
    <3>2. \A j \in c + 1 .. n : j # c + 1 => ptr2[members[j]] = Member(j - 1)
      BY <1>0 DEF ListsInv, Backward, n
    <3> QED BY <1>1, <1>3, <1>6, <2>1, <3>1, <3>2 DEF Backward, n
  <2> QED BY <1>5, <1>7, <2>3, <2>4 DEF ListsInv
<1>13. CASE iter \notin removed
  <2>1. c + 1 \in 1 .. n /\ iter = members[c + 1]
    BY <1>0, <1>1, <1>13, StandsAhead DEF n
  <2>2. Kept' = Kept \cup {m + 1} /\ Passed' = c + 1
    <3>1. m + 1 \notin Kept /\ IsFiniteSet(Kept)
      BY <1>2, <1>9, KeptFacts
    <3>2. Cardinality(Kept \cup {m + 1}) = c + 1
      BY <1>0, <3>1, FS_AddElement DEF Passed
    <3> QED BY <1>8, <1>13, <3>2 DEF Passed
  <2>3. iter' = Member(c + 2) /\ iter' \notin removed'
    BY <1>1, <2>1, MembersThere DEF ListsInv, Forward, n
  <2>4. {x \in Kept' : x <= m + 1} = Kept'
    BY <1>2, <1>9, <2>2
  <2>5. Rank(m + 1)' = c + 1
    BY <2>2, <2>4 DEF Rank, Passed
  <2>6. Loop'
    <3>1. Member(Passed + 1)' = IF iter' \in removed' THEN ptr1'[iter'] ELSE iter'
      BY <1>6, <2>2, <2>3
    <3>2. \A j \in Kept' : Rank(j)' \in 1 .. Passed' /\ seen'[j] = members'[Rank(j)']
      <4>1. ASSUME NEW j \in Kept
            PROVE  Rank(j)' \in 1 .. c + 1 /\ seen'[j] = members'[Rank(j)']
        <5>1. Rank(j)' \in 1 .. c /\ seen'[j] = members[Rank(j)']
          BY <1>11
        <5> QED BY <1>0, <1>1, <5>1
      <4>2. Rank(m + 1)' \in 1 .. c + 1 /\ seen'[m + 1] = members'[Rank(m + 1)']
        BY <1>1, <1>3, <2>1, <2>5
      <4> QED BY <2>2, <4>1, <4>2
    <3>3. Passed' <= Len(members')
      BY <1>1, <1>2, <2>1, <2>2 DEF n
    <3> QED BY <1>1, <1>2, <1>3, <3>1, <3>2, <3>3 DEF Loop
  <2>7. Backward'
    <3>1. \A j \in c + 1 .. n : j # c + 1 => ptr2[members[j]] = Member(j - 1)
      BY <1>0 DEF ListsInv, Backward, n
    <3>2. \A j \in c + 1 + 1 .. n : j \in c + 1 .. n /\ j # c + 1
      BY <1>2
    <3> QED BY <1>1, <1>3, <1>6, <2>2, <3>1, <3>2 DEF Backward, n
  <2> QED BY <1>5, <1>7, <2>6, <2>7 DEF ListsInv
<1> QED BY <1>12, <1>13

(* There are no more members than slots.                                   *)
LEMMA MembersFit ==
  ASSUME ListsInv
  PROVE  Len(members) <= MaxSlots
<1> DEFINE n == Len(members)
           s == [j \in 1 .. n |-> members[j]]
<1>1. n \in Nat /\ \A j \in 1 .. n : members[j] \in Slots
  BY MembersThere
<1>2. s \in [1 .. n -> Slots] /\ \A j \in 1 .. n : s[j] = members[j]
  BY <1>1
<1> HIDE DEF s
<1>3. \A j, k \in 1 .. n : s[j] = s[k] => j = k
  BY <1>2 DEF ListsInv, Forward
<1> HIDE DEF n
<1>4. n <= MaxSlots
  BY <1>1, <1>2, <1>3, ChainFits
<1> QED BY <1>4 DEF n

(* A walk over the list finds the members.                                 *)
LEMMA ListWalked == ListsInv => Walk = InOrder /\ Walk[MaxSlots] = Nil
<1> SUFFICES ASSUME ListsInv PROVE Walk = InOrder /\ Walk[MaxSlots] = Nil
  OBVIOUS
<1> USE ArrayConstants
<1> DEFINE n == Len(members)
           Follows(f) == f = [j \in 0 .. MaxSlots |->
                             IF j = 0 THEN IF list = Nil THEN Nil ELSE ptr1[list]
                             ELSE IF f[j - 1] = Nil THEN Nil ELSE ptr1[f[j - 1]]]
           g == InOrder
<1>1. /\ n \in Nat /\ \A j \in 1 .. n : members[j] \in Slots /\ members[j] # Nil
      /\ list = Nil => n = 0
  BY MembersThere DEF ListsInv, Forward
<1>2. n <= MaxSlots
  BY MembersFit
<1>3. \A j \in 0 .. MaxSlots : g[j] = Member(j + 1)
  BY <1>1 DEF InOrder, Member
<1>4. \A j \in 1 .. n : ptr1[members[j]] = Member(j + 1)
  BY DEF ListsInv, Forward
<1>5. (IF list = Nil THEN Nil ELSE ptr1[list]) = Member(1)
  BY <1>1 DEF ListsInv, Forward, Member
<1>6. Follows(g)
  <2>1. g = [j \in 0 .. MaxSlots |-> g[j]]
    BY DEF InOrder
  <2> HIDE DEF g
  <2>2. ASSUME NEW j \in 0 .. MaxSlots, j # 0
        PROVE  g[j] = IF g[j - 1] = Nil THEN Nil ELSE ptr1[g[j - 1]]
    <3>1. g[j - 1] = Member(j) /\ g[j] = Member(j + 1)
      BY <1>3, <2>2
    <3>2. j \in 1 .. n => Member(j) = members[j] /\ members[j] # Nil
      BY <1>1 DEF Member
    <3>3. j \notin 1 .. n => Member(j) = Nil /\ Member(j + 1) = Nil
      BY <1>1, <2>2 DEF Member
    <3> QED BY <1>4, <3>1, <3>2, <3>3
  <2>3. g[0] = IF list = Nil THEN Nil ELSE ptr1[list]
    BY <1>3, <1>5
  <2> QED BY <2>1, <2>2, <2>3
<1>7. ASSUME NEW f, Follows(f) PROVE f = g
  <2> DEFINE Bad == {j \in 0 .. MaxSlots : f[j] # g[j]}
  <2>1. /\ f = [j \in 0 .. MaxSlots |-> f[j]]
        /\ \A j \in 0 .. MaxSlots : f[j] = IF j = 0 THEN IF list = Nil THEN Nil ELSE ptr1[list]
                                          ELSE IF f[j - 1] = Nil THEN Nil ELSE ptr1[f[j - 1]]
    BY <1>7
  <2>2. /\ g = [j \in 0 .. MaxSlots |-> g[j]]
        /\ \A j \in 0 .. MaxSlots : g[j] = IF j = 0 THEN IF list = Nil THEN Nil ELSE ptr1[list]
                                          ELSE IF g[j - 1] = Nil THEN Nil ELSE ptr1[g[j - 1]]
    BY <1>6
  <2> HIDE DEF g
  <2>3. Bad = {}
    <3> SUFFICES ASSUME Bad # {} PROVE FALSE
      OBVIOUS
    <3>1. Bad \subseteq Nat
      OBVIOUS
    <3>2. PICK b \in Bad : \A k \in Bad : b <= k
      BY <3>1, Smallest
    <3>3. b # 0
      BY <2>1, <2>2, <3>2
    <3>4. b - 1 \in 0 .. MaxSlots /\ f[b - 1] = g[b - 1]
      BY <3>2, <3>3
    <3> QED BY <2>1, <2>2, <3>2, <3>3, <3>4
  <2>4. \A j \in 0 .. MaxSlots : f[j] = g[j]
    BY <2>3
  <2> QED BY <2>1, <2>2, <2>4
<1>8. (CHOOSE f : Follows(f)) = g
  BY <1>6, <1>7
<1>9. Walk = CHOOSE f : f = [j \in 0 .. MaxSlots |->
                          IF j = 0 THEN IF list = Nil THEN Nil ELSE ptr1[list]
                          ELSE IF f[j - 1] = Nil THEN Nil ELSE ptr1[f[j - 1]]]
  BY DEF Walk
<1>10. Walk = g
  <2> HIDE DEF g
  <2> QED BY <1>8, <1>9
<1>11. g[MaxSlots] = Nil
  BY <1>1, <1>2 DEF InOrder
<1> QED BY <1>10, <1>11

(* There is no list at first, and only the lists' operations change them.  *)
LEMMA ListsBegin == ContainersInit => ListsInv
<1> SUFFICES ASSUME ContainersInit PROVE ListsInv
  OBVIOUS
<1>1. ListsInit
  BY DEF ContainersInit
<1>2. ArrayInv
  BY ArrayBegins
<1>3. Kept = {} /\ Passed = 0
  BY <1>1, FS_EmptySet DEF ListsInit, Kept, Passed
<1>4. ListsTypeOK
  BY <1>1, <1>2 DEF ListsInit, ListsTypeOK, ArrayInv
<1>5. Forward /\ Backward /\ Loop
  BY <1>1, <1>3 DEF ListsInit, Forward, Backward, Loop
<1> QED BY <1>2, <1>4, <1>5 DEF ListsInv

LEMMA ListsKept == ListsInv /\ [ContainersNext]_allVars => ListsInv'
<1> SUFFICES ASSUME ListsInv, [ContainersNext]_allVars PROVE ListsInv'
  OBVIOUS
<1>0. ArrayInv'
  BY ArrayKept DEF ListsInv
<1>1. CASE ListsNext
  <2>1. CASE OtherObjects
    <3>1. list = Nil /\ UNCHANGED <<linkVars, members, loopVars>>
      BY <2>1 DEF OtherObjects
    <3>2. removed = {}
      BY <3>1, ArrayConstants DEF ListsInv, ListsTypeOK, Loop
    <3> QED BY <1>0, <3>1, <3>2, ListsUntouched
  <2> QED
    BY <1>0, <1>1, <2>1, AddListStep, AddObjectStep, RemoveListObjectStep, GetFirstStep, GetNextStep
    DEF ListsNext
<1>2. CASE UNCHANGED vars
  <2>1. UNCHANGED <<linkVars, members, loopVars, inUse, removed>>
    BY <1>2 DEF vars, loopVars, arrayVars
  <2>2. removed \cap inUse = {}
    BY DEF ListsInv, ListsTypeOK
  <2> QED BY <1>0, <2>1, <2>2, ListsUntouched
<1> QED BY <1>1, <1>2 DEF ContainersNext, allVars

(* A walk over the list finds what was added and not removed, in order,    *)
(* and a loop that removes objects as it goes passes all of them           *)
(* (LoopSeesAll).                                                          *)
THEOREM AlwaysLoopSeesAll == ContainersSpec => []LoopSeesAll
<1>1. ListsInv => LoopSeesAll
  <2> SUFFICES ASSUME ListsInv PROVE LoopSeesAll
    OBVIOUS
  <2>1. PICK c \in Nat : c = Passed
    BY KeptFacts DEF ListsInv, ListsTypeOK
  <2>2. Len(members) \in Nat /\ c <= Len(members)
    BY <2>1, MembersThere DEF ListsInv, Loop
  <2>3. \A j \in Kept : Rank(j) <= Len(members) /\ seen[j] = members[Rank(j)]
    BY <2>1, <2>2 DEF ListsInv, Loop
  <2>4. ASSUME iter # Nil \/ seen # <<>>, iter \notin removed PROVE iter = InOrder[c]
    <3>1. iter = Member(c + 1)
      BY <2>1, <2>4 DEF ListsInv, Loop
    <3>2. c \in 0 .. MaxSlots /\ InOrder[c] = Member(c + 1)
      <4>1. Len(members) <= MaxSlots
        BY MembersFit
      <4> QED BY <2>2, <4>1, ArrayConstants DEF InOrder, Member
    <3> QED BY <3>1, <3>2
  <2> QED BY <2>1, <2>3, <2>4, ListWalked DEF LoopSeesAll, Passed
<1> QED BY <1>1, ListsBegin, ListsKept, PTL DEF ContainersSpec
-----------------------------------------------------------------------------
(* The red-black tree.  The two sides are treated alike: on side s of a    *)
(* key are the smaller ones, or the greater ones.                          *)
Toward(s, k, x) == IF s = "left" THEN k < x ELSE x < k

LEMMA SideFacts ==
  ASSUME NEW s \in T!Sides
  PROVE  /\ T!Other(s) \in T!Sides /\ T!Other(s) # s /\ T!Other(T!Other(s)) = s
         /\ \A a \in T!Sides : a = s \/ a = T!Other(s)
BY DEF T!Sides, T!Other

LEMMA TowardFacts ==
  ASSUME NEW s \in T!Sides
  PROVE  /\ \A k \in T!Keys : ~Toward(s, k, k)
         /\ \A k, x \in T!Keys : Toward(T!Other(s), k, x) <=> Toward(s, x, k)
         /\ \A k, x \in T!Keys : k # x => Toward(s, k, x) \/ Toward(s, x, k)
         /\ \A k, x, y \in T!Keys : Toward(s, k, x) /\ Toward(s, x, y) => Toward(s, k, y)
<1>1. T!Keys \subseteq Int
  BY ContainersAssumption DEF T!Keys
<1> QED BY <1>1 DEF Toward, T!Sides, T!Other

LEMMA KeyFacts ==
  /\ T!Null \notin T!Keys /\ T!Ptr = T!Keys \cup {T!Null}
  /\ T!Sides = {"left", "right"} /\ T!Other("left") = "right" /\ T!Other("right") = "left"
  /\ MaxKey \in Nat /\ T!Keys = 1 .. MaxKey /\ T!Null = 0
BY ContainersAssumption DEF T!Keys, T!Null, T!Ptr, T!Sides, T!Other

(* What the fields of a tree are, and what an assignment to one of them    *)
(* does.                                                                   *)
LEMMA Fields ==
  ASSUME NEW t \in T!Tree
  PROVE  /\ t.root \in T!Ptr /\ t.red \subseteq T!Keys
         /\ t.kid \in [T!Sides -> [T!Keys -> T!Ptr]] /\ t.up \in [T!Keys -> T!Ptr]
         /\ \A s \in T!Sides, k \in T!Keys : t.kid[s][k] \in T!Ptr
         /\ \A k \in T!Keys : t.up[k] \in T!Ptr
BY DEF T!Tree

LEMMA SetFields ==
  ASSUME NEW t \in T!Tree
  PROVE  /\ \A y \in T!Ptr : LET u == [t EXCEPT !.root = y] IN
              u \in T!Tree /\ u.root = y /\ u.kid = t.kid /\ u.up = t.up /\ u.red = t.red
         /\ \A R \in SUBSET T!Keys : LET u == [t EXCEPT !.red = R] IN
              u \in T!Tree /\ u.root = t.root /\ u.kid = t.kid /\ u.up = t.up /\ u.red = R
         /\ \A x \in T!Keys, y \in T!Ptr : LET u == [t EXCEPT !.up[x] = y] IN
              u \in T!Tree /\ u.root = t.root /\ u.kid = t.kid /\ u.red = t.red
              /\ u.up = [t.up EXCEPT ![x] = y]
BY DEF T!Tree

LEMMA SetKid ==
  ASSUME NEW t \in T!Tree
  PROVE  \A s \in T!Sides, x \in T!Keys, y \in T!Ptr : LET u == [t EXCEPT !.kid[s][x] = y] IN
           /\ u \in T!Tree /\ u.root = t.root /\ u.up = t.up /\ u.red = t.red
           /\ \A a \in T!Sides, k \in T!Keys :
                u.kid[a][k] = IF a = s /\ k = x THEN y ELSE t.kid[a][k]
<1> TAKE s \in T!Sides, x \in T!Keys, y \in T!Ptr
<1> DEFINE u == [t EXCEPT !.kid[s][x] = y]
<1>1. /\ u.root = t.root /\ u.up = t.up /\ u.red = t.red
      /\ u.kid = [t.kid EXCEPT ![s] = [t.kid[s] EXCEPT ![x] = y]]
  BY DEF T!Tree
<1>2. u.kid \in [T!Sides -> [T!Keys -> T!Ptr]]
  BY <1>1 DEF T!Tree
<1>3. u \in T!Tree
  BY <1>1, <1>2 DEF T!Tree
<1> QED BY <1>1, <1>3, Fields

(* The nodes of a tree, and below each of them the nodes on its two sides: *)
(* sub[x] is the subtree of x.                                             *)
Node(t, sub, x) ==
  /\ sub[x] \subseteq sub[t.root]
  /\ \A k : k \in sub[x] <=> k = x \/ \E s \in T!Sides : k \in sub[t.kid[s][x]]
  /\ \A s \in T!Sides :
       /\ t.kid[s][x] # T!Null => t.kid[s][x] \in sub[t.root] /\ t.up[t.kid[s][x]] = x
       /\ \A k \in sub[t.kid[s][x]] : Toward(s, k, x)

Shape(t, sub) ==
  /\ t \in T!Tree /\ sub \in [T!Ptr -> SUBSET T!Keys] /\ sub[T!Null] = {}
  /\ t.root # T!Null => t.root \in sub[t.root] /\ t.up[t.root] = T!Null
  /\ \A x \in sub[t.root] : Node(t, sub, x)

LEMMA ShapeFacts ==
  ASSUME NEW t, NEW sub, Shape(t, sub), NEW x \in sub[t.root]
  PROVE  /\ x \in T!Keys /\ x # T!Null /\ sub[x] \subseteq sub[t.root] /\ x \in sub[x]
         /\ sub[x] \subseteq T!Keys /\ t.root \in T!Ptr /\ t.up[x] \in T!Ptr
         /\ \A s \in T!Sides :
              /\ t.kid[s][x] \in T!Ptr /\ sub[t.kid[s][x]] \subseteq sub[x] /\ x \notin sub[t.kid[s][x]]
              /\ t.kid[s][x] # T!Null =>
                   /\ t.kid[s][x] \in sub[t.root] /\ t.kid[s][x] \in sub[t.kid[s][x]]
                   /\ t.kid[s][x] # x /\ t.up[t.kid[s][x]] = x /\ Toward(s, t.kid[s][x], x)
              /\ sub[x] = {x} \cup sub[t.kid[s][x]] \cup sub[t.kid[T!Other(s)][x]]
              /\ sub[t.kid[s][x]] \cap sub[t.kid[T!Other(s)][x]] = {}
              /\ t.kid[s][x] = T!Null => sub[t.kid[s][x]] = {}
<1>1. /\ t \in T!Tree /\ sub \in [T!Ptr -> SUBSET T!Keys] /\ sub[T!Null] = {}
      /\ t.root \in T!Ptr /\ sub[t.root] \subseteq T!Keys /\ x \in T!Keys
  BY Fields DEF Shape
<1>2. Node(t, sub, x)
  BY DEF Shape
<1>3. sub[x] \subseteq sub[t.root] /\ x \in sub[x]
  BY <1>2 DEF Node
<1>4. ASSUME NEW s \in T!Sides
      PROVE  /\ t.kid[s][x] \in T!Ptr /\ sub[t.kid[s][x]] \subseteq sub[x]
             /\ \A k \in sub[t.kid[s][x]] : Toward(s, k, x)
             /\ t.kid[s][x] # T!Null => t.kid[s][x] \in sub[t.root] /\ t.up[t.kid[s][x]] = x
  BY <1>1, <1>2, Fields DEF Node
<1>5. ASSUME NEW s \in T!Sides PROVE x \notin sub[t.kid[s][x]]
  BY <1>1, <1>4, TowardFacts
<1>6. ASSUME NEW s \in T!Sides, t.kid[s][x] # T!Null
      PROVE  /\ t.kid[s][x] \in sub[t.kid[s][x]] /\ t.kid[s][x] # x
             /\ Toward(s, t.kid[s][x], x)
  <2>1. Node(t, sub, t.kid[s][x])
    BY <1>4, <1>6 DEF Shape
  <2>2. t.kid[s][x] \in sub[t.kid[s][x]]
    BY <2>1 DEF Node
  <2> QED BY <1>4, <1>5, <2>2
<1>7. ASSUME NEW s \in T!Sides
      PROVE  /\ sub[x] = {x} \cup sub[t.kid[s][x]] \cup sub[t.kid[T!Other(s)][x]]
             /\ sub[t.kid[s][x]] \cap sub[t.kid[T!Other(s)][x]] = {}
  <2>1. T!Other(s) \in T!Sides /\ \A a \in T!Sides : a = s \/ a = T!Other(s)
    BY SideFacts
  <2>2. \A k : k \in sub[x] <=> k = x \/ k \in sub[t.kid[s][x]] \/ k \in sub[t.kid[T!Other(s)][x]]
    BY <1>2, <2>1 DEF Node
  <2>3. sub[x] = {x} \cup sub[t.kid[s][x]] \cup sub[t.kid[T!Other(s)][x]]
    BY <2>2
  <2>4. ASSUME NEW k \in sub[t.kid[s][x]], k \in sub[t.kid[T!Other(s)][x]] PROVE FALSE
    <3>1. Toward(s, k, x) /\ Toward(T!Other(s), k, x) /\ k \in T!Keys
      BY <1>1, <1>3, <1>4, <2>1, <2>4
    <3>2. Toward(s, x, k)
      BY <1>1, <3>1, TowardFacts
    <3> QED BY <1>1, <3>1, <3>2, TowardFacts
  <2> QED BY <2>3, <2>4
<1>8. t.up[x] \in T!Ptr
  BY <1>1, Fields
<1>9. x # T!Null /\ sub[x] \subseteq T!Keys
  BY <1>1, <1>3, KeyFacts
<1> QED BY <1>1, <1>3, <1>4, <1>5, <1>6, <1>7, <1>8, <1>9

Below(t, sub, x, s) ==
  /\ t.kid[s][x] \in T!Ptr /\ sub[t.kid[s][x]] \subseteq sub[x] /\ x \notin sub[t.kid[s][x]]
  /\ t.kid[s][x] # T!Null =>
       /\ t.kid[s][x] \in sub[t.root] /\ t.kid[s][x] \in sub[t.kid[s][x]]
       /\ t.kid[s][x] # x /\ t.up[t.kid[s][x]] = x
  /\ t.kid[s][x] = T!Null => sub[t.kid[s][x]] = {}
  /\ \A k \in sub[t.kid[s][x]] : Toward(s, k, x)
  /\ sub[x] = {x} \cup sub[t.kid[s][x]] \cup sub[t.kid[T!Other(s)][x]]
  /\ sub[t.kid[s][x]] \cap sub[t.kid[T!Other(s)][x]] = {}

LEMMA BelowNode ==
  ASSUME NEW t, NEW sub, Shape(t, sub), NEW x \in sub[t.root], NEW s \in T!Sides
  PROVE  Below(t, sub, x, s)
<1>1. \A k \in sub[t.kid[s][x]] : Toward(s, k, x)
  BY DEF Shape, Node
<1> QED BY <1>1, ShapeFacts DEF Below

(* The subtrees of the tree are sets of keys.                              *)
Sets(t, sub) ==
  /\ t \in T!Tree /\ sub \in [T!Ptr -> SUBSET T!Keys] /\ sub[T!Null] = {}
  /\ sub[t.root] \subseteq T!Keys /\ T!Null \notin sub[t.root]
  /\ \A x \in sub[t.root] : x \in sub[x] /\ sub[x] \subseteq sub[t.root]

LEMMA SetsOfShape ==
  ASSUME NEW t, NEW sub, Shape(t, sub)
  PROVE  Sets(t, sub)
<1>1. t \in T!Tree /\ sub \in [T!Ptr -> SUBSET T!Keys] /\ sub[T!Null] = {} /\ t.root \in T!Ptr
  BY Fields DEF Shape
<1>2. \A x \in sub[t.root] : x \in sub[x] /\ sub[x] \subseteq sub[t.root]
  BY ShapeFacts
<1> QED BY <1>1, <1>2, KeyFacts DEF Sets

(* Each subtree is smaller than that of the parent, so that what cannot go *)
(* wrong first at some node, coming from below, never does.                *)
LEMMA Lowest ==
  ASSUME NEW t, NEW sub, Shape(t, sub), NEW S, S \subseteq sub[t.root], S # {}
  PROVE  \E x \in S : \A s \in T!Sides : t.kid[s][x] \notin S
<1> DEFINE weight(x) == Cardinality(sub[x])
           C == {weight(x) : x \in S}
<1>1. \A x \in sub[t.root] : IsFiniteSet(sub[x])
  <2>1. IsFiniteSet(T!Keys)
    <3>1. MaxKey \in Int /\ 1 \in Int
      BY KeyFacts
    <3> QED BY <3>1, FS_Interval, KeyFacts
  <2> QED BY <2>1, FS_Subset, ShapeFacts
<1>2. \A x \in sub[t.root] : weight(x) \in Nat
  BY <1>1, FS_CardinalityType
<1>3. ASSUME NEW x \in sub[t.root], NEW s \in T!Sides, t.kid[s][x] \in sub[t.root]
      PROVE  weight(t.kid[s][x]) < weight(x)
  <2>1. sub[t.kid[s][x]] \subseteq sub[x] /\ x \in sub[x] /\ x \notin sub[t.kid[s][x]]
    BY ShapeFacts
  <2>2. /\ weight(t.kid[s][x]) <= weight(x)
        /\ (weight(t.kid[s][x]) = weight(x) => sub[t.kid[s][x]] = sub[x])
    BY <1>1, <2>1, FS_Subset
  <2> QED BY <1>2, <1>3, <2>1, <2>2
<1> HIDE DEF weight
<1>4. C \subseteq Nat /\ C # {}
  BY <1>2
<1>5. PICK n \in C : \A m \in C : n <= m
  BY <1>4, Smallest
<1>6. PICK x \in S : n = weight(x)
  BY <1>5
<1>7. ASSUME NEW s \in T!Sides, t.kid[s][x] \in S PROVE FALSE
  <2>1. n <= weight(t.kid[s][x]) /\ x \in sub[t.root] /\ t.kid[s][x] \in sub[t.root]
    BY <1>5, <1>7
  <2>2. weight(t.kid[s][x]) < weight(x) /\ weight(x) \in Nat /\ weight(t.kid[s][x]) \in Nat
    BY <1>2, <1>3, <2>1
  <2> QED BY <1>6, <2>1, <2>2
<1> QED BY <1>7

(* What is below a node is in the tree with all that is below it, and with *)
(* its parent.                                                             *)
LEMMA Inside ==
  ASSUME NEW t, NEW sub, Shape(t, sub), NEW y \in sub[t.root], NEW k \in sub[y]
  PROVE  /\ k \in sub[t.root] /\ sub[k] \subseteq sub[y]
         /\ k # y => t.up[k] \in sub[y] /\ \E s \in T!Sides : t.kid[s][t.up[k]] = k
<1> DEFINE Good(x, n) == /\ sub[n] \subseteq sub[x]
                         /\ n # x => t.up[n] \in sub[x] /\ \E s \in T!Sides : t.kid[s][t.up[n]] = n
           Bad == {x \in sub[t.root] : \E n \in sub[x] : ~Good(x, n)}
<1>1. Bad = {}
  <2> SUFFICES ASSUME Bad # {} PROVE FALSE
    OBVIOUS
  <2>1. PICK x \in Bad : \A s \in T!Sides : t.kid[s][x] \notin Bad
    <3>1. Bad \subseteq sub[t.root]
      OBVIOUS
    <3> HIDE DEF Bad
    <3> QED BY <3>1, Lowest
  <2>2. PICK n \in sub[x] : ~Good(x, n)
    OBVIOUS
  <2>3. n # x
    BY <2>2
  <2>4. PICK s \in T!Sides : n \in sub[t.kid[s][x]]
    BY <2>3 DEF Shape, Node
  <2>5. t.kid[s][x] \in sub[t.root] /\ sub[t.kid[s][x]] \subseteq sub[x] /\ x \in sub[x]
        /\ t.up[t.kid[s][x]] = x
    <3>1. t.kid[s][x] # T!Null
      BY <2>4 DEF Shape
    <3> QED BY <3>1, ShapeFacts
  <2>6. Good(t.kid[s][x], n)
    BY <2>1, <2>4, <2>5
  <2>7. sub[n] \subseteq sub[x]
    BY <2>5, <2>6
  <2>8. t.up[n] \in sub[x] /\ \E a \in T!Sides : t.kid[a][t.up[n]] = n
    BY <2>5, <2>6
  <2> QED BY <2>2, <2>7, <2>8
<1>2. Good(y, k)
  BY <1>1
<1>3. k \in sub[t.root]
  BY ShapeFacts
<1> QED BY <1>2, <1>3

(* Nodes that are not below x are all on one side of what is.              *)
LEMMA Apart ==
  ASSUME NEW t, NEW sub, Shape(t, sub), NEW x \in sub[t.root], NEW k \in sub[t.root] \ sub[x]
  PROVE  \E s \in T!Sides : \A a \in sub[x] : Toward(s, a, k)
<1> DEFINE S == {w \in sub[t.root] : sub[x] \subseteq sub[w] /\ k \in sub[w]}
<1>1. S # {} /\ S \subseteq sub[t.root]
  <2>1. t.root # T!Null /\ t.root \in sub[t.root] /\ sub[x] \subseteq sub[t.root]
    BY ShapeFacts DEF Shape
  <2> QED BY <2>1
<1>2. PICK w \in S : \A s \in T!Sides : t.kid[s][w] \notin S
  <2> HIDE DEF S
  <2> QED BY <1>1, Lowest
<1>3. w # x /\ x \in sub[w] /\ w \in sub[t.root]
  BY ShapeFacts
<1>4. PICK s \in T!Sides : x \in sub[t.kid[s][w]]
  BY <1>3 DEF Shape, Node
<1>5. t.kid[s][w] \in sub[t.root] /\ sub[x] \subseteq sub[t.kid[s][w]]
  <2>1. t.kid[s][w] # T!Null
    BY <1>4 DEF Shape
  <2>2. t.kid[s][w] \in sub[t.root]
    BY <1>3, <2>1, ShapeFacts
  <2> QED BY <1>4, <2>2, Inside
<1>6. k \notin sub[t.kid[s][w]]
  BY <1>2, <1>5
<1>7. \A a \in sub[x] : Toward(s, a, w) /\ a \in T!Keys
  BY <1>3, <1>5, ShapeFacts DEF Shape, Node
<1>8. CASE k = w
  BY <1>7, <1>8
<1>9. CASE k # w
  <2>1. T!Other(s) \in T!Sides /\ k \in sub[t.kid[T!Other(s)][w]]
    BY <1>3, <1>6, <1>9, SideFacts, ShapeFacts
  <2>2. Toward(T!Other(s), k, w) /\ k \in T!Keys /\ w \in T!Keys
    BY <1>3, <2>1, ShapeFacts DEF Shape, Node
  <2>3. Toward(s, w, k)
    BY <2>2, TowardFacts
  <2>4. \A a \in sub[x] : Toward(s, a, k)
    BY <1>7, <2>2, <2>3, TowardFacts
  <2> QED BY <2>4
<1> QED BY <1>8, <1>9

(* The way up: to the root, and from a node to the only pointer that leads *)
(* to it.                                                                  *)
LEMMA UpFacts ==
  ASSUME NEW t, NEW sub, Shape(t, sub), NEW x \in sub[t.root]
  PROVE  /\ t.root \in sub[t.root] /\ t.root # T!Null
         /\ x = t.root <=> t.up[x] = T!Null
         /\ x # t.root => t.up[x] \in sub[t.root] /\ \E s \in T!Sides : t.kid[s][t.up[x]] = x
         /\ t.up[x] \notin sub[x]
         /\ \A w \in sub[t.root], s \in T!Sides : t.kid[s][w] = x =>
              w = t.up[x] /\ x # t.root /\ t.kid[T!Other(s)][w] # x
<1>1. t.root \in sub[t.root] /\ t.root # T!Null /\ t.up[t.root] = T!Null
  BY DEF Shape
<1>2. x # t.root => t.up[x] \in sub[t.root] /\ \E s \in T!Sides : t.kid[s][t.up[x]] = x
  BY <1>1, Inside
<1>3. \A w \in sub[t.root] : w # T!Null
  BY ShapeFacts
<1>4. ASSUME NEW w \in sub[t.root], NEW s \in T!Sides, t.kid[s][w] = x
      PROVE  w = t.up[x] /\ x # t.root /\ t.kid[T!Other(s)][w] # x
  <2>1. x # T!Null /\ x \in sub[x]
    BY ShapeFacts
  <2>2. w = t.up[x] /\ w # T!Null
    BY <1>3, <1>4, <2>1, ShapeFacts
  <2>3. t.kid[T!Other(s)][w] # x
    <3>1. sub[t.kid[s][w]] \cap sub[t.kid[T!Other(s)][w]] = {}
      BY ShapeFacts
    <3> QED BY <1>4, <2>1, <3>1
  <2> QED BY <1>1, <2>2, <2>3
<1>5. t.up[x] \notin sub[x]
  <2>1. CASE x = t.root
    <3>1. T!Null \notin sub[x]
      BY ShapeFacts, KeyFacts
    <3> QED BY <1>1, <2>1, <3>1
  <2>2. CASE x # t.root
    <3>1. PICK s \in T!Sides : t.kid[s][t.up[x]] = x
      BY <1>2, <2>2
    <3> QED BY <1>2, <2>2, <3>1, ShapeFacts
  <2> QED BY <2>1, <2>2
<1> QED BY <1>1, <1>2, <1>3, <1>4, <1>5

(* What the assignments of the code do to the fields of a tree.            *)
ParentSet(t, u, x, q) ==
  /\ u \in T!Tree /\ u.root = t.root /\ u.kid = t.kid /\ u.red = t.red
  /\ \A k \in T!Keys : u.up[k] = IF k = x THEN q ELSE t.up[k]

LEMMA SetParentFacts ==
  ASSUME NEW t \in T!Tree, NEW x \in T!Ptr, NEW q \in T!Ptr
  PROVE  ParentSet(t, T!SetParent(t, x, q), x, q)
<1> DEFINE u == T!SetParent(t, x, q)
<1>1. CASE x = T!Null
  <2>1. u = t /\ x \notin T!Keys
    BY <1>1, KeyFacts DEF T!SetParent
  <2> QED BY <2>1 DEF ParentSet
<1>2. CASE x # T!Null
  <2>1. x \in T!Keys /\ u = [t EXCEPT !.up[x] = q]
    BY <1>2, KeyFacts DEF T!SetParent
  <2>2. /\ u \in T!Tree /\ u.root = t.root /\ u.kid = t.kid /\ u.red = t.red
        /\ u.up = [t.up EXCEPT ![x] = q]
    BY <2>1, SetFields
  <2>3. \A k \in T!Keys : u.up[k] = IF k = x THEN q ELSE t.up[k]
    BY <2>1, <2>2, Fields
  <2> QED BY <2>2, <2>3 DEF ParentSet
<1> QED BY <1>1, <1>2

Replaced(t, u, q, x, y) ==
  /\ u \in T!Tree /\ u.up = t.up /\ u.red = t.red
  /\ u.root = IF q = T!Null THEN y ELSE t.root
  /\ \A s \in T!Sides, k \in T!Keys :
       u.kid[s][k] = IF k = q /\ t.kid[s][k] = x THEN y ELSE t.kid[s][k]

LEMMA ReplaceFacts ==
  ASSUME NEW t \in T!Tree, NEW q \in T!Ptr, NEW x, NEW y \in T!Ptr,
         q = T!Null \/ \E s \in T!Sides : t.kid[s][q] = x /\ t.kid[T!Other(s)][q] # x
  PROVE  Replaced(t, T!Replace(t, q, x, y), q, x, y)
<1> DEFINE u == T!Replace(t, q, x, y)
<1>1. CASE q = T!Null
  <2>1. u = [t EXCEPT !.root = y]
    BY <1>1 DEF T!Replace
  <2>2. u \in T!Tree /\ u.root = y /\ u.kid = t.kid /\ u.up = t.up /\ u.red = t.red
    BY <2>1, SetFields
  <2> QED BY <1>1, <2>2, KeyFacts DEF Replaced
<1>2. CASE q # T!Null
  <2>1. q \in T!Keys
    BY <1>2, KeyFacts
  <2>2. PICK a \in T!Sides : t.kid[a][q] = x /\ t.kid[T!Other(a)][q] # x
    BY <1>2
  <2>3. u = [t EXCEPT !.kid[a][q] = y]
    <3>1. CASE a = "left"
      BY <1>2, <2>2, <3>1 DEF T!Replace
    <3>2. CASE a = "right"
      BY <1>2, <2>2, <3>2, KeyFacts DEF T!Replace
    <3> QED BY <3>1, <3>2, KeyFacts
  <2>4. /\ u \in T!Tree /\ u.root = t.root /\ u.up = t.up /\ u.red = t.red
        /\ \A s \in T!Sides, k \in T!Keys :
             u.kid[s][k] = IF s = a /\ k = q THEN y ELSE t.kid[s][k]
    BY <2>1, <2>3, SetKid
  <2> QED BY <1>2, <2>2, <2>4, SideFacts DEF Replaced
<1> QED BY <1>1, <1>2

(* A rotation, pointer by pointer.                                         *)
Turned(t, u, x, y, z, s) ==
  /\ u \in T!Tree
  /\ u.root = IF x = t.root THEN y ELSE t.root
  /\ \A a \in T!Sides, k \in T!Keys :
       u.kid[a][k] = IF a = T!Other(s) /\ k = x THEN z
                     ELSE IF a = s /\ k = y THEN x
                     ELSE IF k = t.up[x] /\ t.kid[a][k] = x THEN y
                     ELSE t.kid[a][k]
  /\ \A k \in T!Keys :
       u.up[k] = IF k = x THEN y ELSE IF k = y THEN t.up[x]
                 ELSE IF k = z THEN x ELSE t.up[k]

LEMMA RotateTurns ==
  ASSUME NEW t, NEW sub, Shape(t, sub), NEW x \in sub[t.root], NEW s \in T!Sides,
         NEW y, y = t.kid[T!Other(s)][x], y # T!Null, NEW z, z = t.kid[s][y]
  PROVE  Turned(t, T!Rotate(t, x, s), x, y, z, s) /\ T!Rotate(t, x, s).red = t.red
<1> DEFINE o  == T!Other(s)
           q  == t.up[x]
           t0 == [t EXCEPT !.kid[o][x] = z]
           t1 == T!SetParent(t0, z, x)
           t2 == [t1 EXCEPT !.kid[s][y] = x]
           t3 == [t2 EXCEPT !.up[y] = q]
           t4 == T!Replace(t3, q, x, y)
           u  == [t4 EXCEPT !.up[x] = y]
<1>1. u = T!Rotate(t, x, s)
  BY DEF T!Rotate
<1>2. /\ t \in T!Tree /\ x \in T!Keys /\ y \in sub[t.root] /\ y \in T!Keys /\ o \in T!Sides /\ o # s
      /\ x # y /\ q \in T!Ptr /\ q # x /\ q # y /\ z # y /\ z \in T!Ptr /\ x \in T!Ptr /\ y \in T!Ptr
      /\ z # x /\ (q # z \/ q = T!Null)
  <2>1. t \in T!Tree /\ x \in T!Keys /\ o \in T!Sides /\ o # s /\ q \in T!Ptr
    BY SideFacts, ShapeFacts DEF Shape
  <2>2. y \in sub[t.root] /\ y # x /\ sub[y] \subseteq sub[x] /\ y \in sub[x] /\ x \notin sub[y]
    BY <2>1, ShapeFacts
  <2>3. y \in T!Keys /\ z # y /\ z \in T!Ptr /\ (z \in sub[y] \/ z = T!Null)
    BY <2>2, ShapeFacts
  <2>4. q \notin sub[x] /\ x \in sub[x] /\ x # T!Null
    BY UpFacts, ShapeFacts
  <2>5. z # x /\ (q # z \/ q = T!Null)
    BY <2>2, <2>3, <2>4
  <2>6. q # y /\ q # x /\ x \in T!Ptr /\ y \in T!Ptr
    BY <2>1, <2>2, <2>3, <2>4, KeyFacts
  <2> QED BY <2>1, <2>2, <2>3, <2>5, <2>6
<1>3. q = T!Null \/ \E a \in T!Sides : t.kid[a][q] = x /\ t.kid[T!Other(a)][q] # x
  BY UpFacts, SMTT(30)
<1>4. q = T!Null <=> x = t.root
  BY UpFacts
<1> HIDE DEF q, o
<1>5. /\ t0 \in T!Tree /\ t0.root = t.root /\ t0.up = t.up /\ t0.red = t.red
      /\ \A a \in T!Sides, k \in T!Keys : t0.kid[a][k] = IF a = o /\ k = x THEN z ELSE t.kid[a][k]
  BY <1>2, SetKid
<1> HIDE DEF t0
<1>6. /\ t1 \in T!Tree /\ t1.root = t.root /\ t1.kid = t0.kid /\ t1.red = t.red
      /\ \A k \in T!Keys : t1.up[k] = IF k = z THEN x ELSE t.up[k]
  <2>1. t0 \in T!Tree /\ z \in T!Ptr /\ x \in T!Ptr
    BY <1>2, <1>5
  <2>2. ParentSet(t0, t1, z, x)
    BY <2>1, SetParentFacts
  <2> HIDE DEF t1
  <2> QED BY <1>5, <2>2 DEF ParentSet
<1> HIDE DEF t1
<1>7. /\ t2 \in T!Tree /\ t2.root = t.root /\ t2.up = t1.up /\ t2.red = t.red
      /\ \A a \in T!Sides, k \in T!Keys : t2.kid[a][k] =
           IF a = s /\ k = y THEN x ELSE IF a = o /\ k = x THEN z ELSE t.kid[a][k]
  <2>1. t1 \in T!Tree /\ s \in T!Sides /\ y \in T!Keys /\ x \in T!Ptr
    BY <1>2, <1>6
  <2>2. /\ t2 \in T!Tree /\ t2.root = t1.root /\ t2.up = t1.up /\ t2.red = t1.red
        /\ \A a \in T!Sides, k \in T!Keys : t2.kid[a][k] = IF a = s /\ k = y THEN x ELSE t1.kid[a][k]
    BY <2>1, SetKid
  <2> QED BY <1>5, <1>6, <2>2
<1> HIDE DEF t2
<1>8. /\ t3 \in T!Tree /\ t3.root = t.root /\ t3.kid = t2.kid /\ t3.red = t.red
      /\ t3.up = [t2.up EXCEPT ![y] = q]
  BY <1>2, <1>7, SetFields
<1> HIDE DEF t3
<1>9. q = T!Null \/ \E a \in T!Sides : t3.kid[a][q] = x /\ t3.kid[T!Other(a)][q] # x
  <2>1. CASE q # T!Null
    <3>1. PICK a \in T!Sides : t.kid[a][q] = x /\ t.kid[T!Other(a)][q] # x
      BY <1>3, <2>1
    <3>2. q \in T!Keys /\ T!Other(a) \in T!Sides
      BY <1>2, <2>1, KeyFacts, SideFacts
    <3> QED BY <1>2, <1>7, <1>8, <2>1, <3>1, <3>2
  <2> QED BY <2>1
<1>10. /\ t4 \in T!Tree /\ t4.up = t3.up /\ t4.red = t.red
       /\ t4.root = IF q = T!Null THEN y ELSE t.root
       /\ \A a \in T!Sides, k \in T!Keys :
            t4.kid[a][k] = IF k = q /\ t3.kid[a][k] = x THEN y ELSE t3.kid[a][k]
  <2>1. t3 \in T!Tree /\ q \in T!Ptr /\ y \in T!Ptr
    BY <1>2, <1>8
  <2>2. Replaced(t3, t4, q, x, y)
    BY <1>9, <2>1, ReplaceFacts
  <2> HIDE DEF t4
  <2> QED BY <1>8, <2>2 DEF Replaced
<1> HIDE DEF t4
<1>11. /\ u \in T!Tree /\ u.root = t4.root /\ u.kid = t4.kid /\ u.red = t.red
       /\ u.up = [t4.up EXCEPT ![x] = y]
  BY <1>2, <1>10, SetFields, KeyFacts
<1> HIDE DEF u
<1>12. u.root = IF x = t.root THEN y ELSE t.root
  BY <1>4, <1>10, <1>11
<1>13. ASSUME NEW a \in T!Sides, NEW k \in T!Keys
       PROVE  u.kid[a][k] = IF a = o /\ k = x THEN z
                     ELSE IF a = s /\ k = y THEN x
                     ELSE IF k = q /\ t.kid[a][k] = x THEN y
                     ELSE t.kid[a][k]
  <2>1. u.kid[a][k] = IF k = q /\ t3.kid[a][k] = x THEN y ELSE t3.kid[a][k]
    BY <1>10, <1>11
  <2>2. t3.kid[a][k] = IF a = s /\ k = y THEN x ELSE IF a = o /\ k = x THEN z ELSE t.kid[a][k]
    BY <1>7, <1>8
  <2>3. k # T!Null
    BY KeyFacts, SMTT(30)
  <2> QED BY <1>2, <2>1, <2>2, <2>3
<1>14. ASSUME NEW k \in T!Keys
       PROVE  u.up[k] = IF k = x THEN y ELSE IF k = y THEN q
                 ELSE IF k = z THEN x ELSE t.up[k]
  <2>1. t2.up \in [T!Keys -> T!Ptr] /\ t4.up \in [T!Keys -> T!Ptr]
    BY <1>7, <1>10, Fields
  <2> QED BY <1>2, <1>6, <1>7, <1>8, <1>10, <1>11, <2>1
<1> QED BY <1>1, <1>11, <1>12, <1>13, <1>14 DEF Turned, o, q

(* The nodes around a rotation: x, its child y on side o, and their other  *)
(* subtrees l, z and r, from side s to side o.                             *)
Pivot(t, sub, x, y, l, z, r, s, o) ==
  /\ s \in T!Sides /\ o = T!Other(s) /\ o \in T!Sides /\ o # s /\ \A a \in T!Sides : a = s \/ a = o
  /\ y = t.kid[o][x] /\ l = t.kid[s][x] /\ z = t.kid[s][y] /\ r = t.kid[o][y]
  /\ x \in sub[t.root] /\ y \in sub[t.root] /\ x # y
  /\ x \in T!Keys /\ y \in T!Keys /\ z \in T!Ptr /\ l \in T!Ptr /\ r \in T!Ptr
  /\ sub[x] = {x} \cup sub[l] \cup sub[y] /\ sub[y] = {y} \cup sub[z] \cup sub[r]
  /\ y \in sub[y] /\ x \notin sub[y]
  /\ z \notin {x, y} /\ l \notin {x, y} /\ r \notin {x, y}
  /\ z # T!Null => z \in sub[t.root] /\ t.up[z] = y /\ z # l /\ z # r
  /\ l # T!Null => l \in sub[t.root] /\ t.up[l] = x
  /\ r # T!Null => r \in sub[t.root] /\ t.up[r] = y
  /\ (\A k \in sub[l] : Toward(s, k, x)) /\ (\A k \in sub[y] : Toward(o, k, x))
  /\ (\A k \in sub[z] : Toward(s, k, y)) /\ (\A k \in sub[r] : Toward(o, k, y))
  /\ t.up[y] = x /\ y # t.root /\ t.up[x] \notin {x, y} /\ (x = t.root <=> t.up[x] = T!Null)
  /\ z # t.root

LEMMA Pivots ==
  ASSUME NEW t, NEW sub, Shape(t, sub), NEW x \in sub[t.root], NEW s \in T!Sides,
         NEW o, o = T!Other(s), NEW y, y = t.kid[o][x], y # T!Null
  PROVE  Pivot(t, sub, x, y, t.kid[s][x], t.kid[s][y], t.kid[o][y], s, o)
<1> DEFINE l == t.kid[s][x]
           z == t.kid[s][y]
           r == t.kid[o][y]
           N == sub[t.root]
<1>1. o \in T!Sides /\ o # s /\ (\A a \in T!Sides : a = s \/ a = o) /\ T!Other(o) = s
  BY SideFacts
<1>2. Sets(t, sub) /\ Below(t, sub, x, s) /\ Below(t, sub, x, o)
  BY <1>1, SetsOfShape, BelowNode
<1>3. y \in N /\ x # y
  BY <1>2 DEF Below
<1>4. Below(t, sub, y, s) /\ Below(t, sub, y, o)
  BY <1>1, <1>3, BelowNode
<1>5. /\ sub[x] = {x} \cup sub[l] \cup sub[y] /\ sub[l] \cap sub[y] = {}
      /\ sub[y] = {y} \cup sub[z] \cup sub[r] /\ sub[z] \cap sub[r] = {}
  BY <1>2, <1>4, Zenon DEF Below
<1>6. /\ x \in T!Keys /\ y \in T!Keys /\ x # T!Null /\ y # T!Null
      /\ x \in sub[x] /\ y \in sub[y] /\ x \notin sub[y] /\ x \notin sub[l] /\ y \notin sub[z]
      /\ y \notin sub[r]
  BY <1>2, <1>3, <1>4, KeyFacts, Zenon DEF Below, Sets
<1>7. /\ z # T!Null => z \in sub[z] /\ z \in N /\ t.up[z] = y
      /\ l # T!Null => l \in sub[l] /\ l \in N /\ t.up[l] = x
      /\ r # T!Null => r \in sub[r] /\ r \in N /\ t.up[r] = y
      /\ t.up[y] = x /\ z \in T!Ptr /\ l \in T!Ptr /\ r \in T!Ptr
  BY <1>2, <1>4, <1>6, Zenon DEF Below
<1>8. /\ z \notin {x, y} /\ l \notin {x, y} /\ r \notin {x, y}
      /\ z # T!Null => z # l /\ z # r
  BY <1>5, <1>6, <1>7, ZenonT(40)
<1>9. /\ t.up[x] \notin sub[x] /\ (x = t.root <=> t.up[x] = T!Null) /\ x \in sub[x]
  BY <1>6, UpFacts, SMTT(30)
<1>10. y # t.root /\ z # t.root
  <2>1. y # t.root
    BY <1>1, <1>3, UpFacts
  <2>2. t.root # T!Null /\ t.up[t.root] = T!Null
    BY <1>3 DEF Shape
  <2> QED BY <1>6, <1>7, <2>1, <2>2
<1> HIDE DEF l, z, r
<1>11. /\ (\A k \in sub[l] : Toward(s, k, x)) /\ (\A k \in sub[y] : Toward(o, k, x))
       /\ (\A k \in sub[z] : Toward(s, k, y)) /\ (\A k \in sub[r] : Toward(o, k, y))
  BY <1>2, <1>4, Zenon DEF Below, l, z, r
<1>12. t.up[x] \notin {x, y}
  BY <1>5, <1>6, <1>9
<1> QED BY <1>1, <1>3, <1>5, <1>6, <1>7, <1>8, <1>9, <1>10, <1>11, <1>12, Zenon DEF Pivot, l, z, r

(* Which pointers a rotation changes.                                      *)
Swung(t, sub, u, x, y, l, z, r, s, o) ==
  /\ u \in T!Tree /\ u.root = IF x = t.root THEN y ELSE t.root
  /\ u.kid[o][x] = z /\ u.kid[s][x] = l /\ u.kid[s][y] = x /\ u.kid[o][y] = r
  /\ \A a \in T!Sides, w \in sub[t.root] \ {x, y} :
       /\ t.kid[a][w] = x => u.kid[a][w] = y
       /\ t.kid[a][w] # x => u.kid[a][w] = t.kid[a][w]
       /\ t.kid[a][w] # y /\ (t.kid[a][w] # T!Null => t.kid[a][w] # z)
       /\ t.kid[a][w] = x => w = t.up[x]
  /\ u.up[x] = y /\ u.up[y] = t.up[x] /\ (z # T!Null => u.up[z] = x)
  /\ \A w \in sub[t.root] \ {x, y, z} : u.up[w] = t.up[w]

LEMMA Swings ==
  ASSUME NEW t, NEW sub, Shape(t, sub), NEW x, NEW y, NEW l, NEW z, NEW r, NEW s, NEW o,
         Pivot(t, sub, x, y, l, z, r, s, o), NEW u, Turned(t, u, x, y, z, s)
  PROVE  Swung(t, sub, u, x, y, l, z, r, s, o)
<1> DEFINE N == sub[t.root]
<1>1. /\ u.kid[o][x] = z /\ u.kid[s][x] = l /\ u.kid[s][y] = x /\ u.kid[o][y] = r
  <2>1. /\ o = T!Other(s) /\ s \in T!Sides /\ o \in T!Sides /\ o # s
        /\ x \in T!Keys /\ y \in T!Keys /\ x # y /\ t.up[x] \notin {x, y}
        /\ l = t.kid[s][x] /\ r = t.kid[o][y]
    BY Zenon DEF Pivot
  <2> QED BY <2>1 DEF Turned
<1>2. N \subseteq T!Keys /\ T!Null \notin N
  BY SetsOfShape DEF Sets
<1>3. u.up[x] = y /\ u.up[y] = t.up[x] /\ (z # T!Null => u.up[z] = x)
  BY <1>2, Zenon DEF Turned, Pivot
<1>4. \A w \in N \ {x, y, z} : u.up[w] = t.up[w]
  BY <1>2 DEF Turned
<1>5. ASSUME NEW a \in T!Sides, NEW w \in N \ {x, y}
      PROVE  /\ t.kid[a][w] = x => u.kid[a][w] = y
             /\ t.kid[a][w] # x => u.kid[a][w] = t.kid[a][w]
             /\ t.kid[a][w] # y /\ (t.kid[a][w] # T!Null => t.kid[a][w] # z)
             /\ t.kid[a][w] = x => w = t.up[x]
  <2>1. t.kid[a][w] # T!Null => t.up[t.kid[a][w]] = w
    BY BelowNode DEF Below
  <2>2. x # T!Null /\ y # T!Null /\ w \in T!Keys
    BY <1>2, Zenon DEF Pivot
  <2>3. t.kid[a][w] = x => w = t.up[x]
    BY <2>1, <2>2
  <2>4. t.kid[a][w] # y /\ (t.kid[a][w] # T!Null => t.kid[a][w] # z)
    BY <2>1, <2>2, ZenonT(40) DEF Pivot
  <2>5. u.kid[a][w] = IF t.kid[a][w] = x THEN y ELSE t.kid[a][w]
    BY <1>5, <2>2, <2>3 DEF Turned
  <2> QED BY <2>3, <2>4, <2>5
<1> QED BY <1>1, <1>3, <1>4, <1>5 DEF Swung, Turned

(* A rotation leaves all keys where they belong; only two subtrees change. *)
TurnedSub(sub, x, y, l, z) == [sub EXCEPT ![x] = {x} \cup sub[l] \cup sub[z], ![y] = sub[x]]

LEMMA RotateShape ==
  ASSUME NEW t, NEW sub, Shape(t, sub), NEW x, NEW y, NEW l, NEW z, NEW r, NEW s, NEW o,
         Pivot(t, sub, x, y, l, z, r, s, o), NEW u, Swung(t, sub, u, x, y, l, z, r, s, o),
         NEW v, v = TurnedSub(sub, x, y, l, z)
  PROVE  Shape(u, v) /\ v[u.root] = sub[t.root]
<1> DEFINE N == sub[t.root]
<1>1. Sets(t, sub)
  BY SetsOfShape
<1>2. /\ v \in [T!Ptr -> SUBSET T!Keys]
      /\ v[x] = {x} \cup sub[l] \cup sub[z] /\ v[y] = sub[x]
      /\ \A w \in T!Ptr : w # x /\ w # y => v[w] = sub[w]
      /\ x \in T!Ptr /\ y \in T!Ptr /\ x # T!Null /\ y # T!Null
  <2>1. x \in T!Ptr /\ y \in T!Ptr /\ x # T!Null /\ y # T!Null /\ x # y
    BY KeyFacts, ZenonT(40) DEF Pivot
  <2>2. sub[x] \in SUBSET T!Keys /\ {x} \cup sub[l] \cup sub[z] \in SUBSET T!Keys
    BY <1>1, <2>1, Zenon DEF Pivot, Sets
  <2> QED BY <1>1, <2>1, <2>2 DEF TurnedSub, Sets
<1>3. v[u.root] = N /\ u.root \in N /\ u.up[u.root] = T!Null
  <2>1. CASE x = t.root
    BY <1>2, <2>1, Zenon DEF Swung, Pivot
  <2>2. CASE x # t.root
    <3>1. u.root = t.root /\ t.root # y /\ t.root \in N /\ t.up[t.root] = T!Null /\ t.root \in T!Ptr
          /\ t.root # z
      BY <2>2, ShapeFacts, Zenon DEF Swung, Pivot, Shape
    <3>2. u.up[t.root] = T!Null
      BY <2>2, <3>1 DEF Swung
    <3> QED BY <1>2, <2>2, <3>1, <3>2
  <2> QED BY <2>1, <2>2
<1>4. v[l] = sub[l] /\ v[z] = sub[z] /\ v[r] = sub[r]
  BY <1>2, ZenonT(40) DEF Pivot
<1>5. /\ z # T!Null => u.up[z] = x
      /\ l # T!Null => u.up[l] = x
      /\ r # T!Null => u.up[r] = y
      /\ u.up[x] = y
  BY ZenonT(40) DEF Swung, Pivot
<1>6. Node(u, v, x)
  <2>1. v[x] \subseteq N /\ x \in N
    BY <1>1, <1>2, ZenonT(40) DEF Pivot, Sets
  <2>2. \A k : k \in v[x] <=> k = x \/ \E a \in T!Sides : k \in v[u.kid[a][x]]
    <3>1. /\ u.kid[s][x] = l /\ u.kid[o][x] = z /\ s \in T!Sides /\ o \in T!Sides
          /\ \A a \in T!Sides : a = s \/ a = o
      BY Zenon DEF Pivot, Swung
    <3> QED BY <1>2, <1>4, <3>1
  <2>3. ASSUME NEW a \in T!Sides
        PROVE  /\ u.kid[a][x] # T!Null => u.kid[a][x] \in N /\ u.up[u.kid[a][x]] = x
               /\ \A k \in v[u.kid[a][x]] : Toward(a, k, x)
    <3>1. CASE a = s
      BY <1>4, <1>5, <3>1, Zenon DEF Pivot, Swung
    <3>2. CASE a = o
      BY <1>4, <1>5, <3>2, Zenon DEF Pivot, Swung
    <3> QED BY <3>1, <3>2, Zenon DEF Pivot
  <2> QED BY <1>3, <2>1, <2>2, <2>3 DEF Node
<1>7. Node(u, v, y)
  <2>1. v[y] \subseteq N /\ x \in N
    BY <1>1, <1>2, Zenon DEF Pivot, Sets
  <2>2. v[y] = {y} \cup sub[r] \cup v[x]
    BY <1>2, ZenonT(40) DEF Pivot
  <2>3. \A k : k \in v[y] <=> k = y \/ \E a \in T!Sides : k \in v[u.kid[a][y]]
    <3>1. /\ u.kid[s][y] = x /\ u.kid[o][y] = r /\ s \in T!Sides /\ o \in T!Sides
          /\ \A a \in T!Sides : a = s \/ a = o
      BY Zenon DEF Pivot, Swung
    <3> QED BY <1>4, <2>2, <3>1
  <2>4. \A k \in v[x] : Toward(s, k, y)
    <3>1. Toward(s, x, y) /\ s \in T!Sides /\ x \in T!Keys /\ y \in T!Keys
      <4>1. /\ s \in T!Sides /\ o = T!Other(s) /\ x \in T!Keys /\ y \in T!Keys
            /\ Toward(o, y, x)
        BY Zenon DEF Pivot
      <4> QED BY <4>1, TowardFacts
    <3>2. \A k \in sub[l] : Toward(s, k, x) /\ k \in T!Keys
      BY <1>1, Zenon DEF Pivot, Sets
    <3>3. \A k \in sub[l] : Toward(s, k, y)
      BY <3>1, <3>2, TowardFacts
    <3>4. \A k \in sub[z] : Toward(s, k, y)
      BY Zenon DEF Pivot
    <3> QED BY <1>2, <3>1, <3>3, <3>4
  <2>5. ASSUME NEW a \in T!Sides
        PROVE  /\ u.kid[a][y] # T!Null => u.kid[a][y] \in N /\ u.up[u.kid[a][y]] = y
               /\ \A k \in v[u.kid[a][y]] : Toward(a, k, y)
    <3>1. CASE a = s
      BY <1>5, <2>1, <2>4, <3>1 DEF Swung
    <3>2. CASE a = o
      BY <1>4, <1>5, <3>2, Zenon DEF Pivot, Swung
    <3> QED BY <3>1, <3>2, Zenon DEF Pivot
  <2> QED BY <1>3, <2>1, <2>3, <2>5 DEF Node
<1>8. ASSUME NEW w \in N \ {x, y} PROVE Node(u, v, w)
  <2>1. v[w] = sub[w] /\ Node(t, sub, w)
    BY <1>1, <1>2, KeyFacts DEF Shape, Sets
  <2>2. ASSUME NEW a \in T!Sides
        PROVE  /\ v[u.kid[a][w]] = sub[t.kid[a][w]]
               /\ u.kid[a][w] # T!Null => u.kid[a][w] \in N /\ u.up[u.kid[a][w]] = w
    <3> DEFINE c == t.kid[a][w]
    <3>1. CASE c = x
      <4>1. u.kid[a][w] = y /\ w = t.up[x] /\ u.up[y] = t.up[x] /\ y \in N
        BY <3>1, Zenon DEF Swung, Pivot
      <4> QED BY <1>2, <3>1, <4>1
    <3>2. CASE c # x
      <4>1. u.kid[a][w] = c /\ c # y /\ (c # T!Null => c # z)
        BY <3>2 DEF Swung
      <4>2. c \in T!Ptr /\ (c # T!Null => c \in N /\ t.up[c] = w)
        BY BelowNode DEF Below
      <4>3. v[c] = sub[c]
        BY <1>2, <3>2, <4>1, <4>2
      <4>4. c # T!Null => u.up[c] = w
        BY <3>2, <4>1, <4>2 DEF Swung
      <4> QED BY <4>1, <4>2, <4>3, <4>4
    <3> QED BY <3>1, <3>2
  <2> QED BY <1>3, <2>1, <2>2 DEF Node
<1>9. u \in T!Tree /\ v[T!Null] = {}
  BY <1>1, <1>2, KeyFacts DEF Swung, Sets
<1>10. \A w \in v[u.root] : Node(u, v, w)
  BY <1>3, <1>6, <1>7, <1>8
<1> QED BY <1>2, <1>3, <1>9, <1>10 DEF Shape

(* The number of black nodes below each node is bh, on both sides; where   *)
(* the tree is one short, at the pointer from p to c, it counts one more.  *)
Weight(t, x) == IF x \in t.red THEN 0 ELSE 1
Lack(t, x, s, p, c) == IF x = p /\ t.kid[s][x] = c THEN 1 ELSE 0

Height(t, sub, bh, p, c) ==
  /\ bh \in [T!Ptr -> Nat] /\ bh[T!Null] = 0
  /\ \A x \in sub[t.root], s \in T!Sides :
       bh[x] = bh[t.kid[s][x]] + Lack(t, x, s, p, c) + Weight(t, x)

(* No red node is the root or below a red one, but for n and those below m.*)
Reds(t, sub, n, m) ==
  \A x \in sub[t.root] \cap t.red :
    t.up[x] \in t.red \cup {T!Null} => x = n \/ (t.up[x] = m /\ m # T!Null)

(* Whose parents are x and y after a rotation.                             *)
LEMMA SwungParents ==
  ASSUME NEW t, NEW sub, Shape(t, sub), NEW x, NEW y, NEW l, NEW z, NEW r, NEW s, NEW o,
         Pivot(t, sub, x, y, l, z, r, s, o), NEW u, Swung(t, sub, u, x, y, l, z, r, s, o),
         NEW w \in sub[t.root] \ {x, y}
  PROVE  /\ w = z => u.up[w] = x
         /\ w # z => u.up[w] = t.up[w]
         /\ w # z /\ w # l => u.up[w] # x
         /\ w # r => u.up[w] # y
         /\ w = l => t.up[w] = x
         /\ w = r => t.up[w] = y
<1>1. w # T!Null /\ x # y
  <2>1. T!Null \notin sub[t.root]
    BY SetsOfShape DEF Sets
  <2> QED BY <2>1, Zenon DEF Pivot
<1>2. /\ w = z => u.up[w] = x
      /\ w # z => u.up[w] = t.up[w]
      /\ w = l => t.up[w] = x
      /\ w = r => t.up[w] = y
  BY <1>1, Zenon DEF Swung, Pivot
<1>3. w # t.root => \E a \in T!Sides : t.kid[a][t.up[w]] = w
  BY UpFacts
<1>4. t.up[t.root] = T!Null /\ x # T!Null /\ y # T!Null
  <2>1. t.root # T!Null
    BY UpFacts
  <2>2. t.up[t.root] = T!Null
    BY <2>1 DEF Shape
  <2>3. T!Null \notin sub[t.root]
    BY SetsOfShape DEF Sets
  <2> QED BY <2>2, <2>3, Zenon DEF Pivot
<1>5. w # y /\ w # l => t.up[w] # x
  <2> SUFFICES ASSUME w # l, t.up[w] = x PROVE FALSE
    OBVIOUS
  <2>1. PICK a \in T!Sides : t.kid[a][x] = w
    BY <1>3, <1>4
  <2> QED BY <2>1, Zenon DEF Pivot
<1>6. w # z /\ w # r => t.up[w] # y
  <2> SUFFICES ASSUME w # z, w # r, t.up[w] = y PROVE FALSE
    OBVIOUS
  <2>1. PICK a \in T!Sides : t.kid[a][y] = w
    BY <1>3, <1>4
  <2> QED BY <2>1, Zenon DEF Pivot
<1> QED BY <1>1, <1>2, <1>5, <1>6

(* A black node and its red child change places and colours: the heights   *)
(* stay, and no red node comes below another.                              *)
LEMMA SwapHeight ==
  ASSUME NEW t, NEW sub, Shape(t, sub), NEW x, NEW y, NEW l, NEW z, NEW r, NEW s, NEW o,
         Pivot(t, sub, x, y, l, z, r, s, o), NEW u, Swung(t, sub, u, x, y, l, z, r, s, o),
         NEW v, v[u.root] = sub[t.root], NEW bh, NEW p, NEW c, Height(t, sub, bh, p, c),
         x \notin t.red, y \in t.red, u.red = (t.red \ {y}) \cup {x},
         p # y, c # x, c # y, p = x => c = l,
         NEW h, h = [bh EXCEPT ![x] = bh[y], ![y] = bh[x]]
  PROVE  Height(u, v, h, p, c)
<1> DEFINE N == sub[t.root]
<1>1. /\ x \in T!Ptr /\ y \in T!Ptr /\ x # T!Null /\ y # T!Null /\ x # y
      /\ x \in N /\ y \in N /\ s \in T!Sides /\ o \in T!Sides /\ o # s
      /\ (\A a \in T!Sides : a = s \/ a = o)
      /\ l \in T!Ptr /\ z \in T!Ptr /\ r \in T!Ptr
      /\ l \notin {x, y} /\ z \notin {x, y} /\ r \notin {x, y}
      /\ z # T!Null => z # l
      /\ y = t.kid[o][x] /\ l = t.kid[s][x] /\ z = t.kid[s][y] /\ r = t.kid[o][y]
  <2>1. T!Null \notin N
    BY SetsOfShape DEF Sets
  <2> QED BY <2>1, KeyFacts, ZenonT(40) DEF Pivot
<1>2. /\ bh \in [T!Ptr -> Nat] /\ bh[T!Null] = 0 /\ h \in [T!Ptr -> Nat] /\ h[T!Null] = 0
      /\ h[x] = bh[y] /\ h[y] = bh[x] /\ \A k \in T!Ptr : k # x /\ k # y => h[k] = bh[k]
  BY <1>1, KeyFacts, Zenon DEF Height
<1>3. /\ bh[x] = bh[l] + Lack(t, x, s, p, c) + 1 /\ bh[x] = bh[y] + 1
      /\ bh[y] = bh[z] /\ bh[y] = bh[r]
  <2>1. /\ bh[x] = bh[l] + Lack(t, x, s, p, c) + Weight(t, x)
        /\ bh[x] = bh[y] + Lack(t, x, o, p, c) + Weight(t, x)
        /\ bh[y] = bh[z] + Lack(t, y, s, p, c) + Weight(t, y)
        /\ bh[y] = bh[r] + Lack(t, y, o, p, c) + Weight(t, y)
    BY <1>1, Zenon DEF Height
  <2>2. Weight(t, x) = 1 /\ Weight(t, y) = 0
    BY DEF Weight
  <2>3. Lack(t, x, o, p, c) = 0 /\ Lack(t, y, s, p, c) = 0 /\ Lack(t, y, o, p, c) = 0
    BY <1>1, Zenon DEF Lack
  <2>4. bh[y] \in Nat /\ bh[z] \in Nat /\ bh[r] \in Nat
    BY <1>1, <1>2, Zenon
  <2> QED BY <2>1, <2>2, <2>3, <2>4
<1>4. z # T!Null \/ p # x
  <2> SUFFICES ASSUME z = T!Null, p = x PROVE FALSE
    OBVIOUS
  <2>1. Lack(t, x, s, p, c) = 1
    BY <1>1 DEF Lack
  <2>2. bh[y] = 0 /\ bh[l] \in Nat
    BY <1>1, <1>2, <1>3, Zenon
  <2> QED BY <1>3, <2>1, <2>2
<1>5. /\ u.kid[o][x] = z /\ u.kid[s][x] = l /\ u.kid[s][y] = x /\ u.kid[o][y] = r
      /\ Weight(u, x) = 0 /\ Weight(u, y) = 1
  BY <1>1, Zenon DEF Swung, Weight
<1>6. /\ h[x] = h[l] + Lack(u, x, s, p, c) + 0 /\ h[x] = h[z] + Lack(u, x, o, p, c) + 0
      /\ h[y] = h[x] + Lack(u, y, s, p, c) + 1 /\ h[y] = h[r] + Lack(u, y, o, p, c) + 1
  <2>1. Lack(u, x, s, p, c) = Lack(t, x, s, p, c) /\ Lack(t, x, s, p, c) \in Nat
    BY <1>1, <1>5, Zenon DEF Lack
  <2>2. Lack(u, x, o, p, c) = 0 /\ Lack(u, y, s, p, c) = 0 /\ Lack(u, y, o, p, c) = 0
    BY <1>1, <1>4, <1>5, Zenon DEF Lack
  <2>3. bh[x] \in Nat /\ bh[y] \in Nat /\ bh[l] \in Nat /\ h[l] = bh[l] /\ h[z] = bh[z] /\ h[r] = bh[r]
    BY <1>1, <1>2, Zenon
  <2> QED BY <1>2, <1>3, <2>1, <2>2, <2>3
<1>7. ASSUME NEW w \in N \ {x, y}, NEW a \in T!Sides
      PROVE  h[w] = h[u.kid[a][w]] + Lack(u, w, a, p, c) + Weight(u, w)
  <2>1. bh[w] = bh[t.kid[a][w]] + Lack(t, w, a, p, c) + Weight(t, w)
    BY DEF Height
  <2>2. Weight(u, w) = Weight(t, w)
    BY DEF Weight
  <2>3. w \in T!Ptr /\ t.kid[a][w] \in T!Ptr
    BY SetsOfShape, BelowNode, KeyFacts DEF Sets, Below
  <2>4. h[w] = bh[w]
    BY <1>2, <2>3
  <2>5. h[u.kid[a][w]] = bh[t.kid[a][w]] /\ Lack(u, w, a, p, c) = Lack(t, w, a, p, c)
    BY <1>2, <2>3 DEF Swung, Lack
  <2> QED BY <2>1, <2>2, <2>4, <2>5
<1>8. ASSUME NEW w \in N, NEW a \in T!Sides
      PROVE  h[w] = h[u.kid[a][w]] + Lack(u, w, a, p, c) + Weight(u, w)
  <2>1. CASE w = x
    BY <1>1, <1>5, <1>6, <2>1, Zenon
  <2>2. CASE w = y
    BY <1>1, <1>5, <1>6, <2>2
  <2> QED BY <1>7, <2>1, <2>2, Zenon
<1> QED BY <1>2, <1>8, Zenon DEF Height

LEMMA SwapReds ==
  ASSUME NEW t, NEW sub, Shape(t, sub), NEW x, NEW y, NEW l, NEW z, NEW r, NEW s, NEW o,
         Pivot(t, sub, x, y, l, z, r, s, o), NEW u, Swung(t, sub, u, x, y, l, z, r, s, o),
         NEW v, v[u.root] = sub[t.root], NEW n, n \in {r, T!Null}, Reds(t, sub, n, T!Null),
         x \notin t.red, y \in t.red, u.red = (t.red \ {y}) \cup {x}, l \notin t.red
  PROVE  Reds(u, v, T!Null, T!Null)
<1> DEFINE N == sub[t.root]
<1>1. /\ x \in N /\ y \in N /\ x # T!Null /\ y # T!Null /\ x # y
      /\ (r # T!Null => t.up[r] = y) /\ (z # T!Null => z \in N /\ t.up[z] = y /\ z # r)
      /\ u.up[x] = y /\ T!Null \notin N
  BY SetsOfShape, Zenon DEF Sets, Pivot, Swung
<1>2. z \notin t.red \/ z = T!Null
  BY <1>1 DEF Reds
<1>3. ASSUME NEW w \in N \cap u.red, u.up[w] \in u.red \cup {T!Null} PROVE FALSE
  <2>1. w # y /\ (w = x => u.up[w] = y) /\ y \notin u.red
    BY <1>1
  <2>2. w # x
    BY <1>1, <1>3, <2>1
  <2>3. w \in t.red /\ w # l /\ w # z
    BY <1>1, <1>2, <2>1, <2>2
  <2>4. u.up[w] = t.up[w] /\ u.up[w] # x
    BY <2>1, <2>2, <2>3, SwungParents
  <2>5. t.up[w] \in t.red \cup {T!Null}
    BY <1>3, <2>4
  <2>6. w = n
    BY <2>3, <2>5 DEF Reds
  <2> QED BY <1>1, <1>3, <2>1, <2>4, <2>6
<1> QED BY <1>3 DEF Reds

(* With a red child r below y, too, y makes up for a black node that is    *)
(* missing below l: y gets the colour of x, and x and r become black.      *)
EvenColours(t, u, x, y, r) ==
  /\ x \notin u.red /\ r \notin u.red /\ (y \in u.red <=> x \in t.red)
  /\ \A w \in T!Keys \ {x, y, r} : w \in u.red <=> w \in t.red

LEMMA EvenHeight ==
  ASSUME NEW t, NEW sub, Shape(t, sub), NEW x, NEW y, NEW l, NEW z, NEW r, NEW s, NEW o,
         Pivot(t, sub, x, y, l, z, r, s, o), NEW u, Swung(t, sub, u, x, y, l, z, r, s, o),
         NEW v, v[u.root] = sub[t.root], NEW bh, Height(t, sub, bh, x, l),
         y \notin t.red, r \in t.red, r # T!Null,
         EvenColours(t, u, x, y, r),
         NEW h, h = [bh EXCEPT ![x] = bh[y], ![y] = bh[x], ![r] = bh[r] + 1]
  PROVE  Height(u, v, h, T!Null, T!Null)
<1> DEFINE N == sub[t.root]
<1>1. /\ x \in T!Ptr /\ y \in T!Ptr /\ x # T!Null /\ y # T!Null /\ x # y
      /\ x \in N /\ y \in N /\ s \in T!Sides /\ o \in T!Sides /\ o # s
      /\ (\A a \in T!Sides : a = s \/ a = o)
      /\ l \in T!Ptr /\ z \in T!Ptr /\ r \in T!Ptr
      /\ l \notin {x, y} /\ z \notin {x, y} /\ r \notin {x, y}
      /\ (z # T!Null => z # l) /\ z # r /\ (l # T!Null => t.up[l] = x) /\ t.up[r] = y /\ r \in N
      /\ y = t.kid[o][x] /\ l = t.kid[s][x] /\ z = t.kid[s][y] /\ r = t.kid[o][y]
      /\ N \subseteq T!Keys
  <2>1. T!Null \notin N /\ N \subseteq T!Keys
    BY SetsOfShape DEF Sets
  <2> QED BY <2>1, KeyFacts, ZenonT(40) DEF Pivot
<1>2. l # r
  BY <1>1, Zenon
<1>3. /\ bh \in [T!Ptr -> Nat] /\ bh[T!Null] = 0 /\ h \in [T!Ptr -> Nat] /\ h[T!Null] = 0
      /\ h[x] = bh[y] /\ h[y] = bh[x] /\ h[r] = bh[r] + 1
      /\ \A k \in T!Ptr : k # x /\ k # y /\ k # r => h[k] = bh[k]
  <2>1. bh \in [T!Ptr -> Nat] /\ bh[T!Null] = 0 /\ T!Null \in T!Ptr
    BY KeyFacts DEF Height
  <2>2. bh[x] \in Nat /\ bh[y] \in Nat /\ bh[r] + 1 \in Nat
    <3>1. x \in T!Ptr /\ y \in T!Ptr /\ r \in T!Ptr
      BY <1>1, Zenon
    <3> QED BY <2>1, <3>1
  <2> QED BY <1>1, <2>1, <2>2, Zenon
<1>4. /\ bh[x] = bh[l] + 1 + Weight(t, x) /\ bh[x] = bh[y] + Weight(t, x)
      /\ bh[y] = bh[z] + 1 /\ bh[y] = bh[r] + 1
  <2>1. /\ bh[x] = bh[l] + Lack(t, x, s, x, l) + Weight(t, x)
        /\ bh[x] = bh[y] + Lack(t, x, o, x, l) + Weight(t, x)
        /\ bh[y] = bh[z] + Lack(t, y, s, x, l) + Weight(t, y)
        /\ bh[y] = bh[r] + Lack(t, y, o, x, l) + Weight(t, y)
    <3>1. x \in N /\ y \in N /\ s \in T!Sides /\ o \in T!Sides
          /\ y = t.kid[o][x] /\ l = t.kid[s][x] /\ z = t.kid[s][y] /\ r = t.kid[o][y]
      BY <1>1, Zenon
    <3>2. \A w \in N, a \in T!Sides : bh[w] = bh[t.kid[a][w]] + Lack(t, w, a, x, l) + Weight(t, w)
      BY DEF Height
    <3> QED BY <3>1, <3>2, Zenon
  <2>2. Weight(t, y) = 1 /\ Weight(t, x) \in Nat
    BY DEF Weight
  <2>3. /\ Lack(t, x, s, x, l) = 1 /\ Lack(t, x, o, x, l) = 0
        /\ Lack(t, y, s, x, l) = 0 /\ Lack(t, y, o, x, l) = 0
    BY <1>1, Zenon DEF Lack
  <2>4. bh[y] \in Nat /\ bh[z] \in Nat /\ bh[r] \in Nat /\ bh[l] \in Nat
    BY <1>1, <1>3, Zenon
  <2> QED BY <2>1, <2>2, <2>3, <2>4
<1>5. /\ u.kid[o][x] = z /\ u.kid[s][x] = l /\ u.kid[s][y] = x /\ u.kid[o][y] = r
      /\ Weight(u, x) = 1 /\ Weight(u, y) = Weight(t, x) /\ Weight(t, x) \in Nat
  BY <1>1, Zenon DEF Swung, Weight, EvenColours
<1>6. \A w \in N, a \in T!Sides : Lack(u, w, a, T!Null, T!Null) = 0
  BY SetsOfShape DEF Lack, Sets
<1>7. /\ h[x] = h[l] + 0 + Weight(u, x) /\ h[x] = h[z] + 0 + Weight(u, x)
      /\ h[y] = h[x] + 0 + Weight(u, y) /\ h[y] = h[r] + 0 + Weight(u, y)
  <2>1. /\ bh[x] \in Nat /\ bh[y] \in Nat /\ bh[l] \in Nat /\ bh[z] \in Nat /\ bh[r] \in Nat
        /\ h[l] = bh[l] /\ h[z] = bh[z] /\ h[x] = bh[y] /\ h[y] = bh[x] /\ h[r] = bh[r] + 1
    BY <1>1, <1>2, <1>3, Zenon
  <2>2. Weight(u, x) = 1 /\ Weight(u, y) = Weight(t, x) /\ Weight(t, x) \in Nat
    BY <1>5
  <2> QED BY <1>4, <2>1, <2>2
<1>8. ASSUME NEW w \in N \ {x, y}, NEW a \in T!Sides
      PROVE  h[w] = h[u.kid[a][w]] + 0 + Weight(u, w)
  <2>1. bh[w] = bh[t.kid[a][w]] + Lack(t, w, a, x, l) + Weight(t, w) /\ Lack(t, w, a, x, l) = 0
    BY DEF Height, Lack
  <2>2. Weight(u, w) = IF w = r THEN Weight(t, w) + 1 ELSE Weight(t, w)
    <3>1. w \in T!Keys
      BY <1>1, Zenon
    <3> QED BY <3>1 DEF Weight, EvenColours
  <2>3. w \in T!Ptr /\ t.kid[a][w] \in T!Ptr /\ (t.kid[a][w] # T!Null => t.up[t.kid[a][w]] = w)
    BY SetsOfShape, BelowNode, KeyFacts DEF Sets, Below
  <2>4. h[w] = IF w = r THEN bh[w] + 1 ELSE bh[w]
    BY <1>3, <2>3
  <2>5. t.kid[a][w] # r
    BY <1>1, <2>3, Zenon
  <2>6. h[u.kid[a][w]] = bh[t.kid[a][w]]
    <3>1. CASE t.kid[a][w] = x
      <4>1. u.kid[a][w] = y
        BY <3>1 DEF Swung
      <4> QED BY <1>3, <3>1, <4>1
    <3>2. CASE t.kid[a][w] # x
      <4>1. u.kid[a][w] = t.kid[a][w] /\ t.kid[a][w] # y
        BY <3>2 DEF Swung
      <4> QED BY <1>3, <2>3, <2>5, <3>2, <4>1
    <3> QED BY <3>1, <3>2
  <2>7. bh[w] \in Nat /\ bh[t.kid[a][w]] \in Nat /\ Weight(t, w) \in Nat
    BY <1>3, <2>3 DEF Weight
  <2> QED BY <2>1, <2>2, <2>4, <2>6, <2>7
<1>9. ASSUME NEW w \in N, NEW a \in T!Sides
      PROVE  h[w] = h[u.kid[a][w]] + Lack(u, w, a, T!Null, T!Null) + Weight(u, w)
  <2>1. CASE w = x
    BY <1>1, <1>5, <1>6, <1>7, <2>1, ZenonT(40)
  <2>2. CASE w = y
    BY <1>1, <1>5, <1>6, <1>7, <2>2
  <2> QED BY <1>6, <1>8, <2>1, <2>2, Zenon
<1>10. h \in [T!Ptr -> Nat] /\ h[T!Null] = 0
  BY <1>3
<1> QED BY <1>9, <1>10, Zenon DEF Height

LEMMA EvenReds ==
  ASSUME NEW t, NEW sub, Shape(t, sub), NEW x, NEW y, NEW l, NEW z, NEW r, NEW s, NEW o,
         Pivot(t, sub, x, y, l, z, r, s, o), NEW u, Swung(t, sub, u, x, y, l, z, r, s, o),
         NEW v, v[u.root] = sub[t.root], Reds(t, sub, T!Null, T!Null),
         EvenColours(t, u, x, y, r)
  PROVE  Reds(u, v, T!Null, T!Null)
<1> DEFINE N == sub[t.root]
<1>1. /\ x \in N /\ y \in N /\ x # T!Null /\ y # T!Null /\ x # y
      /\ u.up[x] = y /\ u.up[y] = t.up[x] /\ T!Null \notin N /\ N \subseteq T!Keys
      /\ t.up[x] \notin {x, y}
  BY SetsOfShape, Zenon DEF Sets, Pivot, Swung
<1>2. u.red \subseteq T!Keys
  BY Fields DEF Swung
<1>3. /\ \A w \in T!Keys \ {x, y} : w \in u.red => w \in t.red
      /\ x \notin u.red /\ r \notin u.red /\ (y \in u.red <=> x \in t.red)
  BY DEF EvenColours
<1>4. ASSUME NEW w \in N \cap u.red, u.up[w] \in u.red \cup {T!Null} PROVE FALSE
  <2>1. w # x /\ w # r
    BY <1>3
  <2>2. CASE w = y
    <3>1. x \in t.red /\ t.up[x] \in t.red \cup {T!Null}
      BY <1>1, <1>2, <1>3, <1>4, <2>2
    <3> QED BY <1>1, <3>1 DEF Reds
  <2>3. CASE w # y
    <3>1. w \in t.red /\ (w = z => u.up[w] = x) /\ (w # z => u.up[w] = t.up[w]) /\ u.up[w] # y
      BY <1>1, <1>3, <2>1, <2>3, SwungParents
    <3>2. w # z
      BY <1>1, <1>3, <1>4, <3>1
    <3>3. t.up[w] \in t.red \cup {T!Null}
      BY <1>1, <1>2, <1>3, <1>4, <3>1, <3>2
    <3> QED BY <1>1, <3>1, <3>3 DEF Reds
  <2> QED BY <2>2, <2>3
<1> QED BY <1>4 DEF Reds

(* Two red nodes change places.                                            *)
LEMMA RedRed ==
  ASSUME NEW t, NEW sub, Shape(t, sub), NEW x, NEW y, NEW l, NEW z, NEW r, NEW s, NEW o,
         Pivot(t, sub, x, y, l, z, r, s, o), NEW u, Swung(t, sub, u, x, y, l, z, r, s, o),
         NEW v, v[u.root] = sub[t.root], NEW bh, Height(t, sub, bh, T!Null, T!Null),
         Reds(t, sub, y, T!Null), x \in t.red, y \in t.red, u.red = t.red
  PROVE  Height(u, v, bh, T!Null, T!Null) /\ Reds(u, v, x, T!Null)
<1> DEFINE N == sub[t.root]
<1>1. /\ x \in N /\ y \in N /\ x # T!Null /\ y # T!Null /\ x # y
      /\ s \in T!Sides /\ o \in T!Sides /\ (\A a \in T!Sides : a = s \/ a = o)
      /\ u.up[x] = y /\ u.up[y] = t.up[x] /\ T!Null \notin N
      /\ (z # T!Null => t.up[z] = y) /\ y = t.kid[o][x] /\ l = t.kid[s][x]
      /\ z = t.kid[s][y] /\ r = t.kid[o][y]
      /\ u.kid[o][x] = z /\ u.kid[s][x] = l /\ u.kid[s][y] = x /\ u.kid[o][y] = r
  BY SetsOfShape, Zenon DEF Sets, Pivot, Swung
<1>2. \A w \in N, a \in T!Sides :
        /\ bh[w] = bh[t.kid[a][w]] + 0 + Weight(t, w)
        /\ Lack(u, w, a, T!Null, T!Null) = 0 /\ Weight(u, w) = Weight(t, w)
        /\ w \in T!Ptr /\ t.kid[a][w] \in T!Ptr
  <2> TAKE w \in N, a \in T!Sides
  <2>1. w # T!Null /\ w \in T!Ptr /\ t.kid[a][w] \in T!Ptr
    <3>1. w # T!Null /\ w \in T!Ptr
      BY SetsOfShape, KeyFacts DEF Sets
    <3>2. t.kid[a][w] \in T!Ptr
      BY BelowNode DEF Below
    <3> QED BY <3>1, <3>2
  <2>2. bh[w] = bh[t.kid[a][w]] + Lack(t, w, a, T!Null, T!Null) + Weight(t, w)
    BY DEF Height
  <2>3. Lack(t, w, a, T!Null, T!Null) = 0 /\ Lack(u, w, a, T!Null, T!Null) = 0
    BY <2>1 DEF Lack
  <2> QED BY <2>1, <2>2, <2>3 DEF Weight
<1>3. /\ bh \in [T!Ptr -> Nat] /\ bh[T!Null] = 0
      /\ Weight(t, x) = 0 /\ Weight(t, y) = 0
  BY DEF Height, Weight
<1>4. bh[x] = bh[l] /\ bh[x] = bh[y] /\ bh[y] = bh[z] /\ bh[y] = bh[r] /\ bh[x] \in Nat
  <2>1. /\ bh[x] = bh[l] + 0 + Weight(t, x) /\ bh[x] = bh[y] + 0 + Weight(t, x)
        /\ bh[y] = bh[z] + 0 + Weight(t, y) /\ bh[y] = bh[r] + 0 + Weight(t, y)
    BY <1>1, <1>2, ZenonT(40)
  <2>2. bh[x] \in Nat /\ bh[y] \in Nat /\ bh[z] \in Nat /\ bh[r] \in Nat /\ bh[l] \in Nat
    BY <1>1, <1>2, <1>3, Zenon
  <2> QED BY <1>3, <2>1, <2>2
<1>5. ASSUME NEW w \in N, NEW a \in T!Sides
      PROVE  bh[w] = bh[u.kid[a][w]] + Lack(u, w, a, T!Null, T!Null) + Weight(u, w)
  <2>1. Lack(u, w, a, T!Null, T!Null) = 0 /\ Weight(u, w) = Weight(t, w)
    BY <1>2
  <2>2. CASE w = x
    <3>1. bh[u.kid[a][w]] = bh[x]
      BY <1>1, <1>4, <2>2, Zenon
    <3> QED BY <1>3, <1>4, <2>1, <2>2, <3>1
  <2>3. CASE w = y
    <3>1. bh[u.kid[a][w]] = bh[x]
      BY <1>1, <1>4, <2>3, Zenon
    <3> QED BY <1>3, <1>4, <2>1, <2>3, <3>1
  <2>4. CASE w # x /\ w # y
    <3>1. bh[u.kid[a][w]] = bh[t.kid[a][w]]
      BY <1>4, <2>4 DEF Swung
    <3> QED BY <1>2, <3>1
  <2> QED BY <2>2, <2>3, <2>4
<1>6. ASSUME NEW w \in N \cap t.red, u.up[w] \in t.red \cup {T!Null}, w # x PROVE FALSE
  <2>1. w # y
    <3>1. t.up[x] \notin t.red \cup {T!Null}
      BY <1>1 DEF Reds
    <3> QED BY <1>1, <1>6, <3>1, Zenon
  <2>2. CASE w = z
    BY <1>1, <2>1, <2>2, Zenon DEF Reds
  <2>3. CASE w # z
    <3>1. u.up[w] = t.up[w]
      BY <1>6, <2>1, <2>3, SwungParents
    <3> QED BY <1>6, <2>1, <3>1 DEF Reds
  <2> QED BY <2>2, <2>3
<1> QED BY <1>3, <1>5, <1>6 DEF Height, Reds

(* Colours are no part of the shape of a tree.                             *)
Painted(t, u, R) ==
  u \in T!Tree /\ u.root = t.root /\ u.kid = t.kid /\ u.up = t.up /\ u.red = R

LEMMA SetRedFacts ==
  ASSUME NEW t \in T!Tree, NEW x \in T!Keys
  PROVE  Painted(t, T!SetRed(t, x), t.red \cup {x})
<1>1. t.red \cup {x} \in SUBSET T!Keys
  BY Fields
<1>2. T!SetRed(t, x) = [t EXCEPT !.red = t.red \cup {x}]
  BY DEF T!SetRed
<1> QED BY <1>1, <1>2, SetFields DEF Painted

LEMMA SetBlackFacts ==
  ASSUME NEW t \in T!Tree, NEW x
  PROVE  Painted(t, T!SetBlack(t, x), t.red \ {x})
<1>1. t.red \ {x} \in SUBSET T!Keys
  BY Fields
<1>2. T!SetBlack(t, x) = [t EXCEPT !.red = t.red \ {x}]
  BY DEF T!SetBlack
<1> QED BY <1>1, <1>2, SetFields DEF Painted

LEMMA PaintedTwice ==
  ASSUME NEW t, NEW u, NEW w, NEW R, NEW Q, Painted(t, u, R), Painted(u, w, Q)
  PROVE  Painted(t, w, Q)
BY DEF Painted

LEMMA PaintedShape ==
  ASSUME NEW t, NEW u, NEW R, NEW sub, Shape(t, sub), Painted(t, u, R)
  PROVE  Shape(u, sub)
BY DEF Shape, Node, Painted

LEMMA PaintedTurns ==
  ASSUME NEW t, NEW t0, NEW R, Painted(t, t0, R), NEW u, NEW x, NEW y, NEW z, NEW s,
         Turned(t0, u, x, y, z, s)
  PROVE  Turned(t, u, x, y, z, s)
BY DEF Painted, Turned

(* u is t after the colours R and a rotation of x.                         *)
Rotation(t, sub, u, R, x, y, l, z, r, s, o, v) ==
  /\ Pivot(t, sub, x, y, l, z, r, s, o) /\ Swung(t, sub, u, x, y, l, z, r, s, o)
  /\ Shape(u, v) /\ v[u.root] = sub[t.root] /\ u.red = R

LEMMA Rotates ==
  ASSUME NEW t, NEW sub, Shape(t, sub), NEW x \in sub[t.root], NEW s \in T!Sides,
         NEW o, o = T!Other(s), NEW y, y = t.kid[o][x], y # T!Null,
         NEW t0, NEW R, Painted(t, t0, R)
  PROVE  Rotation(t, sub, T!Rotate(t0, x, s), R, x, y, t.kid[s][x], t.kid[s][y], t.kid[o][y], s, o,
                  TurnedSub(sub, x, y, t.kid[s][x], t.kid[s][y]))
<1> DEFINE u == T!Rotate(t0, x, s)
           l == t.kid[s][x]
           z == t.kid[s][y]
           r == t.kid[o][y]
<1> HIDE DEF u, l, z, r
<1>1. Pivot(t, sub, x, y, l, z, r, s, o)
  BY Pivots DEF l, z, r
<1>2. t0.root = t.root /\ t0.kid = t.kid /\ t0.red = R
  BY DEF Painted
<1>3. Shape(t0, sub)
  BY PaintedShape
<1>4. Turned(t0, u, x, y, z, s) /\ u.red = R
  <2>1. x \in sub[t0.root] /\ y = t0.kid[T!Other(s)][x] /\ z = t0.kid[s][y]
    BY <1>2 DEF z
  <2> QED BY <1>2, <1>3, <2>1, RotateTurns DEF u
<1>5. Swung(t, sub, u, x, y, l, z, r, s, o)
  BY <1>1, <1>4, PaintedTurns, Swings
<1>6. Shape(u, TurnedSub(sub, x, y, l, z)) /\ TurnedSub(sub, x, y, l, z)[u.root] = sub[t.root]
  BY <1>1, <1>5, RotateShape
<1> QED BY <1>1, <1>4, <1>5, <1>6, Zenon DEF Rotation, u, l, z, r

(* A red-black tree, but for a missing black node at the pointer from p to *)
(* c, and red nodes at n and below m.                                      *)
Sound(t, sub, bh, p, c, n, m) ==
  Shape(t, sub) /\ Height(t, sub, bh, p, c) /\ Reds(t, sub, n, m)

LEMMA CalmReds ==
  ASSUME NEW t, NEW sub, Shape(t, sub), Reds(t, sub, T!Null, T!Null), NEW n, NEW m
  PROVE  Reds(t, sub, n, m)
<1>1. T!Null \notin sub[t.root]
  BY SetsOfShape DEF Sets
<1> QED BY <1>1 DEF Reds

(* rb_insert_color: the outer child low of the red node top is red.        *)
LEMMA OuterInsert ==
  ASSUME NEW t, NEW sub, NEW bh, NEW low, Sound(t, sub, bh, T!Null, T!Null, low, T!Null),
         NEW g \in sub[t.root], NEW s \in T!Sides, NEW top, top = t.kid[s][g],
         low = t.kid[s][top], top \in t.red, low \in t.red, g \notin t.red,
         t.kid[T!Other(s)][g] \notin t.red,
         NEW u, u = T!Rotate(T!SetRed(T!SetBlack(t, top), g), g, T!Other(s))
  PROVE  \E v, h : /\ Sound(u, v, h, T!Null, T!Null, low, T!Null)
                   /\ v[u.root] = sub[t.root] /\ low \in sub[t.root] \cap u.red
<1> DEFINE o == T!Other(s)
           l == t.kid[o][g]
           z == t.kid[o][top]
           R == (t.red \ {top}) \cup {g}
           v == TurnedSub(sub, g, top, l, z)
           h == [bh EXCEPT ![g] = bh[top], ![top] = bh[g]]
<1>1. Shape(t, sub) /\ Height(t, sub, bh, T!Null, T!Null) /\ Reds(t, sub, low, T!Null)
  BY DEF Sound
<1>2. o \in T!Sides /\ T!Other(o) = s
  BY SideFacts
<1>3. t.red \subseteq T!Keys /\ t \in T!Tree /\ g \in T!Keys /\ T!Null \notin T!Keys
  BY <1>1, SetsOfShape, Fields, KeyFacts DEF Sets
<1>4. Painted(t, T!SetRed(T!SetBlack(t, top), g), R)
  <2>1. Painted(t, T!SetBlack(t, top), t.red \ {top})
    BY <1>3, SetBlackFacts
  <2>2. T!SetBlack(t, top) \in T!Tree /\ T!SetBlack(t, top).red = t.red \ {top}
    BY <2>1 DEF Painted
  <2>3. Painted(T!SetBlack(t, top), T!SetRed(T!SetBlack(t, top), g), R)
    BY <1>3, <2>2, SetRedFacts
  <2> QED BY <2>1, <2>3, PaintedTwice
<1>5. top # T!Null /\ low # T!Null
  BY <1>3
<1> HIDE DEF o, R, v, h, l, z
<1>6. Rotation(t, sub, u, R, g, top, l, z, low, o, s, v)
  <2>1. s = T!Other(o)
    BY <1>2
  <2>2. u = T!Rotate(T!SetRed(T!SetBlack(t, top), g), g, o)
    BY DEF o
  <2> QED BY <1>1, <1>2, <1>4, <1>5, <2>1, <2>2, Rotates DEF l, z, v
<1>7. /\ Pivot(t, sub, g, top, l, z, low, o, s) /\ Swung(t, sub, u, g, top, l, z, low, o, s)
      /\ Shape(u, v) /\ v[u.root] = sub[t.root] /\ u.red = (t.red \ {top}) \cup {g}
  BY <1>6 DEF Rotation, R
<1>8. l \notin t.red /\ g # T!Null
  BY <1>3, SMTT(30) DEF l, o
<1>9. Height(u, v, h, T!Null, T!Null)
  BY <1>1, <1>5, <1>7, <1>8, SwapHeight, SMTT(30) DEF h
<1>10. Reds(u, v, T!Null, T!Null)
  BY <1>1, <1>7, <1>8, SwapReds
<1>11. low \in sub[t.root] \cap u.red
  BY <1>5, <1>7, Zenon DEF Pivot
<1>12. Reds(u, v, low, T!Null)
  BY <1>7, <1>10, CalmReds
<1> QED BY <1>7, <1>9, <1>11, <1>12, Zenon DEF Sound

(* A pass of rb_insert_color.                                              *)
LEMMA InsertColorPass ==
  ASSUME NEW sub, NEW bh, Sound(tree, sub, bh, T!Null, T!Null, node, T!Null),
         node \in sub[tree.root] \cap tree.red, T!InsertColor
  PROVE  \E v, h : /\ Sound(tree', v, h, T!Null, T!Null, node', T!Null)
                   /\ v[tree'.root] = sub[tree.root] /\ node' \in sub[tree.root] \cap tree'.red
<1> DEFINE N == sub[tree.root]
           p == tree.up[node]
           g == tree.up[p]
           s == IF p = tree.kid["left"][g] THEN "left" ELSE "right"
           o == T!Other(s)
           uncle == tree.kid[o][g]
           inner == tree.kid[o][p] = node
           t == IF inner THEN T!Rotate(tree, p, s) ELSE tree
           top == IF inner THEN node ELSE p
<1>1. /\ Shape(tree, sub) /\ Height(tree, sub, bh, T!Null, T!Null)
      /\ Reds(tree, sub, node, T!Null)
  BY DEF Sound
<1>2. /\ T!IsRed(tree, p)
      /\ \/ /\ T!IsRed(tree, uncle)
            /\ tree' = T!SetRed(T!SetBlack(T!SetBlack(tree, uncle), p), g)
            /\ node' = g
         \/ /\ ~T!IsRed(tree, uncle)
            /\ tree' = T!Rotate(T!SetRed(T!SetBlack(t, top), g), g, o)
            /\ node' = IF inner THEN p ELSE node
  BY Zenon DEF T!InsertColor
<1>3. /\ tree \in T!Tree /\ N \subseteq T!Keys /\ T!Null \notin N /\ tree.red \subseteq T!Keys
      /\ T!Null \notin T!Keys
  BY <1>1, SetsOfShape, Fields, KeyFacts DEF Sets
<1>4. p \in tree.red /\ p # T!Null /\ p \in N /\ p # node
      /\ \E a \in T!Sides : tree.kid[a][p] = node
  <2>1. p \in tree.red /\ p # T!Null
    BY <1>2, Zenon DEF T!IsRed
  <2>2. p \in N /\ \E a \in T!Sides : tree.kid[a][p] = node
    BY <1>1, <2>1, UpFacts
  <2>3. p # node
    BY <1>1, <1>3, <2>2, BelowNode DEF Below
  <2> QED BY <2>1, <2>2, <2>3
<1>5. g \notin tree.red /\ g # T!Null
  BY <1>1, <1>4 DEF Reds
<1>6. g \in N /\ \E a \in T!Sides : tree.kid[a][g] = p
  BY <1>1, <1>4, <1>5, UpFacts
<1>7. s \in T!Sides /\ o \in T!Sides /\ o # s /\ T!Other(o) = s /\ (\A a \in T!Sides : a = s \/ a = o)
      /\ tree.kid[s][g] = p /\ uncle # p
  <2>1. PICK a \in T!Sides : tree.kid[a][g] = p
    BY <1>6
  <2>2. tree.kid[T!Other(a)][g] # p
    <3>1. Below(tree, sub, g, a)
      BY <1>1, <1>6, BelowNode
    <3>2. p \in sub[p]
      BY <1>1, <1>4, ShapeFacts
    <3> QED BY <2>1, <3>1, <3>2, Zenon DEF Below
  <2>3. a = s
    BY <2>1, <2>2, KeyFacts
  <2> QED BY <2>1, <2>2, <2>3, SideFacts, Zenon
<1> HIDE DEF s, o, p, g
<1>8. CASE T!IsRed(tree, uncle)
  <2> DEFINE R == ((tree.red \ {uncle}) \ {p}) \cup {g}
             h == [bh EXCEPT ![p] = bh[p] + 1, ![uncle] = bh[uncle] + 1]
  <2>1. uncle \in tree.red /\ uncle # T!Null /\ uncle \in N /\ tree.up[uncle] = g /\ tree.up[p] = g
        /\ uncle # g /\ p # g
    BY <1>1, <1>4, <1>5, <1>6, <1>7, <1>8, BelowNode DEF Below, T!IsRed, g
  <2>2. tree' = T!SetRed(T!SetBlack(T!SetBlack(tree, uncle), p), g) /\ node' = g
    BY <1>2, <1>8
  <2> HIDE DEF uncle
  <2>3. Painted(tree, tree', R)
    <3>1. Painted(tree, T!SetBlack(tree, uncle), tree.red \ {uncle})
      BY <1>3, SetBlackFacts
    <3> DEFINE t1 == T!SetBlack(tree, uncle)
    <3>2. t1 \in T!Tree /\ t1.red = tree.red \ {uncle}
      BY <3>1 DEF Painted
    <3>3. Painted(t1, T!SetBlack(t1, p), (tree.red \ {uncle}) \ {p})
      BY <3>2, SetBlackFacts
    <3> HIDE DEF t1
    <3> DEFINE t2 == T!SetBlack(t1, p)
    <3>4. t2 \in T!Tree /\ t2.red = (tree.red \ {uncle}) \ {p}
      BY <3>3 DEF Painted
    <3> HIDE DEF t2
    <3>5. Painted(t2, T!SetRed(t2, g), R)
      BY <1>3, <1>6, <3>4, SetRedFacts
    <3>6. tree' = T!SetRed(t2, g)
      BY <2>2 DEF t1, t2
    <3>7. Painted(tree, t1, tree.red \ {uncle}) /\ Painted(t1, t2, (tree.red \ {uncle}) \ {p})
      BY <3>1, <3>3 DEF t1, t2
    <3> QED BY <3>5, <3>6, <3>7, PaintedTwice
  <2> HIDE DEF R
  <2>4. Shape(tree', sub) /\ tree'.root = tree.root /\ tree'.kid = tree.kid /\ tree'.up = tree.up
        /\ tree'.red = R
    BY <1>1, <2>3, PaintedShape DEF Painted
  <2>5. Height(tree', sub, h, T!Null, T!Null)
    <3>1. bh \in [T!Ptr -> Nat] /\ bh[T!Null] = 0 /\ p \in T!Ptr /\ uncle \in T!Ptr
      <4>1. bh \in [T!Ptr -> Nat] /\ bh[T!Null] = 0
        BY <1>1 DEF Height
      <4>2. p \in T!Keys /\ uncle \in T!Keys
        BY <1>3, <1>4, <2>1
      <4> QED BY <4>1, <4>2, KeyFacts
    <3>2. /\ h \in [T!Ptr -> Nat] /\ h[T!Null] = 0 /\ h[p] = bh[p] + 1 /\ h[uncle] = bh[uncle] + 1
          /\ \A k \in T!Ptr : k # p /\ k # uncle => h[k] = bh[k]
      <4>1. bh[p] + 1 \in Nat /\ bh[uncle] + 1 \in Nat
        BY <3>1
      <4>2. p # uncle /\ p # T!Null /\ uncle # T!Null /\ T!Null \in T!Ptr
        BY <1>4, <1>7, <2>1, KeyFacts DEF uncle
      <4> QED BY <3>1, <4>1, <4>2
    <3> HIDE DEF h
    <3>3. ASSUME NEW w \in N, NEW a \in T!Sides
          PROVE  h[w] = h[tree.kid[a][w]] + Lack(tree', w, a, T!Null, T!Null) + Weight(tree', w)
      <4> DEFINE c == tree.kid[a][w]
      <4>1. /\ bh[w] = bh[c] + Lack(tree, w, a, T!Null, T!Null) + Weight(tree, w)
            /\ Lack(tree, w, a, T!Null, T!Null) = 0 /\ Lack(tree', w, a, T!Null, T!Null) = 0
        BY <1>1, <1>3 DEF Height, Lack
      <4>2. w \in T!Ptr /\ c \in T!Ptr /\ (c # T!Null => tree.up[c] = w) /\ c # w
        BY <1>1, <1>3, BelowNode, KeyFacts DEF Below
      <4> HIDE DEF c
      <4>3. bh[w] \in Nat /\ bh[c] \in Nat
        BY <3>1, <4>2
      <4>4. CASE w = g
        <5>1. c = p \/ c = uncle
          BY <1>7, <4>4 DEF c, uncle
        <5>2. Weight(tree, w) = 1 /\ Weight(tree', w) = 0
          BY <1>5, <2>4, <4>4 DEF Weight, R
        <5>3. h[w] = bh[w] /\ h[c] = bh[c] + 1
          BY <2>1, <3>2, <4>2, <4>4, <5>1
        <5> QED BY <4>1, <4>3, <5>2, <5>3 DEF c
      <4>5. CASE w # g
        <5>1. h[c] = bh[c]
          BY <1>4, <2>1, <3>2, <4>2, <4>5
        <5>2. CASE w = p \/ w = uncle
          <6>1. Weight(tree, w) = 0 /\ Weight(tree', w) = 1
            BY <1>4, <2>1, <2>4, <5>2 DEF Weight, R
          <6>2. h[w] = bh[w] + 1
            BY <3>2, <5>2
          <6> QED BY <4>1, <4>3, <5>1, <6>1, <6>2 DEF c
        <5>3. CASE w # p /\ w # uncle
          <6>1. Weight(tree, w) = Weight(tree', w)
            BY <2>4, <4>5, <5>3 DEF Weight, R
          <6>2. h[w] = bh[w]
            BY <3>2, <4>2, <5>3
          <6> QED BY <4>1, <5>1, <6>1, <6>2 DEF c
        <5> QED BY <5>2, <5>3
      <4> QED BY <4>4, <4>5
    <3> QED BY <2>4, <3>2, <3>3 DEF Height
  <2>6. Reds(tree', sub, g, T!Null)
    <3>1. ASSUME NEW w \in N \cap R, tree.up[w] \in R \cup {T!Null}, w # g PROVE FALSE
      <4>1. w \in tree.red /\ w # p /\ w # uncle
        BY <1>4, <1>5, <2>1, <3>1 DEF R
      <4>2. tree.up[w] # g
        <5> SUFFICES ASSUME tree.up[w] = g PROVE FALSE
          OBVIOUS
        <5>1. PICK a \in T!Sides : tree.kid[a][g] = w
          BY <1>1, <1>5, UpFacts
        <5> QED BY <1>7, <4>1, <5>1 DEF uncle
      <4>3. tree.up[w] \in tree.red \cup {T!Null} /\ tree.up[w] # p
        BY <1>4, <1>5, <3>1, <4>2 DEF R
      <4>4. w = node
        BY <1>1, <4>1, <4>3 DEF Reds
      <4> QED BY <4>3, <4>4 DEF p
    <3> QED BY <2>4, <3>1 DEF Reds
  <2>7. g \in tree'.red
    BY <2>4 DEF R
  <2> QED BY <1>6, <2>2, <2>4, <2>5, <2>6, <2>7, SMTT(30) DEF Sound
<1>9. CASE ~T!IsRed(tree, uncle)
  <2>1. uncle \notin tree.red
    BY <1>3, <1>9 DEF T!IsRed
  <2>2. CASE ~inner
    <3>1. tree.kid[s][p] = node
      BY <1>4, <1>7, <2>2
    <3>2. tree' = T!Rotate(T!SetRed(T!SetBlack(tree, p), g), g, o) /\ node' = node
      BY <1>2, <1>9, <2>2
    <3> QED BY <1>4, <1>5, <1>6, <1>7, <2>1, <3>1, <3>2, OuterInsert DEF o
  <2>3. CASE inner
    <3> DEFINE l == tree.kid[s][p]
               z == tree.kid[s][node]
               r == tree.kid[o][node]
               v == TurnedSub(sub, p, node, l, z)
               u == T!Rotate(tree, p, s)
    <3>1. tree' = T!Rotate(T!SetRed(T!SetBlack(u, node), g), g, o) /\ node' = p
      BY <1>2, <1>9, <2>3
    <3>2. Rotation(tree, sub, u, tree.red, p, node, l, z, r, s, o, v)
      <4>1. Painted(tree, tree, tree.red)
        BY <1>3 DEF Painted
      <4>2. o = T!Other(s) /\ node # T!Null
        BY <1>3 DEF o
      <4> QED BY <1>1, <1>4, <1>7, <2>3, <4>1, <4>2, Rotates
    <3> HIDE DEF l, z, r, v, u
    <3>3. /\ Pivot(tree, sub, p, node, l, z, r, s, o) /\ Swung(tree, sub, u, p, node, l, z, r, s, o)
          /\ Shape(u, v) /\ v[u.root] = N /\ u.red = tree.red
      BY <3>2 DEF Rotation
    <3>4. Height(u, v, bh, T!Null, T!Null) /\ Reds(u, v, p, T!Null)
      BY <1>1, <1>4, <3>3, RedRed
    <3>5. Sound(u, v, bh, T!Null, T!Null, p, T!Null)
      BY <3>3, <3>4 DEF Sound
    <3>6. g \in v[u.root] /\ g # p /\ g # node
      BY <1>6, <3>3, Zenon DEF Pivot, g
    <3>7. u.kid[s][g] = node /\ u.kid[s][node] = p /\ u.kid[o][g] = uncle
      BY <1>7, <3>3, <3>6 DEF Swung
    <3> HIDE DEF uncle
    <3> QED BY <1>4, <1>5, <1>7, <2>1, <3>1, <3>3, <3>5, <3>6, <3>7, OuterInsert DEF o
  <2> QED BY <2>2, <2>3
<1> QED BY <1>2, <1>8, <1>9

LEMMA FarEven ==
  ASSUME NEW t, NEW sub, NEW bh, NEW x, NEW y, NEW l, NEW z, NEW r, NEW s, NEW o, NEW u, NEW R, NEW v,
         Sound(t, sub, bh, x, l, T!Null, T!Null), Rotation(t, sub, u, R, x, y, l, z, r, s, o, v),
         EvenColours(t, u, x, y, r), y \notin t.red, r \in t.red, r # T!Null
  PROVE  /\ \E h : Sound(u, v, h, T!Null, T!Null, T!Null, T!Null)
         /\ v[u.root] = sub[t.root]
<1> DEFINE h == [bh EXCEPT ![x] = bh[y], ![y] = bh[x], ![r] = bh[r] + 1]
<1> HIDE DEF h
<1>1. Shape(t, sub) /\ Height(t, sub, bh, x, l) /\ Reds(t, sub, T!Null, T!Null)
  BY DEF Sound
<1>2. /\ Pivot(t, sub, x, y, l, z, r, s, o) /\ Swung(t, sub, u, x, y, l, z, r, s, o)
      /\ Shape(u, v) /\ v[u.root] = sub[t.root]
  BY DEF Rotation
<1>3. Height(u, v, h, T!Null, T!Null)
  BY <1>1, <1>2, EvenHeight DEF h
<1>4. Reds(u, v, T!Null, T!Null)
  BY <1>1, <1>2, EvenReds
<1> QED BY <1>2, <1>3, <1>4 DEF Sound

(* __rb_erase_color: with a red nephew r on the far side the loop ends.    *)
TopColours(t, x, y) == IF x \in t.red THEN t.red \cup {y} ELSE t.red \ {y}

Nephew(t, x, y, l, r, s, o) ==
  o = T!Other(s) /\ y = t.kid[o][x] /\ l = t.kid[s][x] /\ r = t.kid[o][y]

LEMMA FarErase ==
  ASSUME NEW t, NEW sub, NEW bh, NEW x, NEW l, Sound(t, sub, bh, x, l, T!Null, T!Null),
         x \in sub[t.root], NEW s \in T!Sides, NEW o, NEW y, NEW r, Nephew(t, x, y, l, r, s, o),
         y # T!Null, y \notin t.red, r \in t.red,
         NEW t1, Painted(t, t1, TopColours(t, x, y)),
         NEW u, u = T!Rotate(T!SetBlack(T!SetBlack(t1, x), r), x, s)
  PROVE  \E v, h : /\ Sound(u, v, h, T!Null, T!Null, T!Null, T!Null)
                   /\ v[u.root] = sub[t.root]
<1> DEFINE z == t.kid[s][y]
           R1 == TopColours(t, x, y)
           R == (R1 \ {x}) \ {r}
           v == TurnedSub(sub, x, y, l, z)
           h == [bh EXCEPT ![x] = bh[y], ![y] = bh[x], ![r] = bh[r] + 1]
           t2 == T!SetBlack(t1, x)
           t3 == T!SetBlack(t2, r)
<1>1. Shape(t, sub) /\ Height(t, sub, bh, x, l) /\ Reds(t, sub, T!Null, T!Null)
  BY DEF Sound
<1>2. t \in T!Tree /\ x \in T!Keys /\ x # T!Null /\ r # T!Null /\ x # y /\ y \in T!Keys
  <2>1. t \in T!Tree /\ x \in T!Keys /\ x # T!Null /\ t.red \subseteq T!Keys
    BY <1>1, SetsOfShape, Fields DEF Sets
  <2>2. r # T!Null
    BY <2>1, KeyFacts
  <2>3. Below(t, sub, x, o)
    BY <1>1, SideFacts, BelowNode, SMTT(30) DEF Nephew
  <2>4. y \in T!Ptr /\ x # y
    BY <2>3 DEF Below, Nephew
  <2> QED BY <2>1, <2>2, <2>4, KeyFacts
<1>3. Painted(t, t1, R1)
  OBVIOUS
<1> HIDE DEF R1
<1>4. Painted(t, t2, R1 \ {x})
  <2>1. t1 \in T!Tree /\ t1.red = R1
    BY <1>3 DEF Painted
  <2>2. Painted(t1, t2, R1 \ {x})
    BY <2>1, SetBlackFacts
  <2> HIDE DEF t2
  <2> QED BY <1>3, <2>2, PaintedTwice
<1> HIDE DEF t2
<1>5. Painted(t, t3, R)
  <2>1. t2 \in T!Tree /\ t2.red = R1 \ {x}
    BY <1>4 DEF Painted
  <2>2. Painted(t2, t3, R)
    BY <2>1, SetBlackFacts
  <2> HIDE DEF t3
  <2> QED BY <1>4, <2>2, PaintedTwice
<1>6. u = T!Rotate(t3, x, s)
  BY DEF t2
<1> HIDE DEF t3, R, v, h, z
<1>7. Rotation(t, sub, u, R, x, y, l, z, r, s, o, v)
  BY <1>1, <1>2, <1>5, <1>6, Rotates DEF z, v, Nephew
<1>8. u.red = R /\ v[u.root] = sub[t.root]
  BY <1>7 DEF Rotation
<1>9. EvenColours(t, u, x, y, r)
  BY <1>2, <1>8 DEF R, R1, EvenColours, TopColours
<1> QED BY <1>2, <1>7, <1>8, <1>9, FarEven

(* A red node y below the black x is turned away, above it.                *)
LEMMA AwayErase ==
  ASSUME NEW t, NEW sub, NEW bh, NEW p, NEW c, Sound(t, sub, bh, p, c, T!Null, T!Null),
         NEW x \in sub[t.root], NEW s \in T!Sides, NEW o, o = T!Other(s),
         NEW y, y = t.kid[o][x], y \in t.red, NEW l, l = t.kid[s][x], l \notin t.red,
         p # y, c # x, c # y, p = x => c = l,
         NEW u, u = T!Rotate(T!SetRed(T!SetBlack(t, y), x), x, s)
  PROVE  LET z == t.kid[s][y] IN
         \E v, h : /\ Sound(u, v, h, p, c, T!Null, T!Null)
                   /\ v[u.root] = sub[t.root] /\ x \in u.red /\ y \notin u.red
                   /\ Pivot(t, sub, x, y, l, z, t.kid[o][y], s, o)
                   /\ Swung(t, sub, u, x, y, l, z, t.kid[o][y], s, o)
                   /\ z \notin t.red /\ z \notin u.red /\ u.red = (t.red \ {y}) \cup {x}
<1> DEFINE z == t.kid[s][y]
           r == t.kid[o][y]
           R == (t.red \ {y}) \cup {x}
           v == TurnedSub(sub, x, y, l, z)
           h == [bh EXCEPT ![x] = bh[y], ![y] = bh[x]]
<1>1. Shape(t, sub) /\ Height(t, sub, bh, p, c) /\ Reds(t, sub, T!Null, T!Null)
  BY DEF Sound
<1>2. t \in T!Tree /\ x \in T!Keys /\ y # T!Null /\ t.red \subseteq T!Keys /\ T!Null \notin sub[t.root]
      /\ T!Null \notin T!Keys
  BY <1>1, SetsOfShape, Fields, KeyFacts DEF Sets
<1>3. Painted(t, T!SetRed(T!SetBlack(t, y), x), R)
  <2>1. Painted(t, T!SetBlack(t, y), t.red \ {y})
    BY <1>2, SetBlackFacts
  <2>2. T!SetBlack(t, y) \in T!Tree /\ T!SetBlack(t, y).red = t.red \ {y}
    BY <2>1 DEF Painted
  <2>3. Painted(T!SetBlack(t, y), T!SetRed(T!SetBlack(t, y), x), R)
    BY <1>2, <2>2, SetRedFacts
  <2> QED BY <2>1, <2>3, PaintedTwice
<1> HIDE DEF R, v, h, z, r
<1>4. Rotation(t, sub, u, R, x, y, l, z, r, s, o, v)
  BY <1>1, <1>2, <1>3, Rotates DEF z, r, v
<1>5. /\ Pivot(t, sub, x, y, l, z, r, s, o) /\ Swung(t, sub, u, x, y, l, z, r, s, o)
      /\ Shape(u, v) /\ v[u.root] = sub[t.root] /\ u.red = (t.red \ {y}) \cup {x}
  BY <1>4 DEF Rotation, R
<1>6. /\ y \in sub[t.root] /\ t.up[y] = x /\ x # y /\ z # x
      /\ (z # T!Null => z \in sub[t.root] /\ t.up[z] = y)
  BY <1>5, Zenon DEF Pivot
<1>7. x \notin t.red
  BY <1>1, <1>2, <1>6 DEF Reds
<1>8. z \notin t.red
  BY <1>1, <1>2, <1>6, SMTT(30) DEF Reds
<1>9. Height(u, v, h, p, c)
  BY <1>1, <1>5, <1>7, SwapHeight DEF h
<1>10. Reds(u, v, T!Null, T!Null)
  BY <1>1, <1>5, <1>7, SwapReds
<1>11. z \notin u.red /\ x \in u.red /\ y \notin u.red
  BY <1>5, <1>6, <1>8
<1>12. Sound(u, v, h, p, c, T!Null, T!Null)
  BY <1>5, <1>9, <1>10 DEF Sound
<1> QED BY <1>5, <1>8, <1>11, <1>12, Zenon DEF z, r

(* With two black nephews the sibling y becomes red, and x is looked at.   *)
LEMMA RedSibling ==
  ASSUME NEW t, NEW sub, NEW bh, NEW x, NEW l, Sound(t, sub, bh, x, l, T!Null, T!Null),
         x \in sub[t.root], NEW s \in T!Sides, NEW o, NEW y, NEW r, Nephew(t, x, y, l, r, s, o),
         y # T!Null, y \notin t.red, r \notin t.red, t.kid[s][y] \notin t.red,
         NEW u, Painted(t, u, t.red \cup {y})
  PROVE  /\ \E h : Sound(u, sub, h, t.up[x], x, x, x)
         /\ x # t.root => /\ t.up[x] \in sub[t.root]
                          /\ \E a \in T!Sides : /\ t.kid[a][t.up[x]] = x
                                                /\ t.kid[T!Other(a)][t.up[x]] # T!Null
<1> DEFINE N == sub[t.root]
           z == t.kid[s][y]
           q == t.up[x]
           h == [bh EXCEPT ![x] = bh[x] - 1, ![y] = bh[y] - 1]
<1>1. Shape(t, sub) /\ Height(t, sub, bh, x, l) /\ Reds(t, sub, T!Null, T!Null)
  BY DEF Sound
<1>2. o = T!Other(s) /\ y = t.kid[o][x] /\ l = t.kid[s][x] /\ r = t.kid[o][y]
  BY DEF Nephew
<1>3. Pivot(t, sub, x, y, l, z, r, s, o)
  BY <1>1, <1>2, Pivots
<1> HIDE DEF z
<1>4. /\ x \in N /\ y \in N /\ x # y /\ s \in T!Sides /\ o \in T!Sides
      /\ (\A a \in T!Sides : a = s \/ a = o)
      /\ x \in T!Keys /\ y \in T!Keys /\ l \in T!Ptr /\ z \in T!Ptr /\ r \in T!Ptr
      /\ l \notin {x, y} /\ z \notin {x, y} /\ r \notin {x, y}
      /\ (z # T!Null => t.up[z] = y) /\ (r # T!Null => t.up[r] = y) /\ t.up[y] = x
      /\ q \notin {x, y} /\ (x = t.root <=> q = T!Null) /\ T!Null \notin N /\ N \subseteq T!Keys
      /\ l = t.kid[s][x] /\ y = t.kid[o][x] /\ z = t.kid[s][y] /\ r = t.kid[o][y]
  BY <1>1, <1>3, SetsOfShape, ZenonT(40) DEF Pivot, Sets, q
<1>5. bh \in [T!Ptr -> Nat] /\ bh[T!Null] = 0 /\ x \in T!Ptr /\ y \in T!Ptr /\ T!Null \in T!Ptr
  BY <1>1, <1>4, KeyFacts DEF Height
<1>6. /\ bh[x] = bh[l] + 1 + Weight(t, x) /\ bh[x] = bh[y] + Weight(t, x) /\ Weight(t, x) \in Nat
      /\ bh[y] = bh[z] + 1 /\ bh[y] = bh[r] + 1
      /\ bh[x] \in Nat /\ bh[y] \in Nat /\ bh[l] \in Nat /\ bh[z] \in Nat /\ bh[r] \in Nat
  <2>1. \A w \in N, a \in T!Sides : bh[w] = bh[t.kid[a][w]] + Lack(t, w, a, x, l) + Weight(t, w)
    BY <1>1, SMTT(30) DEF Height
  <2>2. /\ bh[x] = bh[l] + Lack(t, x, s, x, l) + Weight(t, x)
        /\ bh[x] = bh[y] + Lack(t, x, o, x, l) + Weight(t, x)
        /\ bh[y] = bh[z] + Lack(t, y, s, x, l) + Weight(t, y)
        /\ bh[y] = bh[r] + Lack(t, y, o, x, l) + Weight(t, y)
    BY <1>4, <2>1
  <2>3. Weight(t, y) = 1 /\ Weight(t, x) \in Nat
    BY SMTT(30) DEF Weight
  <2>4. /\ Lack(t, x, s, x, l) = 1 /\ Lack(t, x, o, x, l) = 0
        /\ Lack(t, y, s, x, l) = 0 /\ Lack(t, y, o, x, l) = 0
    BY <1>4, SMTT(30) DEF Lack
  <2>5. bh[x] \in Nat /\ bh[y] \in Nat /\ bh[l] \in Nat /\ bh[z] \in Nat /\ bh[r] \in Nat
    BY <1>4, <1>5
  <2> QED BY <2>2, <2>3, <2>4, <2>5
<1>7. /\ h \in [T!Ptr -> Nat] /\ h[T!Null] = 0 /\ h[x] = bh[x] - 1 /\ h[y] = bh[y] - 1
      /\ \A k \in T!Ptr : k # x /\ k # y => h[k] = bh[k]
  <2>1. bh[x] - 1 \in Nat /\ bh[y] - 1 \in Nat
    BY <1>6, SMTT(30)
  <2>2. x # T!Null /\ y # T!Null /\ x # y
    BY <1>4
  <2> QED BY <1>5, <2>1, <2>2
<1> HIDE DEF h, q
<1>8. Shape(u, sub) /\ u.root = t.root /\ u.kid = t.kid /\ u.up = t.up /\ u.red = t.red \cup {y}
  BY <1>1, PaintedShape DEF Painted
<1>9. ASSUME NEW w \in N, NEW a \in T!Sides
      PROVE  h[w] = h[t.kid[a][w]] + Lack(u, w, a, q, x) + Weight(u, w)
  <2> DEFINE c == t.kid[a][w]
  <2>1. bh[w] = bh[c] + Lack(t, w, a, x, l) + Weight(t, w)
    BY <1>1 DEF Height
  <2>2. w \in T!Ptr /\ w # T!Null /\ c \in T!Ptr /\ (c # T!Null => t.up[c] = w) /\ c # w
    <3>1. w \in T!Ptr /\ w # T!Null
      BY <1>4, KeyFacts
    <3>2. c \in T!Ptr /\ (c # T!Null => t.up[c] = w) /\ c # w
      <4>1. Below(t, sub, w, a) /\ w \in sub[w]
        BY <1>1, BelowNode, SetsOfShape DEF Sets
      <4> QED BY <3>1, <4>1 DEF Below
    <3> QED BY <3>1, <3>2, SMTT(30)
  <2>3. Lack(u, w, a, q, x) = IF w = q /\ c = x THEN 1 ELSE 0
    BY <1>8 DEF Lack
  <2>4. CASE w = x
    <3>1. Lack(u, w, a, q, x) = 0 /\ Weight(u, w) = Weight(t, x)
      BY <1>4, <1>8, <2>3, <2>4, SMTT(30) DEF Weight
    <3>2. c = l \/ c = y
      BY <1>4, <2>4, SMTT(30)
    <3>3. c = l => h[c] = bh[l]
      BY <1>4, <1>7
    <3> HIDE DEF c
    <3> QED BY <1>6, <1>7, <2>4, <3>1, <3>2, <3>3, SMTT(30) DEF c
  <2>5. CASE w = y
    <3>1. Lack(u, w, a, q, x) = 0 /\ Weight(u, w) = 0
      BY <1>4, <1>8, <2>3, <2>5, SMTT(30) DEF Weight
    <3>2. c = z \/ c = r
      BY <1>4, <2>5, SMTT(30)
    <3>3. h[c] = bh[c]
      BY <1>4, <1>7, <3>2
    <3> HIDE DEF c
    <3> QED BY <1>6, <1>7, <2>5, <3>1, <3>2, <3>3, SMTT(30) DEF c
  <2>6. CASE w # x /\ w # y
    <3>1. h[w] = bh[w] /\ Weight(u, w) = Weight(t, w) /\ Lack(t, w, a, x, l) = 0
      BY <1>7, <1>8, <2>2, <2>6 DEF Weight, Lack
    <3>2. bh[w] \in Nat /\ bh[c] \in Nat /\ Weight(t, w) \in Nat
      BY <1>5, <2>2, SMTT(30) DEF Weight
    <3>3. c # y
      BY <1>4, <2>2, <2>6
    <3>4. CASE c = x
      <4>1. Lack(u, w, a, q, x) = 1 /\ h[c] = bh[c] - 1
        BY <1>4, <1>7, <2>2, <2>3, <3>4 DEF q
      <4> HIDE DEF c
      <4> QED BY <2>1, <3>1, <3>2, <4>1, SMTT(30) DEF c
    <3>5. CASE c # x
      <4>1. Lack(u, w, a, q, x) = 0 /\ h[c] = bh[c]
        BY <1>7, <2>2, <2>3, <3>3, <3>5
      <4> HIDE DEF c
      <4> QED BY <2>1, <3>1, <3>2, <4>1 DEF c
    <3> QED BY <3>4, <3>5
  <2> QED BY <2>4, <2>5, <2>6
<1>10. Height(u, sub, h, q, x)
  BY <1>7, <1>8, <1>9, SMTT(30) DEF Height
<1>11. Reds(u, sub, x, x)
  <2>1. ASSUME NEW w \in N \cap u.red, t.up[w] \in u.red \cup {T!Null}, w # x, t.up[w] # x PROVE FALSE
    <3>1. w # y /\ w \in t.red
      BY <1>4, <1>8, <2>1
    <3>2. t.up[w] # y
      <4> SUFFICES ASSUME t.up[w] = y PROVE FALSE
        BY SMTT(30)
      <4>1. PICK a \in T!Sides : t.kid[a][y] = w
        BY <1>1, <1>4, UpFacts, SMTT(30)
      <4>2. w = z \/ w = r
        BY <1>4, <4>1
      <4> QED BY <3>1, <4>2 DEF z
    <3>3. t.up[w] \in t.red \cup {T!Null}
      BY <1>8, <2>1, <3>2
    <3> QED BY <1>1, <1>4, <3>1, <3>3, SMTT(30) DEF Reds
  <2> QED BY <1>4, <1>8, <2>1, SMTT(30) DEF Reds
<1>12. ASSUME x # t.root
       PROVE  /\ q \in N
              /\ \E a \in T!Sides : t.kid[a][q] = x /\ t.kid[T!Other(a)][q] # T!Null
  <2>1. q \in N /\ \E a \in T!Sides : t.kid[a][q] = x
    <3>1. t.up[x] \in N /\ \E a \in T!Sides : t.kid[a][t.up[x]] = x
      BY <1>1, <1>12, UpFacts
    <3> QED BY <3>1 DEF q
  <2>2. PICK a \in T!Sides : t.kid[a][q] = x
    BY <2>1
  <2> DEFINE w == t.kid[T!Other(a)][q]
  <2>3. T!Other(a) \in T!Sides
    BY SideFacts
  <2>4. /\ bh[q] = bh[x] + Lack(t, q, a, x, l) + Weight(t, q)
        /\ bh[q] = bh[w] + Lack(t, q, T!Other(a), x, l) + Weight(t, q)
    BY <1>1, <2>1, <2>2, <2>3, SMTT(30) DEF Height
  <2>5. Lack(t, q, a, x, l) = 0 /\ Lack(t, q, T!Other(a), x, l) = 0 /\ Weight(t, q) \in Nat
    BY <1>4 DEF Lack, Weight
  <2>6. w \in T!Ptr
    BY <1>1, <2>1, <2>3, BelowNode DEF Below
  <2> HIDE DEF w
  <2>7. bh[w] = bh[x]
    BY <1>5, <1>6, <2>4, <2>5, <2>6
  <2>8. bh[x] # 0
    BY <1>6
  <2>9. w # T!Null
    BY <1>5, <2>7, <2>8
  <2> QED BY <2>1, <2>2, <2>9 DEF w
<1> QED BY <1>8, <1>10, <1>11, <1>12 DEF Sound, q

(* A pass of __rb_erase_color: a sibling that is black (Ready), the last   *)
(* rotation (Even), and the whole.                                         *)
Sibling(t, sub, c, p) ==
  /\ p \in sub[t.root]
  /\ \E s \in T!Sides : t.kid[s][p] = c /\ t.kid[T!Other(s)][p] # T!Null

Ready(t, sub, bh, x, l, s, o) ==
  /\ Sound(t, sub, bh, x, l, T!Null, T!Null)
  /\ x \in sub[t.root] /\ s \in T!Sides /\ o = T!Other(s) /\ t.kid[s][x] = l
  /\ t.kid[o][x] # T!Null /\ t.kid[o][x] \notin t.red

Even(t, x, s, o) ==
  LET top == t.kid[o][x]
      t1  == IF T!IsRed(t, x) THEN T!SetRed(t, top) ELSE T!SetBlack(t, top)
  IN  T!Rotate(T!SetBlack(T!SetBlack(t1, x), t.kid[o][top]), x, s)

LEMMA EvenErase ==
  ASSUME NEW t, NEW sub, NEW bh, NEW x, NEW l, NEW s, NEW o, Ready(t, sub, bh, x, l, s, o),
         t.kid[o][t.kid[o][x]] \in t.red
  PROVE  \E v, h : /\ Sound(Even(t, x, s, o), v, h, T!Null, T!Null, T!Null, T!Null)
                   /\ v[Even(t, x, s, o).root] = sub[t.root]
<1> DEFINE y == t.kid[o][x]
           r == t.kid[o][y]
           t1 == IF T!IsRed(t, x) THEN T!SetRed(t, y) ELSE T!SetBlack(t, y)
<1>1. /\ Sound(t, sub, bh, x, l, T!Null, T!Null) /\ x \in sub[t.root] /\ s \in T!Sides
      /\ Nephew(t, x, y, l, r, s, o) /\ y # T!Null /\ y \notin t.red
  BY DEF Ready, Nephew
<1>2. t \in T!Tree /\ T!Null \notin sub[t.root] /\ y \in T!Keys
  <2>1. Shape(t, sub) /\ o \in T!Sides
    BY <1>1, SideFacts DEF Sound, Nephew
  <2>2. t \in T!Tree /\ T!Null \notin sub[t.root]
    BY <2>1, SetsOfShape DEF Sets
  <2>3. y \in T!Ptr
    BY <1>1, <2>1, BelowNode DEF Below
  <2> QED BY <1>1, <2>2, <2>3, KeyFacts
<1>3. T!IsRed(t, x) <=> x \in t.red
  BY <1>1, <1>2 DEF T!IsRed
<1>4. Even(t, x, s, o) = T!Rotate(T!SetBlack(T!SetBlack(t1, x), r), x, s)
  BY DEF Even
<1> HIDE DEF y, r
<1>5. Painted(t, t1, TopColours(t, x, y))
  <2>1. CASE x \in t.red
    <3>1. t1 = T!SetRed(t, y) /\ TopColours(t, x, y) = t.red \cup {y}
      BY <1>3, <2>1 DEF TopColours
    <3> QED BY <1>2, <3>1, SetRedFacts
  <2>2. CASE x \notin t.red
    <3>1. t1 = T!SetBlack(t, y) /\ TopColours(t, x, y) = t.red \ {y}
      BY <1>3, <2>2 DEF TopColours
    <3> QED BY <1>2, <3>1, SetBlackFacts
  <2> QED BY <2>1, <2>2
<1>6. r \in t.red
  BY SMTT(30) DEF r, y
<1> HIDE DEF t1
<1> QED BY <1>1, <1>4, <1>5, <1>6, FarErase

LEMMA SiblingBlack ==
  ASSUME NEW t, NEW sub, NEW bh, NEW x, NEW l, Sound(t, sub, bh, x, l, T!Null, T!Null),
         NEW s \in T!Sides, NEW o, o = T!Other(s), x \in sub[t.root], t.kid[s][x] = l,
         t.kid[o][x] # T!Null, l \notin t.red, NEW y, y = t.kid[o][x], y \in t.red,
         NEW u, u = T!Rotate(T!SetRed(T!SetBlack(t, y), x), x, s)
  PROVE  \E v, h : Ready(u, v, h, x, l, s, o) /\ v[u.root] = sub[t.root]
<1> DEFINE z == t.kid[s][y]
           r == t.kid[o][y]
           N == sub[t.root]
<1>1. Shape(t, sub) /\ Height(t, sub, bh, x, l) /\ Reds(t, sub, T!Null, T!Null)
  BY DEF Sound
<1>2. Pivot(t, sub, x, y, l, z, r, s, o)
  BY <1>1, Pivots
<1>3. x # y /\ l # x /\ y \in N /\ z \in T!Ptr /\ l \in T!Ptr /\ y \in T!Keys /\ (z # l \/ z = T!Null)
  BY <1>2, Zenon DEF Pivot
<1>4. l # y
  <2>1. Below(t, sub, x, s) /\ y \in sub[y] /\ y = t.kid[T!Other(s)][x]
    BY <1>1, <1>2, BelowNode, Zenon DEF Pivot
  <2> QED BY <2>1 DEF Below
<1>5. PICK v, h : /\ Sound(u, v, h, x, l, T!Null, T!Null)
                  /\ v[u.root] = sub[t.root] /\ x \in u.red /\ y \notin u.red
                  /\ Pivot(t, sub, x, y, l, z, r, s, o)
                  /\ Swung(t, sub, u, x, y, l, z, r, s, o)
                  /\ z \notin t.red /\ z \notin u.red
  <2>1. x # y /\ l # x
    BY <1>2, Zenon DEF Pivot
  <2> QED BY <1>4, <2>1, AwayErase, SMTT(30)
<1>6. bh[x] = bh[l] + 1 + 1 /\ bh[x] = bh[y] + 1 /\ bh[y] = bh[z]
  <2>1. /\ s \in T!Sides /\ o \in T!Sides /\ o # s /\ x \in N /\ y \in N /\ x # y
        /\ t.up[y] = x /\ x # T!Null
        /\ l = t.kid[s][x] /\ y = t.kid[o][x] /\ z = t.kid[s][y]
    BY <1>1, <1>2, SetsOfShape, Zenon DEF Pivot, Sets
  <2>2. \A w \in N, a \in T!Sides : bh[w] = bh[t.kid[a][w]] + Lack(t, w, a, x, l) + Weight(t, w)
    BY <1>1 DEF Height
  <2>3. /\ bh[x] = bh[l] + Lack(t, x, s, x, l) + Weight(t, x)
        /\ bh[x] = bh[y] + Lack(t, x, o, x, l) + Weight(t, x)
        /\ bh[y] = bh[z] + Lack(t, y, s, x, l) + Weight(t, y)
    BY <2>1, <2>2
  <2>4. Lack(t, x, s, x, l) = 1 /\ Lack(t, x, o, x, l) = 0 /\ Lack(t, y, s, x, l) = 0
    BY <1>4, <2>1 DEF Lack
  <2>5. x \notin t.red
    BY <1>1, <2>1 DEF Reds
  <2>6. Weight(t, x) = 1 /\ Weight(t, y) = 0
    BY <2>5 DEF Weight
  <2>7. bh[y] \in Nat /\ bh[z] \in Nat /\ bh[l] \in Nat
    <3>1. y \in T!Ptr /\ z \in T!Ptr /\ l \in T!Ptr
      BY <1>2, KeyFacts, Zenon DEF Pivot
    <3> QED BY <1>1, <3>1 DEF Height
  <2> QED BY <2>3, <2>4, <2>6, <2>7
<1>7. z # T!Null
  <2>1. bh[T!Null] = 0 /\ bh[l] \in Nat /\ bh[y] \in Nat
    <3>1. y \in T!Ptr /\ l \in T!Ptr
      BY <1>2, KeyFacts, Zenon DEF Pivot
    <3> QED BY <1>1, <3>1 DEF Height
  <2>2. bh[z] # 0
    BY <1>6, <2>1
  <2> QED BY <2>1, <2>2
<1>8. u.kid[s][x] = l /\ u.kid[o][x] = z
  BY <1>5, Zenon DEF Swung
<1>9. Ready(u, v, h, x, l, s, o)
  BY <1>5, <1>7, <1>8, Zenon DEF Ready
<1> QED BY <1>5, <1>9

(* With a black node, or none, at the place of the missing one there is no *)
(* red below red.                                                          *)
LEMMA BlackCalm ==
  ASSUME NEW t, NEW sub, NEW n, Reds(t, sub, n, n), n \notin t.red
  PROVE  Reds(t, sub, T!Null, T!Null)
BY DEF Reds

(* At the root no black node is missing.                                   *)
LEMMA RootSound ==
  ASSUME NEW t, NEW sub, NEW bh, Sound(t, sub, bh, T!Null, T!Null, T!Null, T!Null), NEW p
  PROVE  Sound(t, sub, bh, p, t.root, t.root, t.root)
<1>1. Shape(t, sub) /\ Height(t, sub, bh, T!Null, T!Null) /\ Reds(t, sub, T!Null, T!Null)
  BY DEF Sound
<1>2. ASSUME NEW x \in sub[t.root], NEW s \in T!Sides
      PROVE  Lack(t, x, s, T!Null, T!Null) = 0 /\ Lack(t, x, s, p, t.root) = 0
  <2>1. t.root \in sub[t.root]
    BY <1>1, UpFacts
  <2>2. t.kid[s][x] # t.root
    BY <1>1, <2>1, UpFacts
  <2>3. x # T!Null
    BY <1>1, SetsOfShape DEF Sets
  <2> QED BY <2>2, <2>3 DEF Lack
<1>3. Height(t, sub, bh, p, t.root)
  BY <1>1, <1>2 DEF Height
<1> QED BY <1>1, <1>3, CalmReds DEF Sound

LEMMA EraseColorPass ==
  ASSUME NEW sub, NEW bh, Sound(tree, sub, bh, parent, node, node, node),
         Sibling(tree, sub, node, parent), T!EraseColor
  PROVE  \E v, h : /\ Sound(tree', v, h, parent', node', node', node')
                   /\ v[tree'.root] = sub[tree.root] /\ node' \in sub[tree.root]
                   /\ node' # tree'.root => Sibling(tree', v, node', parent')
                   /\ parent' \in T!Ptr
<1> DEFINE N == sub[tree.root]
           x == parent
           s == IF tree.kid["left"][parent] = node THEN "left" ELSE "right"
           o == T!Other(s)
           first == tree.kid[o][x]
           Away == IF T!IsRed(tree, first)
                   THEN T!Rotate(T!SetRed(T!SetBlack(tree, first), x), x, s) ELSE tree
<1>1. Shape(tree, sub) /\ Reds(tree, sub, node, node)
  BY DEF Sound
<1>2. /\ tree \in T!Tree /\ T!Null \notin N /\ tree.red \subseteq T!Keys /\ T!Null \notin T!Keys
      /\ \A w \in N : w \in sub[w]
  BY <1>1, SetsOfShape, Fields, KeyFacts DEF Sets
<1>3. node \notin tree.red
  BY <1>2, Zenon DEF T!EraseColor, T!IsRed
<1>4. Sound(tree, sub, bh, x, node, T!Null, T!Null)
  BY <1>1, <1>3, BlackCalm DEF Sound
<1>5. /\ x \in N /\ s \in T!Sides /\ o \in T!Sides /\ T!Other(o) = s
      /\ tree.kid[s][x] = node /\ first # T!Null
  <2>1. x \in N
    BY DEF Sibling
  <2>2. PICK a \in T!Sides : tree.kid[a][x] = node /\ tree.kid[T!Other(a)][x] # T!Null
    BY DEF Sibling
  <2>3. tree.kid[T!Other(a)][x] # node
    <3>1. Below(tree, sub, x, a)
      BY <1>1, <2>1, BelowNode
    <3>2. node # T!Null => node \in sub[node]
      BY <2>2, <3>1 DEF Below
    <3> QED BY <2>2, <3>1, <3>2 DEF Below
  <2>4. a = s
    BY <2>2, <2>3, KeyFacts
  <2> QED BY <2>1, <2>2, <2>4, SideFacts
<1>6. \E t \in {Away} :
        LET other == t.kid[o][x]
            near  == t.kid[s][other]
            far   == t.kid[o][other]
        IN  \/ /\ ~T!IsRed(t, near) /\ ~T!IsRed(t, far)
               /\ tree' = T!SetRed(t, other)
               /\ node' = x /\ parent' = t.up[x]
            \/ /\ T!IsRed(t, far)
               /\ tree' = Even(t, x, s, o)
               /\ node' = tree'.root
            \/ /\ T!IsRed(t, near) /\ ~T!IsRed(t, far)
               /\ \E t1 \in {T!Rotate(T!SetRed(T!SetBlack(t, near), other), other, o)} :
                     tree' = Even(t1, x, s, o)
               /\ node' = tree'.root
  BY Zenon DEF T!EraseColor, Even
<1>7. parent' = x \/ parent' = Away.up[x]
  BY Zenon DEF T!EraseColor
<1> HIDE DEF s, o
<1>8. \E v, h : Ready(Away, v, h, x, node, s, o) /\ v[Away.root] = N
  <2>1. CASE T!IsRed(tree, first)
    <3>1. first \in tree.red /\ o = T!Other(s)
      BY <2>1 DEF T!IsRed, o
    <3>2. Away = T!Rotate(T!SetRed(T!SetBlack(tree, first), x), x, s)
      BY <2>1
    <3> HIDE DEF Away
    <3> QED BY <1>3, <1>4, <1>5, <3>1, <3>2, SiblingBlack
  <2>2. CASE ~T!IsRed(tree, first)
    <3>1. first \notin tree.red /\ Away = tree
      BY <1>2, <2>2 DEF T!IsRed
    <3>2. Ready(tree, sub, bh, x, node, s, o)
      BY <1>4, <1>5, <3>1 DEF Ready, o
    <3> HIDE DEF Away
    <3> QED BY <3>1, <3>2
  <2> QED BY <2>1, <2>2
<1> HIDE DEF Away
<1> DEFINE t == Away
           y == t.kid[o][x]
           near == t.kid[s][y]
           far == t.kid[o][y]
<1>9. PICK v1, h1 : Ready(t, v1, h1, x, node, s, o) /\ v1[t.root] = N
  BY <1>8
<1>10. Sound(t, v1, h1, x, node, T!Null, T!Null) /\ t.kid[s][x] = node /\ y # T!Null /\ y \notin t.red
  BY <1>9 DEF Ready
<1>11. Shape(t, v1) /\ t \in T!Tree /\ t.red \subseteq T!Keys
  BY <1>10, Fields DEF Sound, Shape
<1>12. parent' \in T!Ptr
  <2>1. x \in T!Keys
    BY <1>1, <1>5, SetsOfShape DEF Sets
  <2>2. t.up[x] \in T!Ptr /\ x \in T!Ptr
    BY <1>11, <2>1, Fields, KeyFacts
  <2> QED BY <1>7, <2>2
<1>13. y \in N /\ y # x /\ y # node /\ x \notin v1[y] /\ y \in v1[y]
  <2>1. Below(t, v1, x, o) /\ x \in v1[x]
    BY <1>5, <1>9, <1>11, BelowNode, SetsOfShape DEF Sets
  <2>2. y \in N /\ y \in v1[y] /\ y # x /\ x \notin v1[y]
    BY <1>9, <1>10, <2>1 DEF Below
  <2>3. y # node
    BY <1>5, <1>10, <2>1, <2>2 DEF Below
  <2> QED BY <2>2, <2>3
<1>14. CASE /\ ~T!IsRed(t, near) /\ ~T!IsRed(t, far)
            /\ tree' = T!SetRed(t, y) /\ node' = x /\ parent' = t.up[x]
  <2>1. near \notin t.red /\ far \notin t.red
    BY <1>2, <1>11, <1>14 DEF T!IsRed
  <2>2. Nephew(t, x, y, node, far, s, o)
    BY <1>10 DEF Nephew, o
  <2>3. Painted(t, tree', t.red \cup {y})
    <3>1. y \in T!Keys
      BY <1>1, <1>13, SetsOfShape DEF Sets
    <3> QED BY <1>11, <1>14, <3>1, SetRedFacts
  <2> HIDE DEF far, y, t
  <2>4. /\ \E h : Sound(tree', v1, h, t.up[x], x, x, x)
        /\ x # t.root => /\ t.up[x] \in v1[t.root]
                         /\ \E a \in T!Sides : /\ t.kid[a][t.up[x]] = x
                                               /\ t.kid[T!Other(a)][t.up[x]] # T!Null
    BY <1>5, <1>9, <1>10, <2>1, <2>2, <2>3, RedSibling DEF near
  <2>5. tree'.root = t.root /\ tree'.kid = t.kid
    BY <2>3 DEF Painted
  <2>6. x # t.root => Sibling(tree', v1, x, t.up[x])
    BY <2>4, <2>5 DEF Sibling
  <2> QED BY <1>5, <1>9, <1>14, <1>12, <2>4, <2>5, <2>6
<1>15. CASE T!IsRed(t, far) /\ tree' = Even(t, x, s, o) /\ node' = tree'.root
  <2>1. far \in t.red
    BY <1>15 DEF T!IsRed
  <2>2. PICK v, h : Sound(tree', v, h, T!Null, T!Null, T!Null, T!Null) /\ v[tree'.root] = N
    BY <1>9, <1>15, <2>1, EvenErase
  <2>3. Sound(tree', v, h, parent', node', node', node')
    BY <1>15, <2>2, RootSound
  <2>4. node' \in N
    <3>1. x \in v[tree'.root] /\ Shape(tree', v)
      BY <1>5, <2>2 DEF Sound
    <3> QED BY <1>15, <2>2, <3>1, UpFacts
  <2> QED BY <1>15, <1>12, <2>2, <2>3, <2>4
<1>16. CASE /\ T!IsRed(t, near) /\ ~T!IsRed(t, far)
            /\ \E t1 \in {T!Rotate(T!SetRed(T!SetBlack(t, near), y), y, o)} :
                  tree' = Even(t1, x, s, o)
            /\ node' = tree'.root
  <2> DEFINE t1 == T!Rotate(T!SetRed(T!SetBlack(t, near), y), y, o)
  <2>1. tree' = Even(t1, x, s, o) /\ node' = tree'.root
    BY <1>16, SMTT(30)
  <2>2. near \in t.red /\ near # T!Null /\ far \notin t.red
    BY <1>2, <1>11, <1>16 DEF T!IsRed
  <2>3. x # near /\ node # near
    <3>1. Below(t, v1, y, s) /\ Below(t, v1, x, o) /\ Below(t, v1, x, s)
      BY <1>5, <1>9, <1>11, <1>13, BelowNode
    <3>2. near \in v1[near] /\ near \in v1[y]
      BY <2>2, <3>1, Zenon DEF Below
    <3>3. y = t.kid[T!Other(s)][x]
      BY DEF o
    <3>4. node \notin v1[y] \/ node = T!Null
      BY <1>10, <3>1, <3>3, Zenon DEF Below
    <3> QED BY <1>13, <2>2, <3>2, <3>4
  <2> HIDE DEF t1, near, far, y, t
  <2>4. PICK v2, h2 : /\ Sound(t1, v2, h2, x, node, T!Null, T!Null)
                      /\ v2[t1.root] = v1[t.root] /\ y \in t1.red /\ near \notin t1.red
                      /\ Swung(t, v1, t1, y, near, far, t.kid[o][near], t.kid[s][near], o, s)
    <3>1. y \in v1[t.root]
      BY <1>9, <1>13
    <3>2. /\ x # near /\ node # y /\ node # near /\ x # y
      BY <1>13, <2>3
    <3>3. near = t.kid[s][y] /\ far = t.kid[o][y] /\ s = T!Other(o)
      BY <1>5 DEF near, far
    <3>4. t1 = T!Rotate(T!SetRed(T!SetBlack(t, near), y), y, o)
      BY DEF t1
    <3> QED BY <1>5, <1>10, <2>2, <3>1, <3>2, <3>3, <3>4, AwayErase
  <2>5. t1.kid[o][near] = y
    BY <2>4 DEF Swung
  <2>6. x \in v1[t.root] \ {y, near}
    BY <1>5, <1>9, <1>13, <2>3
  <2>7. t1.kid[o][x] = near /\ t1.kid[s][x] = node
    <3>1. t.kid[o][x] = y
      BY DEF y
    <3> QED BY <1>5, <1>10, <1>13, <2>4, <2>6, <3>1 DEF Swung
  <2>8. Ready(t1, v2, h2, x, node, s, o)
    BY <1>5, <2>2, <2>4, <2>6, <2>7 DEF Ready, o
  <2>9. PICK v, h : Sound(tree', v, h, T!Null, T!Null, T!Null, T!Null) /\ v[tree'.root] = N
    BY <1>9, <2>1, <2>4, <2>5, <2>7, <2>8, EvenErase
  <2>10. Sound(tree', v, h, parent', node', node', node')
    BY <2>1, <2>9, RootSound
  <2>11. node' \in N
    <3>1. x \in v[tree'.root] /\ Shape(tree', v)
      BY <1>5, <2>9 DEF Sound
    <3> QED BY <2>1, <2>9, <3>1, UpFacts
  <2> QED BY <1>12, <2>1, <2>9, <2>10, <2>11, SMTT(30)
<1> QED BY <1>6, <1>14, <1>15, <1>16

(* What the recursive functions of the model are: a first value, and each  *)
(* next one from the one before.                                           *)
Iterated(f, n, X, a, F) ==
  /\ f = [d \in 0 .. n |-> IF d = 0 THEN a ELSE F[f[d - 1]]]
  /\ \A d \in 0 .. n : f[d] \in X

LEMMA Iterates ==
  ASSUME NEW n \in Nat, NEW X, NEW a \in X, NEW F \in [X -> X]
  PROVE  \E f : Iterated(f, n, X, a, F)
<1> DEFINE Good(f, m) == /\ f[0] = a /\ \A d \in 0 .. m : f[d] \in X
                         /\ \A d \in 1 .. m : f[d] = F[f[d - 1]]
           Bad == {m \in Nat : ~ \E f : Good(f, m)}
<1>1. Bad = {}
  <2> SUFFICES ASSUME Bad # {} PROVE FALSE
    OBVIOUS
  <2>1. PICK m \in Bad : \A k \in Bad : m <= k
    <3>1. Bad \subseteq Nat
      OBVIOUS
    <3> HIDE DEF Bad
    <3> QED BY <3>1, Smallest
  <2>2. m # 0
    <3>1. Good([d \in 0 .. 0 |-> a], 0)
      OBVIOUS
    <3> QED BY <3>1
  <2>3. m - 1 \in Nat /\ m - 1 \notin Bad
    BY <2>1, <2>2
  <2>4. PICK f : Good(f, m - 1)
    BY <2>3
  <2> DEFINE g == [d \in 0 .. m |-> IF d = m THEN F[f[m - 1]] ELSE f[d]]
  <2>5. F[f[m - 1]] \in X
    BY <2>3, <2>4
  <2>6. Good(g, m)
    <3>1. /\ g[0] = f[0] /\ g[m] = F[f[m - 1]]
          /\ \A d \in 0 .. m - 1 : g[d] = f[d] /\ d \in 0 .. m
      BY <2>2, <2>3
    <3> HIDE DEF g
    <3>2. \A d \in 0 .. m : d = m \/ d \in 0 .. m - 1
      OBVIOUS
    <3>3. \A d \in 1 .. m : d - 1 \in 0 .. m - 1 /\ (d = m \/ d \in 1 .. m - 1)
      OBVIOUS
    <3> QED BY <2>4, <2>5, <3>1, <3>2, <3>3
  <2> QED BY <2>1, <2>6
<1>2. PICK f : Good(f, n)
  BY <1>1
<1> DEFINE g == [d \in 0 .. n |-> f[d]]
<1>3. g = [d \in 0 .. n |-> IF d = 0 THEN a ELSE F[g[d - 1]]]
  <2>1. ASSUME NEW d \in 0 .. n PROVE g[d] = IF d = 0 THEN a ELSE F[g[d - 1]]
    <3>1. g[d] = f[d] /\ (d # 0 => g[d - 1] = f[d - 1] /\ d \in 1 .. n)
      OBVIOUS
    <3> HIDE DEF g
    <3> QED BY <1>2, <3>1
  <2> QED BY <2>1
<1>4. \A d \in 0 .. n : g[d] \in X
  BY <1>2
<1> HIDE DEF g
<1> QED BY <1>3, <1>4 DEF Iterated

(* Outermost, for all numbers of steps and all nodes.                      *)
IsDown(t, s, f) ==
  f = [d \in 0 .. MaxKey |->
        [y \in T!Keys |->
          IF d = 0 \/ t.kid[s][y] = T!Null THEN y ELSE f[d - 1][t.kid[s][y]]]]

TheDown(t, s) == CHOOSE f : IsDown(t, s, f)

LEMMA OutermostDown ==
  ASSUME NEW t, NEW x, NEW s
  PROVE  T!Outermost(t, x, s) = TheDown(t, s)[MaxKey][x]
BY DEF T!Outermost, TheDown, IsDown

LEMMA DownExists ==
  ASSUME NEW t \in T!Tree, NEW s \in T!Sides
  PROVE  IsDown(t, s, TheDown(t, s))
<1> DEFINE X == [T!Keys -> T!Keys]
           a == [y \in T!Keys |-> y]
           F == [g \in X |-> [y \in T!Keys |->
                               IF t.kid[s][y] = T!Null THEN y ELSE g[t.kid[s][y]]]]
<1>1. \A y \in T!Keys : t.kid[s][y] # T!Null => t.kid[s][y] \in T!Keys
  BY Fields, KeyFacts
<1>2. a \in X /\ F \in [X -> X]
  BY <1>1
<1>3. MaxKey \in Nat
  BY KeyFacts
<1> HIDE DEF a, F, X
<1>4. PICK f : Iterated(f, MaxKey, X, a, F)
  BY <1>2, <1>3, Iterates
<1>5. /\ f = [d \in 0 .. MaxKey |-> IF d = 0 THEN a ELSE F[f[d - 1]]]
      /\ \A d \in 0 .. MaxKey : f[d] \in X
  BY <1>4 DEF Iterated
<1>6. ASSUME NEW d \in 0 .. MaxKey
      PROVE  (IF d = 0 THEN a ELSE F[f[d - 1]])
             = [y \in T!Keys |->
                 IF d = 0 \/ t.kid[s][y] = T!Null THEN y ELSE f[d - 1][t.kid[s][y]]]
  <2>1. CASE d = 0
    BY <2>1 DEF a
  <2>2. CASE d # 0
    <3>1. d - 1 \in 0 .. MaxKey /\ f[d - 1] \in X
      <4>1. d - 1 \in 0 .. MaxKey
        BY <1>3, <2>2
      <4>2. \A b \in 0 .. MaxKey : f[b] \in X
        BY <1>5
      <4> QED BY <4>1, <4>2
    <3> QED BY <2>2, <3>1 DEF F
  <2> QED BY <2>1, <2>2
<1>7. IsDown(t, s, f)
  BY <1>5, <1>6 DEF IsDown
<1> QED BY <1>7 DEF TheDown

(* How many nodes there are below one.                                     *)
LEMMA Sizes ==
  ASSUME NEW t, NEW sub, Shape(t, sub), NEW x \in sub[t.root]
  PROVE  /\ Cardinality(sub[x]) \in 1 .. MaxKey
         /\ \A s \in T!Sides : t.kid[s][x] # T!Null =>
              Cardinality(sub[t.kid[s][x]]) \in Nat /\ Cardinality(sub[t.kid[s][x]]) < Cardinality(sub[x])
<1>1. IsFiniteSet(T!Keys) /\ Cardinality(T!Keys) = MaxKey /\ MaxKey \in Nat
  <2>1. MaxKey \in Nat /\ MaxKey \in Int /\ 1 \in Int /\ T!Keys = 1 .. MaxKey
    BY KeyFacts
  <2>2. IsFiniteSet(1 .. MaxKey) /\ Cardinality(1 .. MaxKey) = IF 1 > MaxKey THEN 0 ELSE MaxKey - 1 + 1
    BY <2>1, FS_Interval
  <2>3. (IF 1 > MaxKey THEN 0 ELSE MaxKey - 1 + 1) = MaxKey
    BY <2>1
  <2> QED BY <2>1, <2>2, <2>3
<1>2. ASSUME NEW y \in sub[t.root]
      PROVE  IsFiniteSet(sub[y]) /\ Cardinality(sub[y]) \in Nat /\ Cardinality(sub[y]) <= MaxKey
             /\ Cardinality(sub[y]) # 0
  <2>1. sub[y] \subseteq T!Keys /\ y \in sub[y]
    BY SetsOfShape DEF Sets
  <2>2. IsFiniteSet(sub[y]) /\ Cardinality(sub[y]) <= MaxKey
    BY <1>1, <2>1, FS_Subset
  <2> QED BY <2>1, <2>2, FS_CardinalityType, FS_EmptySet
<1>3. ASSUME NEW s \in T!Sides, t.kid[s][x] # T!Null
      PROVE  Cardinality(sub[t.kid[s][x]]) \in Nat /\ Cardinality(sub[t.kid[s][x]]) < Cardinality(sub[x])
  <2> DEFINE c == t.kid[s][x]
  <2>1. c \in sub[t.root] /\ sub[c] \subseteq sub[x] /\ x \notin sub[c] /\ x \in sub[x]
    BY <1>3, BelowNode, SetsOfShape DEF Below, Sets
  <2> HIDE DEF c
  <2>2. /\ Cardinality(sub[c]) <= Cardinality(sub[x])
        /\ Cardinality(sub[c]) = Cardinality(sub[x]) => sub[c] = sub[x]
    BY <1>2, <2>1, FS_Subset
  <2>3. Cardinality(sub[c]) \in Nat /\ Cardinality(sub[x]) \in Nat
    BY <1>2, <2>1
  <2>4. Cardinality(sub[c]) # Cardinality(sub[x])
    BY <2>1, <2>2
  <2>5. Cardinality(sub[c]) < Cardinality(sub[x])
    BY <2>2, <2>3, <2>4
  <2> QED BY <2>3, <2>5 DEF c
<1>4. Cardinality(sub[x]) \in 1 .. MaxKey
  BY <1>1, <1>2
<1> QED BY <1>3, <1>4

(* Outermost finds the last node below y on side s.                        *)
Extreme(t, sub, y, s, n) ==
  /\ n \in sub[y] /\ t.kid[s][n] = T!Null
  /\ \A k \in sub[y] \ {n} : Toward(T!Other(s), k, n)

LEMMA ExtremeUp ==
  ASSUME NEW t, NEW sub, Shape(t, sub), NEW x \in sub[t.root], NEW s \in T!Sides,
         t.kid[s][x] # T!Null, NEW n, Extreme(t, sub, t.kid[s][x], s, n)
  PROVE  Extreme(t, sub, x, s, n)
<1> DEFINE c == t.kid[s][x]
           o == T!Other(s)
<1>1. o \in T!Sides /\ T!Other(o) = s
  BY SideFacts
<1>2. Below(t, sub, x, s) /\ Below(t, sub, x, o) /\ sub[x] \subseteq T!Keys /\ x \in T!Keys
  BY <1>1, BelowNode, SetsOfShape, SMTT(30) DEF Sets
<1>3. /\ sub[c] \subseteq sub[x] /\ sub[x] = {x} \cup sub[c] \cup sub[t.kid[o][x]]
      /\ (\A k \in sub[c] : Toward(s, k, x)) /\ (\A k \in sub[t.kid[o][x]] : Toward(o, k, x))
  BY <1>2 DEF Below
<1>4. n \in sub[c] /\ t.kid[s][n] = T!Null /\ \A k \in sub[c] \ {n} : Toward(o, k, n)
  BY DEF Extreme
<1> HIDE DEF c, o
<1>5. Toward(o, x, n) /\ n \in T!Keys
  <2>1. Toward(s, n, x) /\ n \in T!Keys
    BY <1>2, <1>3, <1>4
  <2> QED BY <1>2, <2>1, TowardFacts DEF o
<1>6. ASSUME NEW k \in sub[x] \ {n} PROVE Toward(o, k, n)
  <2>1. CASE k \in sub[c] \/ k = x
    BY <1>4, <1>5, <2>1
  <2>2. CASE k \in sub[t.kid[o][x]]
    BY <1>1, <1>2, <1>3, <1>5, <2>2, TowardFacts
  <2> QED BY <1>3, <2>1, <2>2
<1> QED BY <1>3, <1>4, <1>6 DEF Extreme, o

LEMMA OutermostFacts ==
  ASSUME NEW t, NEW sub, Shape(t, sub), NEW x \in sub[t.root], NEW s \in T!Sides
  PROVE  Extreme(t, sub, x, s, T!Outermost(t, x, s))
<1> DEFINE f == TheDown(t, s)
           count(y) == Cardinality(sub[y])
           Bad == {y \in sub[t.root] : \E d \in 0 .. MaxKey :
                     count(y) <= d /\ ~Extreme(t, sub, y, s, f[d][y])}
<1>1. t \in T!Tree /\ sub[t.root] \subseteq T!Keys /\ MaxKey \in Nat
  BY SetsOfShape, KeyFacts DEF Sets
<1>2. \A d \in 0 .. MaxKey, y \in T!Keys :
        f[d][y] = IF d = 0 \/ t.kid[s][y] = T!Null THEN y ELSE f[d - 1][t.kid[s][y]]
  <2>1. IsDown(t, s, f)
    BY <1>1, DownExists, SMTT(30)
  <2> HIDE DEF f
  <2>2. f = [d \in 0 .. MaxKey |->
              [y \in T!Keys |->
                IF d = 0 \/ t.kid[s][y] = T!Null THEN y ELSE f[d - 1][t.kid[s][y]]]]
    BY <2>1 DEF IsDown
  <2>3. ASSUME NEW d \in 0 .. MaxKey, NEW y \in T!Keys
        PROVE  f[d][y] = IF d = 0 \/ t.kid[s][y] = T!Null THEN y ELSE f[d - 1][t.kid[s][y]]
    <3>1. f[d] = [k \in T!Keys |->
                   IF d = 0 \/ t.kid[s][k] = T!Null THEN k ELSE f[d - 1][t.kid[s][k]]]
      BY <2>2, Zenon
    <3> QED BY <3>1
  <2> QED BY <2>3
<1> HIDE DEF f
<1>3. Bad = {}
  <2> SUFFICES ASSUME Bad # {} PROVE FALSE
    OBVIOUS
  <2>1. PICK y \in Bad : \A a \in T!Sides : t.kid[a][y] \notin Bad
    <3>1. Bad \subseteq sub[t.root]
      OBVIOUS
    <3> HIDE DEF Bad
    <3> QED BY <3>1, Lowest
  <2>2. PICK d \in 0 .. MaxKey : count(y) <= d /\ ~Extreme(t, sub, y, s, f[d][y])
    OBVIOUS
  <2> DEFINE c == t.kid[s][y]
  <2>3. count(y) \in Nat /\ count(y) # 0 /\ (c # T!Null => count(c) \in Nat /\ count(c) < count(y))
    BY Sizes
  <2> HIDE DEF count
  <2>4. d # 0 /\ d - 1 \in 0 .. MaxKey /\ (c # T!Null => count(c) <= d - 1)
    BY <1>1, <2>2, <2>3
  <2>5. Below(t, sub, y, s) /\ y \in T!Keys /\ y \in sub[y]
    BY <1>1, BelowNode, SetsOfShape DEF Sets
  <2>6. CASE c = T!Null
    <3>1. f[d][y] = y
      BY <1>2, <2>5, <2>6
    <3>2. \A k \in sub[y] \ {y} : Toward(T!Other(s), k, y)
      <4>1. sub[y] = {y} \cup sub[t.kid[T!Other(s)][y]]
        BY <2>5, <2>6 DEF Below
      <4>2. Below(t, sub, y, T!Other(s))
        BY BelowNode, SideFacts
      <4> QED BY <4>1, <4>2 DEF Below
    <3> QED BY <2>2, <2>5, <2>6, <3>1, <3>2 DEF Extreme
  <2>7. CASE c # T!Null
    <3>1. f[d][y] = f[d - 1][c] /\ c \in sub[t.root]
      BY <1>2, <2>4, <2>5, <2>7 DEF Below
    <3>2. Extreme(t, sub, c, s, f[d - 1][c])
      BY <2>1, <2>4, <2>7, <3>1
    <3> QED BY <2>2, <2>7, <3>1, <3>2, ExtremeUp
  <2> QED BY <2>6, <2>7
<1>4. count(x) <= MaxKey /\ MaxKey \in 0 .. MaxKey
  BY <1>1, Sizes
<1>5. Extreme(t, sub, x, s, f[MaxKey][x])
  BY <1>3, <1>4
<1> QED BY <1>5, OutermostDown DEF f

(* Trees that agree at all nodes.                                          *)
Alike(t, u, N) ==
  /\ u \in T!Tree /\ u.root = t.root
  /\ \A w \in N : /\ \A s \in T!Sides : u.kid[s][w] = t.kid[s][w]
                  /\ u.up[w] = t.up[w] /\ (w \in u.red <=> w \in t.red)

LEMMA AlikeSound ==
  ASSUME NEW t, NEW sub, NEW bh, NEW p, NEW c, NEW n, NEW m, Sound(t, sub, bh, p, c, n, m),
         NEW u, Alike(t, u, sub[t.root])
  PROVE  Sound(u, sub, bh, p, c, n, m)
<1> DEFINE N == sub[t.root]
<1>1. Shape(t, sub) /\ Height(t, sub, bh, p, c) /\ Reds(t, sub, n, m) /\ u.root = t.root
  BY DEF Sound, Alike
<1>2. \A w \in N : t.up[w] = T!Null \/ t.up[w] \in N
  BY <1>1, UpFacts
<1>3. Shape(u, sub)
  <2>1. t.root # T!Null => t.root \in N /\ t.up[t.root] = T!Null
    BY <1>1 DEF Shape
  <2>2. \A w \in N : Node(u, sub, w)
    BY <1>1 DEF Alike, Shape, Node
  <2> QED BY <1>1, <2>1, <2>2 DEF Alike, Shape
<1>4. Height(u, sub, bh, p, c)
  BY <1>1 DEF Alike, Height, Lack, Weight
<1>5. Reds(u, sub, n, m)
  BY <1>1, <1>2 DEF Alike, Reds
<1> QED BY <1>3, <1>4, <1>5 DEF Sound

(* A black node that is missing is missing nowhere if it would be at the   *)
(* root, or if nothing is at the pointer's place.                          *)
LEMMA NoLack ==
  ASSUME NEW t, NEW sub, Shape(t, sub), NEW bh, NEW p, NEW c, NEW q, NEW d,
         p = T!Null \/ c = t.root, q = T!Null \/ d = t.root, Height(t, sub, bh, p, c)
  PROVE  Height(t, sub, bh, q, d)
<1>1. ASSUME NEW x \in sub[t.root], NEW s \in T!Sides
      PROVE  Lack(t, x, s, p, c) = Lack(t, x, s, q, d)
  <2>1. t.root \in sub[t.root] /\ x # T!Null
    BY UpFacts, SetsOfShape DEF Sets
  <2>2. t.kid[s][x] # t.root
    BY <2>1, UpFacts
  <2> QED BY <2>1, <2>2 DEF Lack
<1> QED BY <1>1 DEF Height

(* The last assignments of rb_insert_color and __rb_erase_color: a red     *)
(* node where a black one is missing, or at the root, becomes black.       *)
LEMMA Blacken ==
  ASSUME NEW t, NEW sub, NEW bh, NEW n, NEW p, Shape(t, sub), Height(t, sub, bh, p, n),
         n \in sub[t.root] \cap t.red, n = t.root \/ p = t.up[n]
  PROVE  LET u == T!SetBlack(t, n)
         IN  \E h : Shape(u, sub) /\ Height(u, sub, h, T!Null, T!Null)
<1> DEFINE u == T!SetBlack(t, n)
           N == sub[t.root]
           h == [bh EXCEPT ![n] = bh[n] + 1]
<1>1. t \in T!Tree /\ N \subseteq T!Keys /\ T!Null \notin N
  BY SetsOfShape DEF Sets
<1>2. Painted(t, u, t.red \ {n})
  BY <1>1, SetBlackFacts
<1> HIDE DEF u
<1>3. Shape(u, sub) /\ u.root = t.root /\ u.kid = t.kid /\ u.red = t.red \ {n}
  BY <1>2, PaintedShape DEF Painted
<1>4. n \in T!Ptr /\ n # T!Null /\ T!Null \in T!Ptr /\ bh \in [T!Ptr -> Nat] /\ bh[T!Null] = 0
  BY <1>1, KeyFacts DEF Height
<1>5. /\ h \in [T!Ptr -> Nat] /\ h[T!Null] = 0 /\ h[n] = bh[n] + 1 /\ bh[n] \in Nat
      /\ \A k \in T!Ptr : k # n => h[k] = bh[k]
  <2>1. bh[n] \in Nat
    BY <1>4
  <2> QED BY <1>4, <2>1
<1> HIDE DEF h
<1>6. ASSUME NEW w \in N, NEW a \in T!Sides
      PROVE  h[w] = h[t.kid[a][w]] + 0 + Weight(u, w)
  <2> DEFINE c == t.kid[a][w]
  <2>1. bh[w] = bh[c] + Lack(t, w, a, p, n) + Weight(t, w)
    BY DEF Height
  <2>2. c \in T!Ptr /\ w \in T!Ptr /\ w \in T!Keys
    BY <1>1, BelowNode, KeyFacts DEF Below
  <2>3. bh[w] \in Nat /\ bh[c] \in Nat
    <3> HIDE DEF c
    <3> QED BY <1>4, <2>2
  <2>4. CASE w = n
    <3>1. c # n
      <4>1. Below(t, sub, n, a) /\ n \in sub[n]
        BY <2>4, BelowNode, SetsOfShape DEF Sets
      <4> QED BY <2>4, <4>1 DEF Below
    <3>2. Lack(t, w, a, p, n) = 0 /\ Weight(t, w) = 0 /\ Weight(u, w) = 1
      BY <1>3, <2>4, <3>1 DEF Lack, Weight
    <3> HIDE DEF c
    <3>3. h[c] = bh[c] /\ h[w] = bh[w] + 1
      BY <1>5, <2>2, <2>4, <3>1
    <3> QED BY <2>1, <2>3, <3>2, <3>3 DEF c
  <2>5. CASE w # n
    <3>1. Weight(t, w) = Weight(u, w) /\ Weight(t, w) \in Nat /\ h[w] = bh[w]
      BY <1>3, <1>5, <2>2, <2>5 DEF Weight
    <3>2. CASE c = n
      <4>1. w = t.up[n] /\ n # t.root
        BY <3>2, UpFacts
      <4>2. Lack(t, w, a, p, n) = 1
        BY <3>2, <4>1 DEF Lack
      <4> HIDE DEF c
      <4>3. h[c] = bh[c] + 1
        BY <1>5, <3>2
      <4> QED BY <2>1, <2>3, <3>1, <4>2, <4>3 DEF c
    <3>3. CASE c # n
      <4>1. Lack(t, w, a, p, n) = 0
        BY <3>3 DEF Lack
      <4> HIDE DEF c
      <4>2. h[c] = bh[c]
        BY <1>5, <2>2, <3>3
      <4> QED BY <2>1, <2>3, <3>1, <4>1, <4>2 DEF c
    <3> QED BY <3>2, <3>3
  <2> QED BY <2>4, <2>5
<1>7. \A w \in N, a \in T!Sides : Lack(u, w, a, T!Null, T!Null) = 0
  BY <1>1 DEF Lack
<1>8. Height(u, sub, h, T!Null, T!Null)
  BY <1>3, <1>5, <1>6, <1>7 DEF Height
<1> QED BY <1>3, <1>8 DEF u

LEMMA InsertColorLast ==
  ASSUME NEW sub, NEW bh, Sound(tree, sub, bh, T!Null, node, node, T!Null),
         node \in sub[tree.root] \cap tree.red, T!InsertColorEnd
  PROVE  \E h : /\ Sound(tree', sub, h, T!Null, node', T!Null, T!Null)
                /\ tree'.root = tree.root
<1> DEFINE N == sub[tree.root]
<1>1. /\ Shape(tree, sub) /\ Height(tree, sub, bh, T!Null, node)
      /\ Reds(tree, sub, node, T!Null)
  BY DEF Sound
<1>2. ~T!IsRed(tree, tree.up[node]) /\ tree' = T!SetBlack(tree, tree.root)
  BY DEF T!InsertColorEnd
<1>3. /\ tree \in T!Tree /\ T!Null \notin N /\ tree.root \in N /\ N \subseteq T!Keys
      /\ tree.red \subseteq T!Keys /\ T!Null \notin T!Keys
  BY <1>1, SetsOfShape, UpFacts, Fields, KeyFacts DEF Sets
<1>4. Painted(tree, tree', tree.red \ {tree.root})
  BY <1>2, <1>3, SetBlackFacts
<1>5. /\ Shape(tree', sub) /\ tree'.root = tree.root /\ tree'.up = tree.up
      /\ tree'.red = tree.red \ {tree.root} /\ tree'.kid = tree.kid
  BY <1>1, <1>4, PaintedShape DEF Painted
<1>6. tree.up[node] \notin tree.red
  BY <1>2, <1>3 DEF T!IsRed
<1>7. Reds(tree', sub, T!Null, T!Null)
  <2> SUFFICES ASSUME NEW w \in N \cap tree'.red, tree'.up[w] \in tree'.red \cup {T!Null}
               PROVE  FALSE
    BY <1>5 DEF Reds
  <2>1. w = node
    BY <1>1, <1>5 DEF Reds
  <2>2. tree.up[node] = T!Null
    BY <1>5, <1>6, <2>1
  <2>3. node = tree.root
    BY <1>1, <2>2, UpFacts
  <2> QED BY <1>5, <2>1, <2>3
<1>8. \E h : Height(tree', sub, h, T!Null, T!Null)
  <2>1. CASE tree.root \in tree.red
    <3>1. Height(tree, sub, bh, T!Null, tree.root)
      BY <1>1, NoLack
    <3> QED BY <1>1, <1>2, <1>3, <2>1, <3>1, Blacken
  <2>2. CASE tree.root \notin tree.red
    <3>1. \A w \in N, a \in T!Sides : /\ Lack(tree, w, a, T!Null, node) = Lack(tree', w, a, T!Null, T!Null)
                                      /\ Weight(tree', w) = Weight(tree, w)
      BY <1>3, <1>5, <2>2 DEF Lack, Weight
    <3> QED BY <1>1, <1>5, <3>1 DEF Height
  <2> QED BY <2>1, <2>2
<1>9. PICK h : Height(tree', sub, h, T!Null, node')
  BY <1>5, <1>8, NoLack
<1> QED BY <1>5, <1>7, <1>9 DEF Sound

LEMMA EraseColorLast ==
  ASSUME NEW sub, NEW bh, Sound(tree, sub, bh, parent, node, node, node),
         node # tree.root => Sibling(tree, sub, node, parent), T!EraseColorEnd
  PROVE  \E h : /\ Sound(tree', sub, h, T!Null, node', T!Null, T!Null)
                /\ tree'.root = tree.root
<1> DEFINE N == sub[tree.root]
<1>1. /\ Shape(tree, sub) /\ Height(tree, sub, bh, parent, node)
      /\ Reds(tree, sub, node, node)
  BY DEF Sound
<1>2. (T!IsRed(tree, node) \/ node = tree.root) /\ tree' = T!SetBlack(tree, node)
  BY DEF T!EraseColorEnd
<1>3. /\ tree \in T!Tree /\ T!Null \notin N /\ N \subseteq T!Keys
      /\ tree.red \subseteq T!Keys /\ T!Null \notin T!Keys /\ sub[T!Null] = {}
  BY <1>1, SetsOfShape, Fields, KeyFacts DEF Sets
<1>4. Painted(tree, tree', tree.red \ {node})
  BY <1>2, <1>3, SetBlackFacts
<1>5. /\ Shape(tree', sub) /\ tree'.root = tree.root /\ tree'.up = tree.up
      /\ tree'.red = tree.red \ {node} /\ tree'.kid = tree.kid
  BY <1>1, <1>4, PaintedShape DEF Painted
<1>6. Reds(tree', sub, T!Null, T!Null)
  <2> SUFFICES ASSUME NEW w \in N \cap tree'.red, tree'.up[w] \in tree'.red \cup {T!Null}
               PROVE  FALSE
    BY <1>5 DEF Reds
  <2>1. w = node \/ (tree.up[w] = node /\ node # T!Null)
    BY <1>1, <1>5 DEF Reds
  <2> QED BY <1>5, <2>1
<1>7. \E h : Height(tree', sub, h, T!Null, T!Null)
  <2>1. CASE node \in tree.red
    <3>1. node \in N /\ (node = tree.root \/ parent = tree.up[node])
      <4>1. CASE node = tree.root
        BY <1>1, <1>3, <2>1, <4>1 DEF Shape
      <4>2. CASE node # tree.root
        <5>1. PICK a \in T!Sides : parent \in N /\ tree.kid[a][parent] = node
          BY <4>2 DEF Sibling
        <5> QED BY <1>1, <1>3, <2>1, <5>1, BelowNode DEF Below
      <4> QED BY <4>1, <4>2
    <3> QED BY <1>1, <1>2, <2>1, <3>1, Blacken
  <2>2. CASE node \notin tree.red
    <3>1. node = tree.root
      BY <1>2, <2>2 DEF T!IsRed
    <3>2. Height(tree, sub, bh, T!Null, T!Null)
      BY <1>1, <3>1, NoLack
    <3>3. \A w \in N, a \in T!Sides :
            /\ Lack(tree, w, a, T!Null, T!Null) = Lack(tree', w, a, T!Null, T!Null)
            /\ Weight(tree', w) = Weight(tree, w)
      BY <1>5, <2>2 DEF Lack, Weight
    <3> QED BY <1>5, <3>2, <3>3 DEF Height
  <2> QED BY <2>1, <2>2
<1>8. PICK h : Height(tree', sub, h, T!Null, node')
  BY <1>5, <1>7, NoLack
<1> QED BY <1>5, <1>6, <1>8 DEF Sound

(* On the way down: key belongs below parent, at the place of node, and if *)
(* it is in the tree it is below node.                                     *)
Descended(sub) ==
  /\ parent = T!Null => node = tree.root
  /\ parent # T!Null => /\ parent \in sub[tree.root] /\ parent # key
                        /\ node = tree.kid[T!SideOf(parent)][parent]
  /\ \A w \in sub[tree.root], s \in T!Sides : parent \in sub[tree.kid[s][w]] => Toward(s, key, w)
  /\ key \in sub[tree.root] => key \in sub[node]

LEMMA SideOfToward ==
  ASSUME NEW k \in T!Keys, k # key, key \in T!Keys
  PROVE  /\ T!SideOf(k) \in T!Sides /\ Toward(T!SideOf(k), key, k)
         /\ \A s \in T!Sides : Toward(s, key, k) => s = T!SideOf(k)
<1>1. T!Keys \subseteq Int
  BY KeyFacts
<1> QED BY <1>1 DEF T!SideOf, Toward, T!Sides

LEMMA DescendDescends ==
  ASSUME NEW sub, Shape(tree, sub), Descended(sub), key \in T!Keys, T!Descend
  PROVE  Descended(sub)'
<1> DEFINE N == sub[tree.root]
<1>1. node \notin {T!Null, key} /\ parent' = node /\ node' = tree.kid[T!SideOf(node)][node]
      /\ tree' = tree /\ key' = key
  BY DEF T!Descend, T!opVars
<1>2. N \subseteq T!Keys /\ T!Null \notin N /\ sub[T!Null] = {}
  BY SetsOfShape DEF Sets
<1>3. node \in N
  <2>1. CASE parent = T!Null
    BY <1>1, <2>1 DEF Descended, Shape
  <2>2. CASE parent # T!Null
    <3>1. parent \in N /\ node = tree.kid[T!SideOf(parent)][parent] /\ T!SideOf(parent) \in T!Sides
      BY <1>2, <2>2, SideOfToward DEF Descended
    <3> QED BY <1>1, <3>1, BelowNode DEF Below
  <2> QED BY <2>1, <2>2
<1>4. key \in N => key \in sub[tree.kid[T!SideOf(node)][node]]
  <2> SUFFICES ASSUME key \in N PROVE key \in sub[tree.kid[T!SideOf(node)][node]]
    OBVIOUS
  <2>1. key \in sub[node] /\ key # node
    BY <1>1 DEF Descended
  <2>2. PICK a \in T!Sides : key \in sub[tree.kid[a][node]]
    BY <1>3, <2>1 DEF Shape, Node
  <2>3. Toward(a, key, node)
    BY <1>3, <2>2 DEF Shape, Node
  <2>4. a = T!SideOf(node)
    BY <1>2, <1>3, <2>1, <2>3, SideOfToward
  <2> QED BY <2>2, <2>4
<1>5. \A b \in N, a \in T!Sides : tree.kid[a][b] = node =>
        b = tree.up[node] /\ tree.kid[T!Other(a)][b] # node
  BY <1>3, UpFacts
<1>6. ASSUME NEW w \in N, NEW s \in T!Sides, node \in sub[tree.kid[s][w]] PROVE Toward(s, key, w)
  <2> DEFINE y == tree.kid[s][w]
  <2>1. y # T!Null
    BY <1>2, <1>6
  <2>2. y \in N /\ y # tree.root /\ w = tree.up[y]
    BY <2>1, BelowNode, UpFacts DEF Below
  <2>3. CASE node = y
    <3>1. parent # T!Null
      BY <2>2, <2>3 DEF Descended
    <3>2. parent \in N /\ parent # key /\ T!SideOf(parent) \in T!Sides
          /\ node = tree.kid[T!SideOf(parent)][parent]
      BY <1>2, <3>1, SideOfToward DEF Descended
    <3>3. w = parent /\ tree.kid[T!Other(T!SideOf(parent))][parent] # node
      <4>1. parent = tree.up[node] /\ tree.kid[T!Other(T!SideOf(parent))][parent] # node
        <5>1. parent \in N /\ T!SideOf(parent) \in T!Sides
              /\ tree.kid[T!SideOf(parent)][parent] = node
          BY <3>2
        <5> QED BY <1>5, <5>1
      <4>2. w = tree.up[node]
        BY <2>2, <2>3
      <4> QED BY <4>1, <4>2
    <3>4. s = T!SideOf(parent)
      BY <2>3, <3>2, <3>3, SideFacts
    <3> QED BY <1>2, <3>2, <3>3, <3>4, SideOfToward
  <2>4. CASE node # y
    <3>1. tree.up[node] \in sub[y]
      BY <1>6, <2>2, <2>4, Inside
    <3>2. parent # T!Null
      <4>1. sub[y] \subseteq N
        BY <2>2, SetsOfShape DEF Sets
      <4>2. tree.up[node] # T!Null
        BY <1>2, <3>1, <4>1
      <4>3. node # tree.root
        BY <1>3, <4>2, UpFacts
      <4> QED BY <4>3 DEF Descended
    <3>3. parent \in N /\ T!SideOf(parent) \in T!Sides /\ node = tree.kid[T!SideOf(parent)][parent]
      BY <1>2, <3>2, SideOfToward DEF Descended
    <3>4. tree.up[node] = parent
      BY <1>3, <3>3, UpFacts, SMTT(30)
    <3> QED BY <3>1, <3>4 DEF Descended
  <2> QED BY <2>3, <2>4
<1> QED BY <1>1, <1>3, <1>4, <1>6 DEF Descended, T!SideOf

(* rb_link_node, pointer by pointer.                                       *)
Linked(t, u, k, q, a) ==
  /\ u \in T!Tree /\ u.root = IF q = T!Null THEN k ELSE t.root
  /\ u.red = t.red \cup {k}
  /\ \A s \in T!Sides : u.kid[s][k] = T!Null
  /\ u.up[k] = q
  /\ \A w \in T!Keys \ {k} :
       /\ u.up[w] = t.up[w]
       /\ \A s \in T!Sides : u.kid[s][w] = IF w = q /\ s = a THEN k ELSE t.kid[s][w]

LEMMA LinkLinks ==
  ASSUME tree \in T!Tree, key \in T!Keys, parent \in T!Ptr, parent # key, T!Link
  PROVE  Linked(tree, tree', key, parent, T!SideOf(parent))
<1> DEFINE K == [s \in T!Sides |-> [tree.kid[s] EXCEPT ![key] = T!Null]]
           U == [tree.up EXCEPT ![key] = parent]
           t == [tree EXCEPT !.up = U, !.red = tree.red \cup {key}, !.kid = K]
<1>1. tree' = IF parent = T!Null THEN [t EXCEPT !.root = key]
              ELSE [t EXCEPT !.kid[T!SideOf(parent)][parent] = key]
  BY DEF T!Link, T!Tree
<1>2. /\ tree.kid \in [T!Sides -> [T!Keys -> T!Ptr]] /\ tree.up \in [T!Keys -> T!Ptr]
      /\ tree.red \subseteq T!Keys /\ tree.root \in T!Ptr /\ T!Null \in T!Ptr /\ key \in T!Ptr
  BY Fields, KeyFacts
<1>3. K \in [T!Sides -> [T!Keys -> T!Ptr]] /\ U \in [T!Keys -> T!Ptr]
  BY <1>2, SMTT(30)
<1>4. /\ t \in T!Tree /\ t.root = tree.root /\ t.kid = K /\ t.up = U /\ t.red = tree.red \cup {key}
  BY <1>2, <1>3 DEF T!Tree
<1>5. /\ \A s \in T!Sides, w \in T!Keys : K[s][w] = IF w = key THEN T!Null ELSE tree.kid[s][w]
      /\ \A w \in T!Keys : U[w] = IF w = key THEN parent ELSE tree.up[w]
  BY <1>2
<1> HIDE DEF K, U, t
<1>6. CASE parent = T!Null
  <2>1. /\ tree' \in T!Tree /\ tree'.root = key /\ tree'.kid = K /\ tree'.up = U
        /\ tree'.red = tree.red \cup {key}
    BY <1>1, <1>2, <1>4, <1>6, SetFields
  <2> QED BY <1>5, <1>6, <2>1, KeyFacts DEF Linked
<1>7. CASE parent # T!Null
  <2>1. parent \in T!Keys /\ T!SideOf(parent) \in T!Sides
    BY <1>7, KeyFacts, SideOfToward
  <2>2. /\ tree' \in T!Tree /\ tree'.root = tree.root /\ tree'.up = U /\ tree'.red = tree.red \cup {key}
        /\ \A s \in T!Sides, w \in T!Keys :
             tree'.kid[s][w] = IF s = T!SideOf(parent) /\ w = parent THEN key ELSE K[s][w]
    <3> DEFINE a == T!SideOf(parent)
               u == [t EXCEPT !.kid[a][parent] = key]
    <3>1. /\ u \in T!Tree /\ u.root = t.root /\ u.up = t.up /\ u.red = t.red
          /\ \A s \in T!Sides, w \in T!Keys :
               u.kid[s][w] = IF s = T!SideOf(parent) /\ w = parent THEN key ELSE t.kid[s][w]
      <4> HIDE DEF a
      <4>1. a \in T!Sides /\ parent \in T!Keys /\ key \in T!Ptr /\ t \in T!Tree
        BY <1>2, <1>4, <2>1 DEF a
      <4> QED BY <4>1, SetKid DEF a
    <3>2. tree' = u
      BY <1>1, <1>7
    <3> HIDE DEF u
    <3> QED BY <1>4, <3>1, <3>2
  <2> QED BY <1>5, <1>7, <2>2 DEF Linked
<1> QED BY <1>6, <1>7

LinkedSub(sub, N, k, q) ==
  [w \in T!Ptr |-> IF w = k THEN {k}
                   ELSE IF w \in N /\ q \in sub[w] THEN sub[w] \cup {k} ELSE sub[w]]

LEMMA LinkShape ==
  ASSUME NEW t, NEW sub, Shape(t, sub), NEW k \in T!Keys \ sub[t.root], NEW q, NEW a \in T!Sides,
         q = T!Null => t.root = T!Null,
         q # T!Null => q \in sub[t.root] /\ t.kid[a][q] = T!Null /\ Toward(a, k, q),
         \A w \in sub[t.root], s \in T!Sides : q \in sub[t.kid[s][w]] => Toward(s, k, w),
         NEW u, Linked(t, u, k, q, a),
         NEW v, v = LinkedSub(sub, sub[t.root], k, q)
  PROVE  Shape(u, v) /\ v[u.root] = sub[t.root] \cup {k}
<1> DEFINE N == sub[t.root]
<1>1. /\ t \in T!Tree /\ sub \in [T!Ptr -> SUBSET T!Keys] /\ sub[T!Null] = {}
      /\ N \subseteq T!Keys /\ T!Null \notin N /\ k # T!Null /\ T!Null \in T!Ptr /\ T!Keys \subseteq T!Ptr
      /\ \A x \in N : x \in sub[x] /\ sub[x] \subseteq N
  BY SetsOfShape, KeyFacts DEF Sets
<1>2. /\ v \in [T!Ptr -> SUBSET T!Keys] /\ v[k] = {k} /\ v[T!Null] = {}
      /\ \A w \in N : v[w] = IF q \in sub[w] THEN sub[w] \cup {k} ELSE sub[w]
  <2>1. ASSUME NEW w \in T!Ptr PROVE v[w] \in SUBSET T!Keys
    BY <1>1, <2>1 DEF LinkedSub
  <2>2. v \in [T!Ptr -> SUBSET T!Keys]
    BY <1>1, <2>1 DEF LinkedSub
  <2> QED BY <1>1, <2>2 DEF LinkedSub
<1>3. v[u.root] = N \cup {k} /\ u.root \in N \cup {k} /\ u.up[u.root] = T!Null
  <2>1. CASE q = T!Null
    BY <1>1, <1>2, <2>1 DEF Linked
  <2>2. CASE q # T!Null
    <3>1. t.root \in N /\ t.up[t.root] = T!Null /\ q \in N
      BY <2>2, UpFacts DEF Shape
    <3> QED BY <1>1, <1>2, <2>2, <3>1, ZenonT(40) DEF Linked
  <2> QED BY <2>1, <2>2
<1>4. Node(u, v, k)
  <2>1. \A s \in T!Sides : u.kid[s][k] = T!Null
    BY DEF Linked
  <2> QED BY <1>2, <1>3, <2>1, KeyFacts DEF Node
<1>5. ASSUME NEW w \in N PROVE Node(u, v, w)
  <2>1. w # k /\ w \in T!Keys \ {k} /\ w \in sub[w]
    BY <1>1
  <2>2. ASSUME NEW s \in T!Sides
        PROVE  /\ u.kid[s][w] # T!Null => u.kid[s][w] \in N \cup {k} /\ u.up[u.kid[s][w]] = w
               /\ v[u.kid[s][w]] = sub[t.kid[s][w]] \cup (IF (w = q /\ s = a) \/ q \in sub[t.kid[s][w]]
                                                          THEN {k} ELSE {})
    <3>1. Below(t, sub, w, s)
      BY BelowNode
    <3>2. CASE w = q /\ s = a
      <4>1. u.kid[s][w] = k /\ u.up[k] = w
        BY <2>1, <3>2 DEF Linked
      <4>2. sub[t.kid[s][w]] = {}
        BY <1>1, <3>2
      <4> QED BY <1>2, <3>2, <4>1, <4>2
    <3>3. CASE ~(w = q /\ s = a)
      <4> DEFINE c == t.kid[s][w]
      <4>1. u.kid[s][w] = c
        BY <2>1, <3>3 DEF Linked
      <4>2. c # T!Null => c \in N /\ t.up[c] = w
        BY <3>1 DEF Below
      <4> HIDE DEF c
      <4>3. c # T!Null => u.up[c] = w
        BY <1>1, <4>2 DEF Linked
      <4>4. v[c] = sub[c] \cup (IF q \in sub[c] THEN {k} ELSE {})
        <5>1. CASE c = T!Null
          BY <1>1, <1>2, <5>1
        <5>2. CASE c # T!Null
          BY <1>2, <4>2, <5>2
        <5> QED BY <5>1, <5>2
      <4> QED BY <3>3, <4>1, <4>2, <4>3, <4>4 DEF c
    <3> QED BY <3>2, <3>3
  <2>3. \A x : x \in sub[w] <=> x = w \/ \E s \in T!Sides : x \in sub[t.kid[s][w]]
    BY DEF Shape, Node
  <2>4. \A x : x \in v[w] <=> x = w \/ \E s \in T!Sides : x \in v[u.kid[s][w]]
    <3>1. k \in v[w] <=> q \in sub[w]
      BY <1>1, <1>2
    <3>2. q \in sub[w] <=> \E s \in T!Sides : (w = q /\ s = a) \/ q \in sub[t.kid[s][w]]
      BY <2>3
    <3>3. ASSUME NEW x, x # k
          PROVE  x \in v[w] <=> x = w \/ \E s \in T!Sides : x \in v[u.kid[s][w]]
      <4>1. \A s \in T!Sides : x \in v[u.kid[s][w]] <=> x \in sub[t.kid[s][w]]
        BY <2>2, <3>3
      <4>2. x \in v[w] <=> x \in sub[w]
        BY <1>2, <3>3
      <4> QED BY <2>3, <4>1, <4>2
    <3>4. k \in v[w] <=> \E s \in T!Sides : k \in v[u.kid[s][w]]
      <4>1. ASSUME NEW s \in T!Sides
            PROVE  k \in v[u.kid[s][w]] <=> (w = q /\ s = a) \/ q \in sub[t.kid[s][w]]
        <5>1. k \notin sub[t.kid[s][w]]
          <6>1. sub[t.kid[s][w]] \subseteq N
            BY <1>1, BelowNode DEF Below
          <6> QED BY <6>1
        <5> QED BY <2>2, <5>1
      <4> QED BY <3>1, <3>2, <4>1
    <3> QED BY <2>1, <3>3, <3>4
  <2>5. ASSUME NEW s \in T!Sides, NEW x \in v[u.kid[s][w]] PROVE Toward(s, x, w)
    <3>1. x \in sub[t.kid[s][w]] => Toward(s, x, w)
      BY DEF Shape, Node
    <3>2. CASE x = k
      BY <1>1, <2>2, <3>1, <3>2
    <3>3. CASE x # k
      BY <2>2, <3>1, <3>3
    <3> QED BY <3>2, <3>3
  <2>6. v[w] \subseteq N \cup {k}
    <3>1. sub[w] \subseteq N /\ v[w] = IF q \in sub[w] THEN sub[w] \cup {k} ELSE sub[w]
      BY <1>1, <1>2
    <3> QED BY <3>1
  <2> QED BY <1>3, <2>2, <2>4, <2>5, <2>6 DEF Node
<1>6. u \in T!Tree /\ \A w \in v[u.root] : Node(u, v, w)
  BY <1>3, <1>4, <1>5 DEF Linked
<1> QED BY <1>2, <1>3, <1>6 DEF Shape

(* A red leaf counts for nothing, and is the only red node that may be     *)
(* below a red one.                                                        *)
LEMMA LinkSound ==
  ASSUME NEW sub, NEW bh, Sound(tree, sub, bh, T!Null, node, T!Null, T!Null), Descended(sub),
         key \in T!Keys, parent \in T!Ptr, T!Link
  PROVE  \E v, h : /\ Sound(tree', v, h, T!Null, node', node', T!Null)
                   /\ v[tree'.root] = sub[tree.root] \cup {key}
                   /\ node' \in v[tree'.root] \cap tree'.red
<1> DEFINE N == sub[tree.root]
           a == T!SideOf(parent)
           v == LinkedSub(sub, N, key, parent)
           h == [bh EXCEPT ![key] = 0]
<1>1. node = T!Null /\ node' = key
  BY DEF T!Link
<1>2. /\ Shape(tree, sub) /\ Height(tree, sub, bh, T!Null, node)
      /\ Reds(tree, sub, T!Null, T!Null)
  BY DEF Sound
<1>3. /\ tree \in T!Tree /\ T!Null \notin N /\ N \subseteq T!Keys /\ sub[T!Null] = {}
      /\ \A x \in N : x \in sub[x] /\ sub[x] \subseteq N
  BY <1>2, SetsOfShape DEF Sets
<1>4. key \notin N
  BY <1>1, <1>3 DEF Descended
<1>5. /\ parent = T!Null => tree.root = T!Null
      /\ parent # T!Null => parent \in N /\ tree.kid[a][parent] = T!Null /\ Toward(a, key, parent)
      /\ \A w \in N, s \in T!Sides : parent \in sub[tree.kid[s][w]] => Toward(s, key, w)
      /\ parent # key
  <2>1. parent # T!Null => parent \in N /\ tree.kid[a][parent] = T!Null /\ Toward(a, key, parent)
    BY <1>1, <1>3, SideOfToward DEF Descended
  <2> QED BY <1>1, <2>1, KeyFacts DEF Descended
<1>6. Linked(tree, tree', key, parent, a)
  BY <1>3, <1>5, LinkLinks
<1>7. a \in T!Sides
  BY DEF T!SideOf, T!Sides
<1> HIDE DEF a
<1>8. Shape(tree', v) /\ v[tree'.root] = N \cup {key}
  <2>1. key \in T!Keys \ N
    BY <1>4
  <2> QED BY <1>2, <1>5, <1>6, <1>7, <2>1, LinkShape, SMTT(30)
<1> HIDE DEF v
<1>9. bh \in [T!Ptr -> Nat] /\ bh[T!Null] = 0 /\ key \in T!Ptr /\ key # T!Null /\ T!Null \in T!Ptr
  BY <1>2, KeyFacts DEF Height
<1>10. /\ h \in [T!Ptr -> Nat] /\ h[T!Null] = 0 /\ h[key] = 0
       /\ \A k \in T!Ptr : k # key => h[k] = bh[k]
  BY <1>9
<1> HIDE DEF h
<1>11. ASSUME NEW w \in N \cup {key}, NEW s \in T!Sides
       PROVE  h[w] = h[tree'.kid[s][w]] + 0 + Weight(tree', w)
  <2>1. CASE w = key
    BY <1>6, <1>10, <2>1 DEF Linked, Weight
  <2>2. CASE w # key
    <3> DEFINE c == tree.kid[s][w]
    <3>1. bh[w] = bh[c] + Lack(tree, w, s, T!Null, node) + Weight(tree, w)
      BY <1>2, <2>2 DEF Height
    <3>2. Lack(tree, w, s, T!Null, node) = 0
      BY <1>3, <2>2 DEF Lack
    <3>3. Weight(tree', w) = Weight(tree, w) /\ h[w] = bh[w]
      <4>1. w \in T!Ptr
        BY <1>3, <2>2, KeyFacts
      <4> QED BY <1>6, <1>10, <2>2, <4>1 DEF Linked, Weight
    <3>4. c \in T!Ptr /\ c # key
      <4>1. Below(tree, sub, w, s)
        BY <1>2, <2>2, BelowNode
      <4> QED BY <1>4, <1>9, <4>1 DEF Below
    <3>5. h[tree'.kid[s][w]] = bh[c]
      <4>1. w \in T!Keys \ {key}
        BY <1>3, <2>2
      <4>2. CASE w = parent /\ s = a
        <5>1. tree'.kid[s][w] = key
          BY <1>6, <4>1, <4>2 DEF Linked
        <5>2. c = T!Null
          BY <1>3, <1>5, <2>2, <4>2
        <5> QED BY <1>9, <1>10, <5>1, <5>2
      <4>3. CASE ~(w = parent /\ s = a)
        <5>1. tree'.kid[s][w] = c
          BY <1>6, <4>1, <4>3 DEF Linked
        <5> QED BY <1>10, <3>4, <5>1
      <4> QED BY <4>2, <4>3
    <3> QED BY <3>1, <3>2, <3>3, <3>5
  <2> QED BY <2>1, <2>2
<1>12. \A w \in N \cup {key}, s \in T!Sides : Lack(tree', w, s, T!Null, node') = 0
  BY <1>3, <1>9 DEF Lack
<1>13. Height(tree', v, h, T!Null, node')
  BY <1>8, <1>10, <1>11, <1>12 DEF Height
<1>14. Reds(tree', v, key, T!Null)
  <2> SUFFICES ASSUME NEW w \in (N \cup {key}) \cap tree'.red,
                      tree'.up[w] \in tree'.red \cup {T!Null}, w # key
               PROVE  FALSE
    BY <1>8 DEF Reds
  <2>1. w \in N \cap tree.red /\ tree'.up[w] = tree.up[w] /\ tree'.red = tree.red \cup {key}
    BY <1>3, <1>6 DEF Linked
  <2>2. tree.up[w] # key
    BY <1>2, <1>4, <1>9, <2>1, UpFacts
  <2> QED BY <1>2, <1>3, <2>1, <2>2 DEF Reds
<1>15. key \in tree'.red
  BY <1>6 DEF Linked
<1> QED BY <1>1, <1>8, <1>13, <1>14, <1>15 DEF Sound

(* Only one pointer leads to a node.                                       *)
LEMMA OneParent ==
  ASSUME NEW t, NEW sub, Shape(t, sub), NEW x \in sub[t.root], NEW w \in sub[t.root],
         NEW s \in T!Sides, t.kid[s][w] = x
  PROVE  w = t.up[x] /\ x # t.root /\ t.kid[T!Other(s)][w] # x
<1>1. Below(t, sub, w, s) /\ x \in sub[x] /\ x # T!Null /\ w # T!Null
  BY BelowNode, SetsOfShape DEF Sets
<1>2. w = t.up[x]
  BY <1>1 DEF Below
<1>3. t.kid[T!Other(s)][w] # x
  BY <1>1 DEF Below
<1>4. x # t.root
  <2>1. t.root # T!Null => t.up[t.root] = T!Null
    BY DEF Shape
  <2> QED BY <1>1, <1>2, <2>1
<1> QED BY <1>2, <1>3, <1>4

(* A node x with at most one child c leaves: c takes its place.            *)
Spliced(t, u, N, x, c) ==
  /\ u \in T!Tree /\ u.red = t.red /\ u.root = IF x = t.root THEN c ELSE t.root
  /\ \A w \in N \ {x} :
       /\ \A s \in T!Sides : u.kid[s][w] = IF t.kid[s][w] = x THEN c ELSE t.kid[s][w]
       /\ u.up[w] = IF w = c THEN t.up[x] ELSE t.up[w]

LEMMA SpliceTurns ==
  ASSUME NEW t, NEW sub, Shape(t, sub), NEW x \in sub[t.root], NEW c \in T!Ptr
  PROVE  LET q == t.up[x]
         IN  Spliced(t, T!Replace(T!SetParent(t, c, q), q, x, c), sub[t.root], x, c)
<1> DEFINE q == t.up[x]
           t1 == T!SetParent(t, c, q)
           u == T!Replace(t1, q, x, c)
           N == sub[t.root]
<1>1. t \in T!Tree /\ q \in T!Ptr /\ N \subseteq T!Keys
  BY SetsOfShape, Fields DEF Sets
<1>2. ParentSet(t, t1, c, q)
  BY <1>1, SetParentFacts
<1> HIDE DEF t1
<1>3. /\ q = T!Null <=> x = t.root
      /\ q # T!Null => \E s \in T!Sides : t.kid[s][q] = x /\ t.kid[T!Other(s)][q] # x
  <2>1. q = T!Null <=> x = t.root
    BY UpFacts
  <2>2. ASSUME q # T!Null PROVE \E s \in T!Sides : t.kid[s][q] = x /\ t.kid[T!Other(s)][q] # x
    <3>1. q \in N /\ \E s \in T!Sides : t.kid[s][q] = x
      BY <2>1, <2>2, UpFacts
    <3> QED BY <3>1, UpFacts
  <2> QED BY <2>1, <2>2
<1>4. \A w \in N, s \in T!Sides : t.kid[s][w] = x => w = q
  BY OneParent
<1> HIDE DEF q
<1>5. Replaced(t1, u, q, x, c)
  <2>1. t1 \in T!Tree /\ t1.kid = t.kid
    BY <1>2 DEF ParentSet
  <2>2. q = T!Null \/ \E s \in T!Sides : t1.kid[s][q] = x /\ t1.kid[T!Other(s)][q] # x
    BY <1>3, <2>1
  <2> QED BY <1>1, <2>1, <2>2, ReplaceFacts
<1> HIDE DEF u
<1>6. /\ t1.root = t.root /\ t1.kid = t.kid /\ t1.red = t.red
      /\ \A k \in T!Keys : t1.up[k] = IF k = c THEN q ELSE t.up[k]
  BY <1>2 DEF ParentSet
<1>7. /\ u \in T!Tree /\ u.red = t.red /\ u.root = IF x = t.root THEN c ELSE t.root
  BY <1>3, <1>5, <1>6 DEF Replaced
<1>8. ASSUME NEW w \in N \ {x}
      PROVE  /\ \A s \in T!Sides : u.kid[s][w] = IF t.kid[s][w] = x THEN c ELSE t.kid[s][w]
             /\ u.up[w] = IF w = c THEN q ELSE t.up[w]
  <2>1. w \in T!Keys
    BY <1>1
  <2> QED BY <1>4, <1>5, <1>6, <2>1 DEF Replaced
<1> QED BY <1>7, <1>8 DEF Spliced, q, u, t1

SplicedSub(sub, x) == [w \in T!Ptr |-> sub[w] \ {x}]

LEMMA SpliceShape ==
  ASSUME NEW t, NEW sub, Shape(t, sub), NEW x \in sub[t.root], NEW s \in T!Sides,
         t.kid[s][x] = T!Null, NEW c, c = t.kid[T!Other(s)][x],
         NEW u, Spliced(t, u, sub[t.root], x, c), NEW v, v = SplicedSub(sub, x)
  PROVE  Shape(u, v) /\ v[u.root] = sub[t.root] \ {x}
<1> DEFINE N == sub[t.root]
           q == t.up[x]
<1>1. /\ t \in T!Tree /\ sub \in [T!Ptr -> SUBSET T!Keys] /\ sub[T!Null] = {}
      /\ N \subseteq T!Keys /\ T!Null \notin N /\ T!Null \in T!Ptr /\ T!Keys \subseteq T!Ptr
      /\ \A w \in N : w \in sub[w] /\ sub[w] \subseteq N
  BY SetsOfShape, KeyFacts DEF Sets
<1>2. v \in [T!Ptr -> SUBSET T!Keys] /\ \A w \in T!Ptr : v[w] = sub[w] \ {x}
  BY <1>1 DEF SplicedSub
<1>3. /\ T!Other(s) \in T!Sides /\ T!Other(T!Other(s)) = s /\ c \in T!Ptr /\ x # T!Null
      /\ sub[c] = sub[x] \ {x} /\ x \notin sub[c] /\ sub[c] \subseteq N
      /\ c # T!Null => c \in N /\ t.up[c] = x /\ c # x
  <2>1. T!Other(s) \in T!Sides /\ T!Other(T!Other(s)) = s
    BY SideFacts
  <2>2. Below(t, sub, x, T!Other(s))
    BY <2>1, BelowNode
  <2>3. sub[x] = {x} \cup sub[c] /\ x \notin sub[c]
    BY <1>1, <2>1, <2>2 DEF Below
  <2>4. c \in T!Ptr /\ (c # T!Null => c \in N /\ t.up[c] = x /\ c # x)
    BY <2>2 DEF Below
  <2> QED BY <1>1, <2>1, <2>3, <2>4
<1>4. v[c] = sub[c] /\ v[T!Null] = {}
  BY <1>1, <1>2, <1>3
<1>5. /\ v[u.root] = N \ {x} /\ (u.root # T!Null => u.root \in N \ {x})
      /\ u.root # T!Null => u.up[u.root] = T!Null
  <2>1. t.root \in N /\ t.up[t.root] = T!Null /\ (x = t.root <=> q = T!Null)
    BY UpFacts DEF Shape
  <2>2. CASE x = t.root
    <3>1. u.root = c
      BY <2>2 DEF Spliced
    <3>2. c # T!Null => u.up[c] = q
      BY <1>3 DEF Spliced
    <3> QED BY <1>3, <1>4, <2>1, <2>2, <3>1, <3>2
  <2>3. CASE x # t.root
    <3>1. u.root = t.root
      BY <2>3 DEF Spliced
    <3>2. t.root # c
      <4>1. c # T!Null => t.up[c] # T!Null
        BY <1>3
      <4> QED BY <1>1, <2>1, <4>1
    <3>3. u.up[t.root] = T!Null
      BY <2>1, <2>3, <3>2 DEF Spliced
    <3> QED BY <1>1, <1>2, <2>1, <2>3, <3>1, <3>3
  <2> QED BY <2>2, <2>3
<1>6. ASSUME NEW w \in N \ {x} PROVE Node(u, v, w)
  <2>1. v[w] = sub[w] \ {x} /\ w \in sub[w] /\ sub[w] \subseteq N /\ Node(t, sub, w)
    BY <1>1, <1>2 DEF Shape
  <2>2. ASSUME NEW a \in T!Sides
        PROVE  /\ u.kid[a][w] # T!Null => u.kid[a][w] \in N \ {x} /\ u.up[u.kid[a][w]] = w
               /\ v[u.kid[a][w]] = sub[t.kid[a][w]] \ {x}
    <3> DEFINE d == t.kid[a][w]
    <3>1. d \in T!Ptr /\ (d # T!Null => d \in N /\ t.up[d] = w)
      BY BelowNode DEF Below
    <3>2. CASE d = x
      <4>1. u.kid[a][w] = c /\ w = q
        BY <1>3, <3>1, <3>2 DEF Spliced
      <4>2. c # T!Null => u.up[c] = w
        BY <1>3, <4>1 DEF Spliced
      <4> QED BY <1>3, <1>4, <3>2, <4>1, <4>2
    <3>3. CASE d # x
      <4>1. u.kid[a][w] = d
        BY <3>3 DEF Spliced
      <4>2. d # T!Null => d # c
        BY <1>3, <3>1
      <4>3. d # T!Null => u.up[d] = w
        BY <3>1, <3>3, <4>2 DEF Spliced
      <4> QED BY <1>2, <3>1, <3>3, <4>1, <4>3
    <3> QED BY <3>2, <3>3
  <2>3. \A k : k \in v[w] <=> k = w \/ \E a \in T!Sides : k \in v[u.kid[a][w]]
    <3>1. \A k : k \in sub[w] <=> k = w \/ \E a \in T!Sides : k \in sub[t.kid[a][w]]
      BY <2>1 DEF Node
    <3>2. \A a \in T!Sides : v[u.kid[a][w]] = sub[t.kid[a][w]] \ {x}
      BY <2>2
    <3> QED BY <2>1, <3>1, <3>2
  <2>4. ASSUME NEW a \in T!Sides, NEW k \in v[u.kid[a][w]] PROVE Toward(a, k, w)
    BY <2>1, <2>2, <2>4 DEF Node
  <2> QED BY <1>5, <2>1, <2>2, <2>3, <2>4 DEF Node
<1> QED BY <1>2, <1>4, <1>5, <1>6 DEF Shape, Spliced

(* A red node leaves nothing behind, a black one is missing.               *)
LEMMA SpliceSound ==
  ASSUME NEW t, NEW sub, NEW bh, Shape(t, sub), Height(t, sub, bh, T!Null, T!Null),
         Reds(t, sub, T!Null, T!Null), NEW x \in sub[t.root], NEW s \in T!Sides,
         t.kid[s][x] = T!Null, NEW c, c = t.kid[T!Other(s)][x],
         NEW u, Spliced(t, u, sub[t.root], x, c), NEW v, v = SplicedSub(sub, x)
  PROVE  LET q == t.up[x] IN
         /\ Shape(u, v) /\ v[u.root] = sub[t.root] \ {x}
         /\ x \in t.red => Height(u, v, bh, T!Null, T!Null) /\ Reds(u, v, T!Null, T!Null)
         /\ x \notin t.red => Height(u, v, bh, q, c) /\ Reds(u, v, c, c)
         /\ x \notin t.red /\ c # u.root => Sibling(u, v, c, q)
<1> DEFINE N == sub[t.root]
           q == t.up[x]
           o == T!Other(s)
           p == IF x \in t.red THEN T!Null ELSE q
<1>1. Shape(u, v) /\ v[u.root] = N \ {x}
  BY SpliceShape
<1>2. /\ N \subseteq T!Keys /\ T!Null \notin N /\ x # T!Null /\ o \in T!Sides
      /\ q \notin sub[x] /\ x \in sub[x]
      /\ \A w \in N : w \in sub[w]
  BY SetsOfShape, SideFacts, UpFacts DEF Sets
<1>3. /\ c \in T!Ptr /\ (c # T!Null => c \in N /\ t.up[c] = x)
      /\ \A w \in N, a \in T!Sides :
           t.kid[a][w] \in T!Ptr /\ (t.kid[a][w] # T!Null => t.up[t.kid[a][w]] = w)
  <2>1. Below(t, sub, x, o) /\ \A w \in N, a \in T!Sides : Below(t, sub, w, a)
    BY <1>2, BelowNode
  <2> QED BY <2>1 DEF Below
<1>4. bh \in [T!Ptr -> Nat] /\ bh[T!Null] = 0
  BY DEF Height
<1>5. \A w \in N, a \in T!Sides : bh[w] = bh[t.kid[a][w]] + 0 + Weight(t, w)
  <2>1. \A w \in N, a \in T!Sides : Lack(t, w, a, T!Null, T!Null) = 0
    BY <1>2 DEF Lack
  <2> QED BY <2>1 DEF Height
<1>6. bh[x] = bh[c] + 0 + Weight(t, x) /\ bh[x] \in Nat /\ bh[c] \in Nat
  <2>1. x \in T!Ptr
    BY <1>2, KeyFacts
  <2> QED BY <1>2, <1>3, <1>4, <1>5, <2>1
<1> HIDE DEF o
<1>7. ASSUME NEW w \in N \ {x}, NEW a \in T!Sides
      PROVE  bh[w] = bh[u.kid[a][w]] + Lack(u, w, a, p, c) + Weight(u, w)
  <2> DEFINE d == t.kid[a][w]
  <2>1. Weight(u, w) = Weight(t, w) /\ Weight(t, w) \in Nat
    BY DEF Spliced, Weight
  <2>2. bh[w] = bh[d] + 0 + Weight(t, w)
    BY <1>5
  <2>3. CASE d = x
    <3>1. u.kid[a][w] = c /\ w = q
      BY <1>2, <1>3, <2>3 DEF Spliced
    <3>2. Lack(u, w, a, p, c) = IF x \in t.red THEN 0 ELSE 1
      BY <1>2, <3>1 DEF Lack
    <3>3. Lack(u, w, a, p, c) = Weight(t, x) /\ Weight(t, x) \in Nat
      BY <3>2 DEF Weight
    <3>4. bh[u.kid[a][w]] = bh[c] /\ bh[d] = bh[x]
      BY <2>3, <3>1
    <3> HIDE DEF d, p
    <3> QED BY <1>6, <2>1, <2>2, <3>3, <3>4
  <2>4. CASE d # x
    <3>1. u.kid[a][w] = d
      BY <2>4 DEF Spliced
    <3>2. Lack(u, w, a, p, c) = 0
      <4> SUFFICES ASSUME w = p, d = c PROVE FALSE
        BY <3>1 DEF Lack
      <4>1. w = q /\ x \notin t.red
        BY <1>2
      <4>2. c = T!Null
        BY <1>2, <1>3, <2>4, <4>1
      <4>3. bh[x] = 1 /\ bh[w] = 0 + 0 + Weight(t, w)
        BY <1>4, <1>6, <2>2, <4>1, <4>2 DEF Weight
      <4>4. \E b \in T!Sides : t.kid[b][w] = x
        <5>1. q # T!Null
          BY <1>2, <4>1
        <5>2. x # t.root
          BY <5>1, UpFacts
        <5> QED BY <4>1, <5>2, UpFacts
      <4>5. bh[w] = 1 + 0 + Weight(t, w)
        BY <1>5, <4>3, <4>4
      <4> QED BY <2>1, <4>3, <4>5
    <3> QED BY <2>1, <2>2, <3>1, <3>2
  <2> QED BY <2>3, <2>4
<1>8. Height(u, v, bh, p, c)
  BY <1>1, <1>4, <1>7 DEF Height
<1>9. ASSUME NEW w \in (N \ {x}) \cap u.red, u.up[w] \in u.red \cup {T!Null}
      PROVE  w = c /\ x \notin t.red
  <2>1. w \in t.red /\ u.red = t.red
    BY DEF Spliced
  <2>2. w = c
    <3> SUFFICES ASSUME w # c PROVE FALSE
      OBVIOUS
    <3>1. u.up[w] = t.up[w]
      BY DEF Spliced
    <3> QED BY <1>2, <1>9, <2>1, <3>1 DEF Reds
  <2>3. x \notin t.red
    <3>1. t.up[w] = x
      BY <1>2, <1>3, <2>2
    <3> QED BY <1>2, <2>1, <3>1 DEF Reds
  <2> QED BY <2>2, <2>3
<1>10. ASSUME x \notin t.red, c # u.root PROVE Sibling(u, v, c, q)
  <2>1. x # t.root
    BY <1>10 DEF Spliced
  <2>2. q \in N /\ \E a \in T!Sides : t.kid[a][q] = x
    BY <2>1, UpFacts
  <2>3. PICK a \in T!Sides : t.kid[a][q] = x
    BY <2>2
  <2>4. q # x /\ t.kid[T!Other(a)][q] # x /\ T!Other(a) \in T!Sides
    <3>1. \A w \in N, b \in T!Sides : t.kid[b][w] = x => t.kid[T!Other(b)][w] # x
      BY OneParent
    <3> QED BY <1>2, <2>2, <2>3, <3>1, SideFacts
  <2>5. u.kid[a][q] = c /\ u.kid[T!Other(a)][q] = t.kid[T!Other(a)][q]
    BY <2>2, <2>3, <2>4 DEF Spliced
  <2> DEFINE d == t.kid[T!Other(a)][q]
  <2>6. bh[q] = bh[x] + 0 + Weight(t, q) /\ bh[q] = bh[d] + 0 + Weight(t, q)
    BY <1>5, <2>2, <2>3, <2>4
  <2>7. d \in T!Ptr /\ Weight(t, q) \in Nat /\ Weight(t, x) = 1
    BY <1>3, <1>10, <2>2, <2>4 DEF Weight
  <2> HIDE DEF d, q
  <2>8. bh[d] # 0
    BY <1>4, <1>6, <2>6, <2>7
  <2>9. d # T!Null
    BY <1>4, <2>8
  <2> QED BY <1>1, <2>2, <2>4, <2>5, <2>9 DEF Sibling, d
<1>11. CASE x \in t.red
  <2>1. Height(u, v, bh, T!Null, T!Null)
    BY <1>1, <1>8, <1>11, NoLack
  <2>2. Reds(u, v, T!Null, T!Null)
    BY <1>1, <1>9, <1>11 DEF Reds
  <2> QED BY <1>1, <1>11, <2>1, <2>2
<1>12. CASE x \notin t.red
  <2>1. Reds(u, v, c, c)
    BY <1>1, <1>9 DEF Reds
  <2> QED BY <1>1, <1>8, <1>10, <1>12, <2>1
<1> QED BY <1>11, <1>12

(* A node n takes the place and the colour of x.                           *)
Substituted(t, u, N, x, n) ==
  /\ u \in T!Tree /\ u.root = IF t.root = x THEN n ELSE t.root
  /\ u.up[n] = t.up[x] /\ (n \in u.red <=> x \in t.red)
  /\ \A s \in T!Sides : u.kid[s][n] = t.kid[s][x]
  /\ \A w \in N \ {x} :
       /\ \A s \in T!Sides : u.kid[s][w] = IF t.kid[s][w] = x THEN n ELSE t.kid[s][w]
       /\ u.up[w] = IF t.up[w] = x THEN n ELSE t.up[w]
       /\ w \in u.red <=> w \in t.red

Fits(t, sub, x, n) ==
  /\ \A s \in T!Sides : \A k \in sub[t.kid[s][x]] : Toward(s, k, n)
  /\ \A s \in T!Sides, w \in sub[t.root] : x \in sub[t.kid[s][w]] => Toward(s, n, w)

Moved(S, x, n) == IF x \in S THEN (S \ {x}) \cup {n} ELSE S

SubstitutedSub(sub, x, n) ==
  [w \in T!Ptr |-> Moved(IF w = n THEN sub[x] ELSE sub[w], x, n)]

LEMMA SubstituteShape ==
  ASSUME NEW t, NEW sub, Shape(t, sub), NEW x \in sub[t.root], NEW n \in T!Keys \ sub[t.root],
         Fits(t, sub, x, n), NEW u, Substituted(t, u, sub[t.root], x, n),
         NEW v, v = SubstitutedSub(sub, x, n)
  PROVE  Shape(u, v) /\ v[u.root] = (sub[t.root] \ {x}) \cup {n}
<1> DEFINE N == sub[t.root]
           M == (N \ {x}) \cup {n}
<1>1. /\ t \in T!Tree /\ sub \in [T!Ptr -> SUBSET T!Keys] /\ sub[T!Null] = {}
      /\ N \subseteq T!Keys /\ T!Null \notin N /\ T!Null \in T!Ptr /\ T!Keys \subseteq T!Ptr
      /\ n # T!Null /\ n \in T!Ptr /\ x \in T!Ptr /\ x \in N
      /\ \A w \in N : w \in sub[w] /\ sub[w] \subseteq N
  BY SetsOfShape, KeyFacts DEF Sets
<1>2. /\ v \in [T!Ptr -> SUBSET T!Keys] /\ v[T!Null] = {}
      /\ v[n] = (sub[x] \ {x}) \cup {n}
      /\ \A w \in N : v[w] = Moved(sub[w], x, n)
  <2>1. \A S \in SUBSET T!Keys : Moved(S, x, n) \in SUBSET T!Keys
    BY DEF Moved
  <2>2. /\ v \in [T!Ptr -> SUBSET T!Keys]
        /\ \A w \in T!Ptr : v[w] = Moved(IF w = n THEN sub[x] ELSE sub[w], x, n)
    BY <1>1, <2>1 DEF SubstitutedSub
  <2>3. v[T!Null] = {}
    BY <1>1, <2>2 DEF Moved
  <2>4. v[n] = (sub[x] \ {x}) \cup {n}
    BY <1>1, <2>2 DEF Moved
  <2> QED BY <1>1, <2>2, <2>3, <2>4
<1>3. /\ v[u.root] = M /\ u.root \in M /\ u.up[u.root] = T!Null
  <2>1. t.root \in N /\ t.up[t.root] = T!Null
    BY UpFacts DEF Shape
  <2>2. CASE x = t.root
    BY <1>2, <2>1, <2>2 DEF Substituted
  <2>3. CASE x # t.root
    <3>1. u.root = t.root /\ u.up[t.root] = T!Null
      BY <1>1, <2>1, <2>3 DEF Substituted
    <3> QED BY <1>2, <2>1, <2>3, <3>1 DEF Moved
  <2> QED BY <2>2, <2>3
<1>4. ASSUME NEW w \in N, NEW s \in T!Sides
      PROVE  LET d == t.kid[s][w]
                 e == IF d = x THEN n ELSE d
             IN  /\ e # T!Null => e \in M
                 /\ e # T!Null => u.up[e] = IF w = x THEN n ELSE w
                 /\ v[e] = Moved(sub[d], x, n)
                 /\ w = x => v[e] = sub[d] /\ d # x
  <2> DEFINE d == t.kid[s][w]
  <2>1. d \in T!Ptr /\ (d # T!Null => d \in N /\ t.up[d] = w) /\ (w = x => x \notin sub[d])
    BY BelowNode DEF Below
  <2>2. w = x => d # x
    <3>1. x \in sub[x]
      BY <1>1
    <3> QED BY <2>1, <3>1
  <2>3. CASE d = x
    <3>1. t.up[x] = w /\ w # x /\ u.up[n] = w
      BY <1>1, <2>1, <2>2, <2>3 DEF Substituted
    <3>2. v[n] = Moved(sub[d], x, n)
      BY <1>1, <1>2, <2>3 DEF Moved
    <3> QED BY <2>3, <3>1, <3>2
  <2>4. CASE d # x
    <3>1. d # T!Null => d \in M
      BY <2>1, <2>4
    <3>2. d # T!Null => u.up[d] = IF w = x THEN n ELSE w
      BY <2>1, <2>4 DEF Substituted
    <3>3. v[d] = Moved(sub[d], x, n)
      BY <1>1, <1>2, <2>1 DEF Moved
    <3>4. w = x => v[d] = sub[d]
      BY <2>1, <3>3 DEF Moved
    <3> QED BY <2>2, <2>4, <3>1, <3>2, <3>3, <3>4
  <2> QED BY <2>3, <2>4
<1>5. ASSUME NEW w \in N
      PROVE  /\ \A k : k \in sub[w] <=> k = w \/ \E s \in T!Sides : k \in sub[t.kid[s][w]]
             /\ \A s \in T!Sides : \A k \in sub[t.kid[s][w]] : Toward(s, k, w)
  BY DEF Shape, Node
<1>6. Node(u, v, n)
  <2>1. ASSUME NEW s \in T!Sides
        PROVE  /\ u.kid[s][n] # T!Null => u.kid[s][n] \in M /\ u.up[u.kid[s][n]] = n
               /\ v[u.kid[s][n]] = sub[t.kid[s][x]]
    <3> DEFINE d == t.kid[s][x]
    <3>1. u.kid[s][n] = d
      BY DEF Substituted
    <3>2. d # x
      BY <1>4
    <3>3. (d # T!Null => d \in M /\ u.up[d] = n) /\ v[d] = sub[d]
      BY <1>4, <3>2
    <3> HIDE DEF d
    <3> QED BY <3>1, <3>3 DEF d
  <2>2. \A k : k \in v[n] <=> k = n \/ \E s \in T!Sides : k \in v[u.kid[s][n]]
    <3>1. \A s \in T!Sides : x \notin sub[t.kid[s][x]]
      BY BelowNode DEF Below
    <3>2. \A k : k \in sub[x] <=> k = x \/ \E s \in T!Sides : k \in sub[t.kid[s][x]]
      BY <1>5
    <3>3. \A s \in T!Sides : v[u.kid[s][n]] = sub[t.kid[s][x]]
      BY <2>1
    <3> QED BY <1>2, <3>1, <3>2, <3>3
  <2>3. ASSUME NEW s \in T!Sides, NEW k \in v[u.kid[s][n]] PROVE Toward(s, k, n)
    <3>1. k \in sub[t.kid[s][x]]
      BY <2>1, <2>3
    <3> QED BY <3>1 DEF Fits
  <2>4. v[n] \subseteq M
    <3>1. sub[x] \subseteq N
      BY <1>1
    <3> QED BY <1>2, <3>1
  <2> QED BY <1>3, <2>1, <2>2, <2>3, <2>4 DEF Node
<1>7. ASSUME NEW w \in N \ {x} PROVE Node(u, v, w)
  <2>1. ASSUME NEW s \in T!Sides
        PROVE  /\ u.kid[s][w] # T!Null => u.kid[s][w] \in M /\ u.up[u.kid[s][w]] = w
               /\ v[u.kid[s][w]] = Moved(sub[t.kid[s][w]], x, n)
    <3> DEFINE d == t.kid[s][w]
               e == IF d = x THEN n ELSE d
    <3>1. u.kid[s][w] = e
      BY DEF Substituted
    <3>2. (e # T!Null => e \in M /\ u.up[e] = w) /\ v[e] = Moved(sub[d], x, n)
      BY <1>4
    <3> HIDE DEF d, e
    <3> QED BY <3>1, <3>2 DEF d
  <2>2. v[w] = Moved(sub[w], x, n) /\ sub[w] \subseteq N /\ w \in sub[w] /\ n \notin N /\ w # x
    BY <1>1, <1>2
  <2>3. \A s \in T!Sides : sub[t.kid[s][w]] \subseteq sub[w]
    BY BelowNode DEF Below
  <2>4. \A k : k \in v[w] <=> k = w \/ \E s \in T!Sides : k \in v[u.kid[s][w]]
    <3>1. ASSUME NEW k
          PROVE  k \in sub[w] <=> k = w \/ \E s \in T!Sides : k \in sub[t.kid[s][w]]
      BY <1>5
    <3>2. \A s \in T!Sides : v[u.kid[s][w]] = Moved(sub[t.kid[s][w]], x, n)
      BY <2>1
    <3>3. ASSUME NEW k, k # x, k # n
          PROVE  k \in v[w] <=> k = w \/ \E s \in T!Sides : k \in v[u.kid[s][w]]
      <4>1. \A S : k \in Moved(S, x, n) <=> k \in S
        BY <3>3 DEF Moved
      <4> QED BY <2>2, <3>1, <3>2, <4>1
    <3>4. n \in v[w] <=> \E s \in T!Sides : n \in v[u.kid[s][w]]
      <4>1. \A S \in SUBSET N : n \in Moved(S, x, n) <=> x \in S
        BY <2>2 DEF Moved
      <4>2. n \in v[w] <=> x \in sub[w]
        BY <2>2, <4>1
      <4>3. \A s \in T!Sides : n \in v[u.kid[s][w]] <=> x \in sub[t.kid[s][w]]
        BY <2>2, <2>3, <3>2, <4>1
      <4>4. x \in sub[w] <=> \E s \in T!Sides : x \in sub[t.kid[s][w]]
        BY <2>2, <3>1
      <4> QED BY <4>2, <4>3, <4>4
    <3>5. x \notin v[w] /\ \A s \in T!Sides : x \notin v[u.kid[s][w]]
      <4>1. \A S : x \notin Moved(S, x, n)
        BY <1>1 DEF Moved
      <4> QED BY <2>2, <3>2, <4>1
    <3> QED BY <2>2, <3>3, <3>4, <3>5
  <2>5. ASSUME NEW s \in T!Sides, NEW k \in v[u.kid[s][w]] PROVE Toward(s, k, w)
    <3>1. k \in Moved(sub[t.kid[s][w]], x, n)
      BY <2>1, <2>5
    <3>2. CASE x \in sub[t.kid[s][w]] /\ k = n
      BY <3>2 DEF Fits
    <3>3. CASE k \in sub[t.kid[s][w]]
      BY <1>5, <3>3
    <3> QED BY <3>1, <3>2, <3>3 DEF Moved
  <2>6. v[w] \subseteq M
    BY <2>2 DEF Moved
  <2> QED BY <1>3, <2>1, <2>4, <2>5, <2>6 DEF Node
<1>8. u \in T!Tree
  BY DEF Substituted
<1> QED BY <1>2, <1>3, <1>6, <1>7, <1>8 DEF Shape

LEMMA SubstituteHeight ==
  ASSUME NEW t, NEW sub, Shape(t, sub), NEW x \in sub[t.root], NEW n \in T!Keys \ sub[t.root],
         NEW u, Substituted(t, u, sub[t.root], x, n),
         NEW v, v[u.root] = (sub[t.root] \ {x}) \cup {n},
         NEW bh, NEW p, NEW c, Height(t, sub, bh, p, c), c # x, c # n, p # n
  PROVE  \E h : Height(u, v, h, IF p = x THEN n ELSE p, c)
<1> DEFINE N == sub[t.root]
           q == IF p = x THEN n ELSE p
           h == [bh EXCEPT ![n] = bh[x]]
<1>1. /\ N \subseteq T!Keys /\ T!Null \notin N /\ T!Null \in T!Ptr /\ T!Keys \subseteq T!Ptr
      /\ n # T!Null /\ n \in T!Ptr /\ x \in T!Ptr /\ n \notin N
      /\ bh \in [T!Ptr -> Nat] /\ bh[T!Null] = 0
  BY SetsOfShape, KeyFacts DEF Sets, Height
<1>2. /\ h \in [T!Ptr -> Nat] /\ h[T!Null] = 0 /\ h[n] = bh[x]
      /\ \A w \in T!Ptr : w # n => h[w] = bh[w]
  <2>1. bh[x] \in Nat
    BY <1>1
  <2> QED BY <1>1, <2>1
<1> HIDE DEF h
<1>3. ASSUME NEW w \in N, NEW s \in T!Sides
      PROVE  LET d == t.kid[s][w]
                 e == IF d = x THEN n ELSE d
             IN  bh[w] = bh[d] + Lack(t, w, s, p, c) + Weight(t, w) /\ h[e] = bh[d] /\ (e = c <=> d = c)
                 /\ (w = x => d # x)
  <2> DEFINE d == t.kid[s][w]
  <2>1. bh[w] = bh[d] + Lack(t, w, s, p, c) + Weight(t, w)
    BY DEF Height
  <2>2. Below(t, sub, w, s) /\ w \in sub[w]
    BY BelowNode, SetsOfShape DEF Sets
  <2>3. d \in T!Ptr /\ (d # T!Null => d \in N) /\ (w = x => d # x)
    BY <2>2 DEF Below
  <2> HIDE DEF d
  <2>4. d # n
    BY <1>1, <2>3
  <2> QED BY <1>2, <2>1, <2>3, <2>4 DEF d
<1>4. ASSUME NEW w \in N \ {x}, NEW s \in T!Sides
      PROVE  h[w] = h[u.kid[s][w]] + Lack(u, w, s, q, c) + Weight(u, w)
  <2> DEFINE d == t.kid[s][w]
             e == IF d = x THEN n ELSE d
  <2>1. bh[w] = bh[d] + Lack(t, w, s, p, c) + Weight(t, w) /\ h[e] = bh[d] /\ (e = c <=> d = c)
    BY <1>3
  <2>2. u.kid[s][w] = e /\ Weight(u, w) = Weight(t, w)
    BY DEF Substituted, Weight
  <2>3. Lack(u, w, s, q, c) = Lack(t, w, s, p, c)
    BY <1>1, <2>1, <2>2 DEF Lack
  <2>4. h[w] = bh[w]
    BY <1>1, <1>2
  <2> HIDE DEF d, e
  <2> QED BY <2>1, <2>2, <2>3, <2>4
<1>5. ASSUME NEW s \in T!Sides
      PROVE  h[n] = h[u.kid[s][n]] + Lack(u, n, s, q, c) + Weight(u, n)
  <2> DEFINE d == t.kid[s][x]
             e == IF d = x THEN n ELSE d
  <2>1. bh[x] = bh[d] + Lack(t, x, s, p, c) + Weight(t, x) /\ h[e] = bh[d] /\ d # x
    BY <1>3
  <2>2. u.kid[s][n] = d /\ Weight(u, n) = Weight(t, x) /\ e = d
    BY <2>1 DEF Substituted, Weight
  <2>3. Lack(u, n, s, q, c) = Lack(t, x, s, p, c)
    BY <1>1, <2>2 DEF Lack
  <2> HIDE DEF d, e
  <2> QED BY <1>2, <2>1, <2>2, <2>3
<1>6. \A w \in v[u.root], s \in T!Sides : h[w] = h[u.kid[s][w]] + Lack(u, w, s, q, c) + Weight(u, w)
  BY <1>4, <1>5
<1> QED BY <1>2, <1>6 DEF Height

LEMMA SubstituteReds ==
  ASSUME NEW t, NEW sub, Shape(t, sub), NEW x \in sub[t.root], NEW n \in T!Keys \ sub[t.root],
         NEW u, Substituted(t, u, sub[t.root], x, n),
         NEW v, v[u.root] = (sub[t.root] \ {x}) \cup {n},
         NEW c, Reds(t, sub, c, c), c # x, c # n
  PROVE  Reds(u, v, c, c)
<1> DEFINE N == sub[t.root]
<1>1. /\ T!Null \notin N /\ n # T!Null /\ n \notin N /\ x # T!Null
      /\ \A w \in N : t.up[w] = T!Null \/ (t.up[w] \in N /\ t.up[w] # w)
  <2>1. T!Null \notin N /\ n # T!Null /\ x # T!Null
    BY SetsOfShape, KeyFacts DEF Sets
  <2>2. ASSUME NEW w \in N, t.up[w] # T!Null PROVE t.up[w] \in N /\ t.up[w] # w
    <3>1. t.up[w] \notin sub[w] /\ w \in sub[w]
      BY UpFacts, SetsOfShape DEF Sets
    <3>2. t.up[w] \in N
      BY <2>2, UpFacts
    <3> QED BY <3>1, <3>2
  <2> QED BY <2>1, <2>2
<1>2. ASSUME NEW w \in N
      PROVE  t.up[w] # x => (t.up[w] \in u.red <=> t.up[w] \in t.red) \/ t.up[w] = T!Null
  BY <1>1 DEF Substituted
<1>3. ASSUME NEW w \in (N \ {x}) \cap u.red, u.up[w] \in u.red \cup {T!Null}
      PROVE  w = c \/ (u.up[w] = c /\ c # T!Null)
  <2>1. w \in t.red /\ u.up[w] = IF t.up[w] = x THEN n ELSE t.up[w]
    BY DEF Substituted
  <2>2. t.up[w] \in t.red \cup {T!Null}
    <3>1. CASE t.up[w] = x
      BY <1>1, <1>3, <2>1, <3>1 DEF Substituted
    <3>2. CASE t.up[w] # x
      BY <1>2, <1>3, <2>1, <3>2
    <3> QED BY <3>1, <3>2
  <2>3. w = c \/ (t.up[w] = c /\ c # T!Null)
    BY <2>1, <2>2 DEF Reds
  <2> QED BY <2>1, <2>3
<1>4. ASSUME n \in u.red, u.up[n] \in u.red \cup {T!Null} PROVE u.up[n] = c /\ c # T!Null
  <2>1. x \in t.red /\ u.up[n] = t.up[x]
    BY <1>4 DEF Substituted
  <2>2. t.up[x] \in t.red \cup {T!Null}
    BY <1>1, <1>2, <1>4, <2>1
  <2> QED BY <2>1, <2>2 DEF Reds
<1> QED BY <1>3, <1>4 DEF Reds

LEMMA SubstituteSibling ==
  ASSUME NEW t, NEW sub, NEW x \in sub[t.root], NEW n \in T!Keys \ sub[t.root],
         NEW u, Substituted(t, u, sub[t.root], x, n),
         NEW v, v[u.root] = (sub[t.root] \ {x}) \cup {n},
         NEW p, NEW c, Sibling(t, sub, c, p), c # x, c # n
  PROVE  Sibling(u, v, c, IF p = x THEN n ELSE p)
<1> DEFINE q == IF p = x THEN n ELSE p
<1>1. n # T!Null /\ p \in sub[t.root]
  BY KeyFacts DEF Sibling
<1>2. PICK s \in T!Sides : t.kid[s][p] = c /\ t.kid[T!Other(s)][p] # T!Null
  BY DEF Sibling
<1>3. q \in v[u.root] /\ T!Other(s) \in T!Sides
  BY <1>1, SideFacts
<1>4. ASSUME NEW a \in T!Sides
      PROVE  /\ t.kid[a][p] = c => u.kid[a][q] = c
             /\ t.kid[a][p] # T!Null => u.kid[a][q] # T!Null
  BY <1>1 DEF Substituted
<1> QED BY <1>2, <1>3, <1>4 DEF Sibling

(* rb_erase frees a node that nothing leads to.                            *)
LEMMA FreedAlike ==
  ASSUME NEW t \in T!Tree, NEW x \in T!Keys, NEW N \in SUBSET T!Keys, x \notin N
  PROVE  Alike(t, T!Freed(t, x), N)
<1> DEFINE K == [s \in T!Sides |-> [t.kid[s] EXCEPT ![x] = T!Null]]
           U == [t.up EXCEPT ![x] = T!Null]
           u == [t EXCEPT !.up = U, !.red = t.red \ {x}, !.kid = K]
<1>1. T!Freed(t, x) = u
  BY DEF T!Freed, T!Tree
<1>2. /\ t.kid \in [T!Sides -> [T!Keys -> T!Ptr]] /\ t.up \in [T!Keys -> T!Ptr]
      /\ t.red \subseteq T!Keys /\ t.root \in T!Ptr /\ T!Null \in T!Ptr
  BY Fields, KeyFacts
<1>3. K \in [T!Sides -> [T!Keys -> T!Ptr]] /\ U \in [T!Keys -> T!Ptr]
  BY <1>2, SMTT(30)
<1>4. u \in T!Tree /\ u.root = t.root /\ u.kid = K /\ u.up = U /\ u.red = t.red \ {x}
  BY <1>2, <1>3 DEF T!Tree
<1>5. \A w \in N : /\ \A s \in T!Sides : K[s][w] = t.kid[s][w]
                   /\ U[w] = t.up[w] /\ (w \in t.red \ {x} <=> w \in t.red)
  BY <1>2
<1> HIDE DEF K, U, u
<1> QED BY <1>1, <1>4, <1>5 DEF Alike

(* What rb_erase leaves, with or without a call of __rb_erase_color.       *)
Erased(sub) ==
  \E v, h :
    /\ v[tree'.root] = sub[tree.root] \ {key} /\ node' \in T!Ptr /\ parent' \in T!Ptr
    /\ \/ /\ pc' = "erase_color"
          /\ Sound(tree', v, h, parent', node', node', node')
          /\ node' # tree'.root => Sibling(tree', v, node', parent')
       \/ pc' = "idle" /\ Sound(tree', v, h, T!Null, node', T!Null, T!Null)

LEMMA EraseAsSound ==
  ASSUME NEW sub, key \in T!Keys, NEW u, NEW v, NEW h, NEW black,
         NEW c \in T!Ptr, NEW p \in T!Ptr, Shape(u, v),
         v[u.root] = sub[tree.root] \ {key},
         black => /\ Height(u, v, h, p, c) /\ Reds(u, v, c, c)
                  /\ c # u.root => Sibling(u, v, c, p),
         ~black => Height(u, v, h, T!Null, T!Null) /\ Reds(u, v, T!Null, T!Null),
         T!EraseAs(u, black, c, p)
  PROVE  Erased(sub)
<1>1. tree' = T!Freed(u, key)
  BY DEF T!EraseAs
<1>2. u \in T!Tree /\ v[u.root] \in SUBSET T!Keys
  BY SetsOfShape DEF Sets
<1>3. Alike(u, tree', v[u.root])
  BY <1>1, <1>2, FreedAlike
<1>4. tree'.root = u.root
  BY <1>3 DEF Alike
<1>5. CASE black /\ pc' = "erase_color" /\ node' = c /\ parent' = p
  <2>1. Sound(u, v, h, p, c, c, c)
    BY <1>5 DEF Sound
  <2>2. Sound(tree', v, h, p, c, c, c)
    BY <1>3, <2>1, AlikeSound
  <2>3. Sibling(u, v, c, p) => Sibling(tree', v, c, p)
    BY <1>3, <1>4, SideFacts DEF Sibling, Alike
  <2> QED BY <1>4, <1>5, <2>2, <2>3 DEF Erased
<1>6. CASE ~black /\ T!Return
  <2>1. pc' = "idle" /\ node' \in T!Ptr /\ parent' \in T!Ptr
    BY <1>6, KeyFacts DEF T!Return
  <2>2. Sound(u, v, h, T!Null, node', T!Null, T!Null)
    BY <1>6, NoLack DEF Sound
  <2>3. Sound(tree', v, h, T!Null, node', T!Null, T!Null)
    BY <1>3, <2>2, AlikeSound
  <2> QED BY <1>4, <2>1, <2>3 DEF Erased
<1> QED BY <1>5, <1>6 DEF T!EraseAs

(* rb_erase of a node with at most one child.                              *)
LEMMA EraseOuterSound ==
  ASSUME NEW sub, NEW bh, Sound(tree, sub, bh, T!Null, node, T!Null, T!Null),
         node \in sub[tree.root], key = node, T!EraseOuter
  PROVE  Erased(sub)
<1> DEFINE x == node
           q == tree.up[x]
           c == IF tree.kid["left"][x] = T!Null THEN tree.kid["right"][x] ELSE tree.kid["left"][x]
           u == T!Replace(T!SetParent(tree, c, q), q, x, c)
           v == SplicedSub(sub, x)
<1>1. /\ Shape(tree, sub) /\ Height(tree, sub, bh, T!Null, T!Null)
      /\ Reds(tree, sub, T!Null, T!Null)
  BY NoLack DEF Sound
<1>2. PICK s \in T!Sides : tree.kid[s][x] = T!Null /\ c = tree.kid[T!Other(s)][x]
  <2>1. PICK s \in T!Sides : tree.kid[s][x] = T!Null
    BY DEF T!EraseOuter
  <2>2. CASE tree.kid["left"][x] = T!Null
    BY <2>2, KeyFacts
  <2>3. CASE tree.kid["left"][x] # T!Null
    <3>1. s = "right"
      BY <2>1, <2>3, KeyFacts
    <3>2. c = tree.kid[T!Other(s)][x]
      BY <2>3, <3>1, KeyFacts
    <3> QED BY <2>1, <3>2
  <2> QED BY <2>2, <2>3
<1>3. T!EraseAs(u, x \notin tree.red, c, q)
  BY DEF T!EraseOuter
<1>4. c \in T!Ptr /\ q \in T!Ptr /\ key \in T!Keys
  <2>1. Below(tree, sub, x, T!Other(s))
    BY <1>1, SideFacts, BelowNode
  <2>2. key \in T!Keys
    BY <1>1, SetsOfShape DEF Sets
  <2>3. q \in T!Ptr
    BY <1>1, SetsOfShape, Fields DEF Sets
  <2> QED BY <1>2, <2>1, <2>2, <2>3 DEF Below
<1> HIDE DEF c
<1>5. Spliced(tree, u, sub[tree.root], x, c)
  BY <1>1, <1>4, SpliceTurns
<1> HIDE DEF u, v
<1>6. /\ Shape(u, v) /\ v[u.root] = sub[tree.root] \ {x}
      /\ x \in tree.red => Height(u, v, bh, T!Null, T!Null) /\ Reds(u, v, T!Null, T!Null)
      /\ x \notin tree.red => Height(u, v, bh, q, c) /\ Reds(u, v, c, c)
      /\ x \notin tree.red /\ c # u.root => Sibling(u, v, c, q)
  BY <1>1, <1>2, <1>5, SpliceSound DEF v
<1> QED BY <1>3, <1>4, <1>6, EraseAsSound

(* rb_erase of a node x with two children l and r: n, the first node after *)
(* it, takes its place, and c that of n, below q.                          *)
Inner(t, sub, x, l, r, n, c, q) ==
  /\ l = t.kid["left"][x] /\ r = t.kid["right"][x] /\ l # T!Null /\ r # T!Null
  /\ c = t.kid["right"][n] /\ t.kid["left"][n] = T!Null /\ q = t.up[n]
  /\ x \in sub[t.root] /\ n \in sub[t.root] /\ n \in sub[x] /\ n # t.root /\ n # x
  /\ l \in sub[t.root] /\ r \in sub[t.root] /\ t.up[l] = x /\ t.up[r] = x /\ l # r
  /\ c \in T!Ptr /\ (c # T!Null => c \in sub[t.root] /\ t.up[c] = n)
  /\ c \notin {x, l, r, n} /\ l \notin {x, n} /\ r # x
  /\ q \in sub[t.root] /\ q \notin {n, l} /\ (q = x <=> r = n)
  /\ q # x => t.kid["left"][q] = n
  /\ t.up[x] \notin {x, n, l, r}
  /\ (\A k \in sub[r] \ {n} : Toward("right", k, n)) /\ Toward("left", x, n)
  /\ sub[c] \subseteq sub[n]

LEMMA InnerFacts ==
  ASSUME NEW t, NEW sub, Shape(t, sub), NEW x \in sub[t.root], NEW l, NEW r,
         l = t.kid["left"][x], r = t.kid["right"][x], l # T!Null, r # T!Null,
         NEW n, n = T!Outermost(t, r, "left")
  PROVE  Inner(t, sub, x, l, r, n, t.kid["right"][n], t.up[n])
<1> DEFINE c == t.kid["right"][n]
           q == t.up[n]
           N == sub[t.root]
<1>1. /\ "left" \in T!Sides /\ "right" \in T!Sides /\ T!Other("left") = "right" /\ T!Other("right") = "left"
  BY KeyFacts
<1>2. /\ T!Null \notin N /\ N \subseteq T!Keys
      /\ \A w \in N : w \in sub[w] /\ sub[w] \subseteq N
  BY SetsOfShape DEF Sets
<1>3. Below(t, sub, x, "left") /\ Below(t, sub, x, "right")
  BY <1>1, BelowNode, SMTT(30)
<1>4. /\ l \in N /\ r \in N /\ t.up[l] = x /\ t.up[r] = x /\ l # x /\ r # x
      /\ sub[l] \cap sub[r] = {} /\ sub[r] \subseteq sub[x] /\ x \notin sub[r] /\ x \notin sub[l]
      /\ \A k \in sub[r] : Toward("right", k, x)
  BY <1>1, <1>3 DEF Below
<1>5. l # r /\ l \in sub[l] /\ r \in sub[r] /\ l \notin sub[r] /\ r \notin sub[l]
  BY <1>2, <1>4
<1>6. Extreme(t, sub, r, "left", n)
  BY <1>1, <1>4, OutermostFacts
<1>7. n \in sub[r] /\ t.kid["left"][n] = T!Null /\ \A k \in sub[r] \ {n} : Toward("right", k, n)
  BY <1>1, <1>6 DEF Extreme
<1>8. n \in N /\ n # x /\ n # l /\ n \in sub[x]
  BY <1>2, <1>4, <1>5, <1>7
<1>9. Below(t, sub, n, "right")
  BY <1>1, <1>8, BelowNode, SMTT(30)
<1>10. /\ c \in T!Ptr /\ sub[c] \subseteq sub[n] /\ (c # T!Null => c \in N /\ t.up[c] = n /\ c # n)
  BY <1>9 DEF Below
<1>11. n # t.root /\ t.up[x] \notin sub[x] /\ l \in sub[x] /\ r \in sub[x] /\ x \in sub[x]
  <2>1. t.root \in N /\ \A w \in N, s \in T!Sides : t.kid[s][w] # t.root
    BY UpFacts, OneParent
  <2>2. t.root \notin sub[r]
    <3> SUFFICES ASSUME t.root \in sub[r] PROVE FALSE
      OBVIOUS
    <3>1. t.root # r
      BY <1>1, <2>1
    <3>2. t.up[t.root] \in sub[r]
      BY <1>4, <3>1, Inside
    <3>3. t.up[t.root] = T!Null
      BY <2>1, UpFacts
    <3> QED BY <1>2, <1>4, <3>2, <3>3
  <2>3. t.up[x] \notin sub[x]
    BY UpFacts, SMTT(30)
  <2>4. l \in sub[x] /\ r \in sub[x]
    BY <1>3, <1>5 DEF Below
  <2> QED BY <1>2, <1>7, <2>2, <2>3, <2>4
<1>12. c \notin {x, l, r, n}
  <2>1. CASE c = T!Null
    BY <1>2, <1>4, <1>8, <2>1
  <2>2. CASE c # T!Null
    <3>1. c # x
      <4>1. t.up[x] # n
        BY <1>8, <1>11, SMTT(30)
      <4> QED BY <1>10, <2>2, <4>1
    <3> QED BY <1>4, <1>8, <1>10, <2>2, <3>1
  <2> QED BY <2>1, <2>2
<1>13. /\ q \in N /\ q # n /\ \E a \in T!Sides : t.kid[a][q] = n
  <2>1. q \in N /\ \E a \in T!Sides : t.kid[a][q] = n
    BY <1>8, <1>11, UpFacts
  <2>2. q \notin sub[n]
    BY <1>8, UpFacts
  <2> QED BY <1>2, <1>8, <2>1, <2>2
<1>14. q = x <=> r = n
  <2>1. ASSUME q = x PROVE r = n
    <3>1. PICK a \in T!Sides : t.kid[a][x] = n
      BY <1>13, <2>1
    <3> QED BY <1>8, <3>1, KeyFacts
  <2> QED BY <1>4, <2>1
<1>15. ASSUME q # x PROVE t.kid["left"][q] = n /\ q # l
  <2>1. q \in sub[r]
    <3>1. n # r
      BY <1>14, <1>15
    <3> QED BY <1>4, <1>7, <3>1, Inside
  <2>2. Toward("right", q, n) /\ q # l
    BY <1>5, <1>7, <1>13, <2>1, SMTT(30)
  <2>3. PICK a \in T!Sides : t.kid[a][q] = n
    BY <1>13
  <2>4. Toward(a, n, q)
    <3>1. Below(t, sub, q, a)
      BY <1>13, BelowNode
    <3> QED BY <1>2, <1>8, <2>3, <3>1, Zenon DEF Below
  <2>5. a # "right"
    <3>1. q \in T!Keys /\ n \in T!Keys
      BY <1>2, <1>8, <1>13
    <3> QED BY <1>1, <2>2, <2>4, <3>1, TowardFacts
  <2> QED BY <2>2, <2>3, <2>5, KeyFacts
<1>16. Toward("left", x, n)
  <2>1. Toward("right", n, x) /\ n \in T!Keys /\ x \in T!Keys
    BY <1>2, <1>4, <1>7, <1>8
  <2> QED BY <1>1, <2>1, TowardFacts
<1>17. q # l /\ t.up[x] \notin {x, n, l, r}
  BY <1>4, <1>8, <1>11, <1>15
<1> HIDE DEF c, q
<1>18. c = t.kid["right"][n] /\ q = t.up[n]
  BY DEF c, q
<1>19. x \in N /\ N = sub[t.root]
  OBVIOUS
<1> HIDE DEF N
<1>20. Inner(t, sub, x, l, r, n, c, q)
  BY <1>4, <1>5, <1>7, <1>8, <1>10, <1>11, <1>12, <1>13, <1>14, <1>15, <1>16, <1>17, <1>18, <1>19,
     Zenon DEF Inner
<1> QED BY <1>20 DEF c, q

(* The assignments of rb_erase for such a node, pointer by pointer.        *)
InnerSet(t, t3, x, l, r, n, c, q) ==
  /\ t3 \in T!Tree /\ t3.root = IF t.up[x] = T!Null THEN n ELSE t.root
  /\ t3.red = IF x \in t.red THEN t.red \cup {n} ELSE t.red \ {n}
  /\ \A a \in T!Sides, k \in T!Keys :
       t3.kid[a][k] =
         IF a = "left" /\ k = n THEN l
         ELSE IF q # x /\ a = "right" /\ k = n THEN r
         ELSE IF q # x /\ a = "left" /\ k = q THEN c
         ELSE IF k = t.up[x] /\ t.kid[a][k] = x THEN n
         ELSE t.kid[a][k]
  /\ \A k \in T!Keys :
       t3.up[k] = IF k = l THEN n ELSE IF k = n THEN t.up[x]
                  ELSE IF q # x /\ k = r THEN n
                  ELSE IF q # x /\ k = c THEN q
                  ELSE t.up[k]

InnerTree(t, x, l, r, n, c, q) ==
  LET t1 == T!Replace(t, t.up[x], x, n)
      t2 == IF q = x THEN t1
            ELSE [T!SetParent(t1, c, q) EXCEPT !.kid["left"][q] = c,
                    !.kid["right"][n] = r, !.up[r] = n]
  IN  [t2 EXCEPT !.up[n] = t.up[x], !.kid["left"][n] = l, !.up[l] = n,
         !.red = IF x \in @ THEN @ \cup {n} ELSE @ \ {n}]

KidPut(t, u, s, x, y) ==
  /\ u \in T!Tree /\ u.root = t.root /\ u.up = t.up /\ u.red = t.red
  /\ \A a \in T!Sides, k \in T!Keys :
       u.kid[a][k] = IF a = s /\ k = x THEN y ELSE t.kid[a][k]

LEMMA KidSet ==
  ASSUME NEW t \in T!Tree, NEW s \in T!Sides, NEW x \in T!Keys, NEW y \in T!Ptr
  PROVE  KidPut(t, [t EXCEPT !.kid[s][x] = y], s, x, y)
BY SetKid DEF KidPut

LEMMA InnerTreeSet ==
  ASSUME NEW t, NEW sub, Shape(t, sub), NEW x, NEW l, NEW r, NEW n, NEW c, NEW q,
         Inner(t, sub, x, l, r, n, c, q)
  PROVE  InnerSet(t, InnerTree(t, x, l, r, n, c, q), x, l, r, n, c, q)
<1> DEFINE p == t.up[x]
           t1 == T!Replace(t, p, x, n)
           s1 == T!SetParent(t1, c, q)
           s2 == [s1 EXCEPT !.kid["left"][q] = c]
           s3 == [s2 EXCEPT !.kid["right"][n] = r]
           s4 == [s3 EXCEPT !.up[r] = n]
           t2 == IF q = x THEN t1 ELSE s4
           r1 == [t2 EXCEPT !.up[n] = p]
           r2 == [r1 EXCEPT !.kid["left"][n] = l]
           r3 == [r2 EXCEPT !.up[l] = n]
           R == IF x \in r3.red THEN r3.red \cup {n} ELSE r3.red \ {n}
           r4 == [r3 EXCEPT !.red = R]
<1>1. InnerTree(t, x, l, r, n, c, q) = r4
  BY DEF InnerTree
<1>2. /\ "left" \in T!Sides /\ "right" \in T!Sides /\ t \in T!Tree
      /\ x \in T!Keys /\ l \in T!Keys /\ r \in T!Keys /\ n \in T!Keys /\ q \in T!Keys /\ c \in T!Ptr
      /\ p \in T!Ptr /\ T!Keys \subseteq T!Ptr /\ T!Null \notin T!Keys
      /\ p \notin {x, n, l, r} /\ q # n /\ l # n /\ l # r
  <2>1. sub[t.root] \subseteq T!Keys /\ t \in T!Tree
    BY SetsOfShape DEF Sets
  <2>2. x \in T!Keys
    BY <2>1 DEF Inner
  <2>3. p \in T!Ptr
    BY <2>1, <2>2, Fields
  <2> QED BY <2>1, <2>3, KeyFacts DEF Inner
<1>3. Replaced(t, t1, p, x, n)
  <2>1. p = T!Null \/ \E a \in T!Sides : t.kid[a][p] = x /\ t.kid[T!Other(a)][p] # x
    <3>1. x \in sub[t.root]
      BY DEF Inner
    <3>2. CASE p # T!Null
      <4>1. x # t.root
        BY <3>1, <3>2, UpFacts
      <4>2. p \in sub[t.root] /\ \E a \in T!Sides : t.kid[a][p] = x
        BY <3>1, <4>1, UpFacts
      <4>3. \A a \in T!Sides : t.kid[a][p] = x => t.kid[T!Other(a)][p] # x
        BY <3>1, <4>2, OneParent, SMTT(30)
      <4> QED BY <4>2, <4>3
    <3> QED BY <3>2
  <2> HIDE DEF p
  <2> QED BY <1>2, <2>1, ReplaceFacts
<1> HIDE DEF p, t1
<1>4. /\ t1 \in T!Tree /\ t1.up = t.up /\ t1.red = t.red
      /\ t1.root = IF p = T!Null THEN n ELSE t.root
      /\ \A a \in T!Sides, k \in T!Keys :
           t1.kid[a][k] = IF k = p /\ t.kid[a][k] = x THEN n ELSE t.kid[a][k]
  BY <1>3 DEF Replaced
<1>5. ParentSet(t1, s1, c, q)
  BY <1>2, <1>4, SetParentFacts
<1> HIDE DEF s1
<1>6. /\ s1 \in T!Tree /\ s1.root = t1.root /\ s1.kid = t1.kid /\ s1.red = t1.red
      /\ \A k \in T!Keys : s1.up[k] = IF k = c THEN q ELSE t1.up[k]
  BY <1>5 DEF ParentSet
<1>7. /\ s2 \in T!Tree /\ s2.root = s1.root /\ s2.up = s1.up /\ s2.red = s1.red
      /\ \A a \in T!Sides, k \in T!Keys :
           s2.kid[a][k] = IF a = "left" /\ k = q THEN c ELSE s1.kid[a][k]
  <2>1. "left" \in T!Sides /\ q \in T!Keys /\ c \in T!Ptr /\ s1 \in T!Tree
    BY <1>2, <1>6
  <2>2. KidPut(s1, s2, "left", q, c)
    BY <2>1, KidSet, Zenon
  <2> HIDE DEF s2
  <2> QED BY <2>2 DEF KidPut
<1> HIDE DEF s2
<1>8. /\ s3 \in T!Tree /\ s3.root = s2.root /\ s3.up = s2.up /\ s3.red = s2.red
      /\ \A a \in T!Sides, k \in T!Keys :
           s3.kid[a][k] = IF a = "right" /\ k = n THEN r ELSE s2.kid[a][k]
  <2>1. "right" \in T!Sides /\ n \in T!Keys /\ r \in T!Ptr /\ s2 \in T!Tree
    BY <1>2, <1>7
  <2>2. KidPut(s2, s3, "right", n, r)
    BY <2>1, KidSet, Zenon
  <2> HIDE DEF s3
  <2> QED BY <2>2 DEF KidPut
<1> HIDE DEF s3
<1>9. /\ s4 \in T!Tree /\ s4.root = s3.root /\ s4.kid = s3.kid /\ s4.red = s3.red
      /\ s4.up = [s3.up EXCEPT ![r] = n]
  BY <1>2, <1>8, SetFields
<1> HIDE DEF s4
<1>10. \A k \in T!Keys : s4.up[k] = IF k = r THEN n ELSE s3.up[k]
  <2>1. s3.up \in [T!Keys -> T!Ptr]
    BY <1>8, Fields
  <2> QED BY <1>9, <2>1
<1>11. /\ t2 \in T!Tree /\ t2.root = t1.root /\ t2.red = t.red
       /\ \A a \in T!Sides, k \in T!Keys :
            t2.kid[a][k] = IF q # x /\ a = "right" /\ k = n THEN r
                           ELSE IF q # x /\ a = "left" /\ k = q THEN c
                           ELSE t1.kid[a][k]
       /\ \A k \in T!Keys :
            t2.up[k] = IF q # x /\ k = r THEN n ELSE IF q # x /\ k = c THEN q ELSE t.up[k]
  <2>1. CASE q = x
    BY <1>4, <2>1
  <2>2. CASE q # x
    <3>1. t2 = s4
      BY <2>2
    <3>2. \A a \in T!Sides, k \in T!Keys :
            s4.kid[a][k] = IF a = "right" /\ k = n THEN r
                           ELSE IF a = "left" /\ k = q THEN c
                           ELSE t1.kid[a][k]
      BY <1>6, <1>7, <1>8, <1>9
    <3>3. \A k \in T!Keys : s4.up[k] = IF k = r THEN n ELSE IF k = c THEN q ELSE t.up[k]
      BY <1>4, <1>6, <1>7, <1>8, <1>10
    <3>4. s4 \in T!Tree /\ s4.root = t1.root /\ s4.red = t.red
      BY <1>4, <1>6, <1>7, <1>8, <1>9
    <3> HIDE DEF t2
    <3> QED BY <2>2, <3>1, <3>2, <3>3, <3>4
  <2> QED BY <2>1, <2>2
<1> HIDE DEF t2
<1>12. /\ r1 \in T!Tree /\ r1.root = t2.root /\ r1.kid = t2.kid /\ r1.red = t2.red
       /\ r1.up = [t2.up EXCEPT ![n] = p]
  BY <1>2, <1>11, SetFields
<1> HIDE DEF r1
<1>13. /\ r2 \in T!Tree /\ r2.root = r1.root /\ r2.up = r1.up /\ r2.red = r1.red
       /\ \A a \in T!Sides, k \in T!Keys :
            r2.kid[a][k] = IF a = "left" /\ k = n THEN l ELSE r1.kid[a][k]
  BY <1>2, <1>12, SetKid, SMTT(30)
<1> HIDE DEF r2
<1>14. /\ r3 \in T!Tree /\ r3.root = r2.root /\ r3.kid = r2.kid /\ r3.red = r2.red
       /\ r3.up = [r2.up EXCEPT ![l] = n]
  BY <1>2, <1>13, SetFields
<1> HIDE DEF r3
<1>15. /\ r4 \in T!Tree /\ r4.root = r3.root /\ r4.kid = r3.kid /\ r4.up = r3.up /\ r4.red = R
       /\ r3.red = t.red
  <2>1. r3.red = t.red
    BY <1>11, <1>12, <1>13, <1>14
  <2>2. R \in SUBSET T!Keys
    BY <1>2, <2>1, Fields
  <2> HIDE DEF R
  <2> QED BY <1>14, <2>1, <2>2, SetFields
<1>16. \A k \in T!Keys : r3.up[k] = IF k = l THEN n ELSE IF k = n THEN p ELSE t2.up[k]
  <2>1. t2.up \in [T!Keys -> T!Ptr] /\ r2.up \in [T!Keys -> T!Ptr]
    BY <1>11, <1>13, Fields
  <2>2. \A k \in T!Keys : r1.up[k] = IF k = n THEN p ELSE t2.up[k]
    BY <1>12, <2>1
  <2>3. \A k \in T!Keys : r3.up[k] = IF k = l THEN n ELSE r2.up[k]
    BY <1>14, <2>1
  <2> QED BY <1>13, <2>2, <2>3
<1>17. \A a \in T!Sides, k \in T!Keys : r3.kid[a][k] = IF a = "left" /\ k = n THEN l ELSE t2.kid[a][k]
  BY <1>12, <1>13, <1>14
<1>18. r4.root = IF p = T!Null THEN n ELSE t.root
  BY <1>4, <1>11, <1>12, <1>13, <1>14, <1>15
<1>19. r4.red = IF x \in t.red THEN t.red \cup {n} ELSE t.red \ {n}
  BY <1>15
<1> HIDE DEF r4
<1>20. ASSUME NEW a \in T!Sides, NEW k \in T!Keys
       PROVE  r4.kid[a][k] =
                IF a = "left" /\ k = n THEN l
                ELSE IF q # x /\ a = "right" /\ k = n THEN r
                ELSE IF q # x /\ a = "left" /\ k = q THEN c
                ELSE IF k = p /\ t.kid[a][k] = x THEN n
                ELSE t.kid[a][k]
  <2>1. r4.kid[a][k] = IF a = "left" /\ k = n THEN l ELSE t2.kid[a][k]
    BY <1>15, <1>17
  <2>2. t2.kid[a][k] = IF q # x /\ a = "right" /\ k = n THEN r
                       ELSE IF q # x /\ a = "left" /\ k = q THEN c
                       ELSE t1.kid[a][k]
    BY <1>11
  <2>3. t1.kid[a][k] = IF k = p /\ t.kid[a][k] = x THEN n ELSE t.kid[a][k]
    BY <1>4
  <2> QED BY <2>1, <2>2, <2>3
<1>21. ASSUME NEW k \in T!Keys
       PROVE  r4.up[k] = IF k = l THEN n ELSE IF k = n THEN p
                         ELSE IF q # x /\ k = r THEN n
                         ELSE IF q # x /\ k = c THEN q
                         ELSE t.up[k]
  BY <1>11, <1>15, <1>16
<1>22. r4 \in T!Tree
  BY <1>15
<1> QED BY <1>1, <1>18, <1>19, <1>20, <1>21, <1>22 DEF InnerSet, p

(* What happens is that n leaves its place, and then takes that of x.      *)
LEMMA InnerSubstituted ==
  ASSUME NEW t, NEW sub, Shape(t, sub), NEW x, NEW l, NEW r, NEW n, NEW c, NEW q,
         Inner(t, sub, x, l, r, n, c, q), NEW u, Spliced(t, u, sub[t.root], n, c),
         NEW t3, InnerSet(t, t3, x, l, r, n, c, q)
  PROVE  Substituted(u, t3, sub[t.root] \ {n}, x, n)
<1> DEFINE N == sub[t.root]
<1>1. /\ N \subseteq T!Keys /\ T!Null \notin N /\ x \in N /\ n \in N /\ q \in N /\ l \in N /\ r \in N
      /\ "left" \in T!Sides /\ "right" \in T!Sides /\ T!Sides = {"left", "right"}
      /\ T!Other("left") = "right"
      /\ n # x /\ n # t.root
  BY SetsOfShape, KeyFacts DEF Inner, Sets
<1>2. /\ l = t.kid["left"][x] /\ r = t.kid["right"][x] /\ c = t.kid["right"][n]
      /\ q = t.up[n] /\ t.up[l] = x /\ t.up[r] = x /\ (c # T!Null => t.up[c] = n)
      /\ c \notin {x, l, r, n} /\ l \notin {x, n} /\ r # x /\ l # r
      /\ q \notin {n, l} /\ (q = x <=> r = n) /\ (q # x => t.kid["left"][q] = n)
      /\ t.up[x] \notin {x, n, l, r}
  BY DEF Inner
<1>3. /\ u.red = t.red /\ u.root = t.root
      /\ \A w \in N \ {n} :
           /\ \A s \in T!Sides : u.kid[s][w] = IF t.kid[s][w] = n THEN c ELSE t.kid[s][w]
           /\ u.up[w] = IF w = c THEN q ELSE t.up[w]
  BY <1>1, <1>2 DEF Spliced
<1>4. t3 \in T!Tree /\ t3.root = (IF u.root = x THEN n ELSE u.root)
  <2>1. x = t.root <=> t.up[x] = T!Null
    BY <1>1, UpFacts
  <2> QED BY <1>3, <2>1 DEF InnerSet
<1>5. t3.red = IF x \in t.red THEN t.red \cup {n} ELSE t.red \ {n}
  BY DEF InnerSet
<1>6. ASSUME NEW a \in T!Sides, NEW k \in N
      PROVE  t3.kid[a][k] =
                IF a = "left" /\ k = n THEN l
                ELSE IF q # x /\ a = "right" /\ k = n THEN r
                ELSE IF q # x /\ a = "left" /\ k = q THEN c
                ELSE IF k = t.up[x] /\ t.kid[a][k] = x THEN n
                ELSE t.kid[a][k]
  BY <1>1 DEF InnerSet
<1>7. ASSUME NEW k \in N
      PROVE  t3.up[k] = IF k = l THEN n ELSE IF k = n THEN t.up[x]
                        ELSE IF q # x /\ k = r THEN n
                        ELSE IF q # x /\ k = c THEN q
                        ELSE t.up[k]
  BY <1>1, SMTT(30) DEF InnerSet
<1>8. t3.up[n] = u.up[x] /\ (n \in t3.red <=> x \in u.red)
  BY <1>1, <1>2, <1>3, <1>5, <1>7
<1>9. ASSUME NEW s \in T!Sides PROVE t3.kid[s][n] = u.kid[s][x]
  <2>1. u.kid[s][x] = IF t.kid[s][x] = n THEN c ELSE t.kid[s][x]
    BY <1>1, <1>3
  <2>2. t3.kid["left"][n] = l
    BY <1>1, <1>6, SMTT(30)
  <2>3. t3.kid["right"][n] = IF q # x THEN r ELSE c
    BY <1>1, <1>2, <1>6
  <2> QED BY <1>1, <1>2, <2>1, <2>2, <2>3
<1>10. \A w \in N, s \in T!Sides : t.kid[s][w] = x => w = t.up[x]
  BY <1>1, OneParent
<1>11. \A w \in N, s \in T!Sides : t.kid[s][w] = n => w = q /\ (w # x => s = "left")
  <2>1. ASSUME NEW w \in N, NEW s \in T!Sides, t.kid[s][w] = n
        PROVE  w = q /\ t.kid[T!Other(s)][w] # n
    BY <1>1, <1>2, <2>1, OneParent
  <2> QED BY <1>1, <1>2, <2>1, KeyFacts, SMTT(30)
<1>12. ASSUME NEW w \in (N \ {n}) \ {x}, NEW s \in T!Sides
       PROVE  t3.kid[s][w] = IF u.kid[s][w] = x THEN n ELSE u.kid[s][w]
  <2>1. u.kid[s][w] = IF t.kid[s][w] = n THEN c ELSE t.kid[s][w]
    BY <1>3
  <2>2. t3.kid[s][w] = IF q # x /\ s = "left" /\ w = q THEN c
                       ELSE IF w = t.up[x] /\ t.kid[s][w] = x THEN n
                       ELSE t.kid[s][w]
    BY <1>6
  <2>3. t.kid[s][w] = n <=> s = "left" /\ w = q
    BY <1>2, <1>11
  <2>4. t.kid[s][w] = x => w = t.up[x]
    BY <1>10
  <2>5. n # x /\ c # x /\ (w = q => q # x)
    BY <1>1, <1>2
  <2> QED BY <2>1, <2>2, <2>3, <2>4, <2>5
<1>13. ASSUME NEW w \in (N \ {n}) \ {x}
       PROVE  t3.up[w] = IF u.up[w] = x THEN n ELSE u.up[w]
  <2>1. u.up[w] = IF w = c THEN q ELSE t.up[w]
    BY <1>3
  <2>2. t3.up[w] = IF w = l THEN n
                   ELSE IF q # x /\ w = r THEN n
                   ELSE IF q # x /\ w = c THEN q
                   ELSE t.up[w]
    BY <1>7
  <2>3. t.up[w] = x => w \in {l, r}
    <3> SUFFICES ASSUME t.up[w] = x PROVE w \in {l, r}
      OBVIOUS
    <3>1. w # t.root
      <4>1. w = t.root => t.up[w] = T!Null
        BY UpFacts
      <4> QED BY <1>1, <4>1
    <3>2. \E s \in T!Sides : t.kid[s][t.up[w]] = w
      BY <3>1, UpFacts
    <3> QED BY <1>1, <1>2, <3>2
  <2>4. w = c => t.up[w] = n
    BY <1>1, <1>2
  <2>5. w # n /\ c # l /\ c # r /\ t.up[l] = x /\ t.up[r] = x /\ (q = x <=> r = n)
    BY <1>2
  <2> QED BY <2>1, <2>2, <2>3, <2>4, <2>5
<1>14. \A w \in (N \ {n}) \ {x} : w \in t3.red <=> w \in u.red
  BY <1>3, <1>5
<1> QED BY <1>4, <1>8, <1>9, <1>12, <1>13, <1>14 DEF Substituted

LEMMA InnerFits ==
  ASSUME NEW t, NEW sub, Shape(t, sub), NEW x, NEW l, NEW r, NEW n, NEW c, NEW q,
         Inner(t, sub, x, l, r, n, c, q), NEW u, Spliced(t, u, sub[t.root], n, c),
         NEW v, v = SplicedSub(sub, n), v[u.root] = sub[t.root] \ {n}
  PROVE  Fits(u, v, x, n)
<1> DEFINE N == sub[t.root]
<1>1. /\ N \subseteq T!Keys /\ T!Null \notin N /\ x \in N /\ n \in N /\ n \in sub[x] /\ x # n
      /\ T!Sides = {"left", "right"} /\ x \in T!Keys /\ n \in T!Keys
      /\ l = t.kid["left"][x] /\ r = t.kid["right"][x] /\ c \in T!Ptr
      /\ sub[c] \subseteq sub[n] /\ Toward("left", x, n)
  BY SetsOfShape, KeyFacts DEF Inner, Sets
<1>2. \A k \in sub[r] \ {n} : Toward("right", k, n)
  BY DEF Inner
<1>3. ASSUME NEW w \in N \ {n}, NEW s \in T!Sides
      PROVE  v[u.kid[s][w]] \subseteq sub[t.kid[s][w]] \ {n}
  <2>1. u.kid[s][w] = IF t.kid[s][w] = n THEN c ELSE t.kid[s][w]
    BY <1>3 DEF Spliced
  <2>2. t.kid[s][w] \in T!Ptr
    BY BelowNode DEF Below
  <2>3. \A y \in T!Ptr : v[y] = sub[y] \ {n}
    BY DEF SplicedSub
  <2> QED BY <1>1, <2>1, <2>2, <2>3
<1>4. ASSUME NEW s \in T!Sides, NEW k \in v[u.kid[s][x]] PROVE Toward(s, k, n)
  <2>1. k \in sub[t.kid[s][x]] \ {n}
    BY <1>1, <1>3
  <2>2. CASE s = "right"
    BY <1>1, <1>2, <2>1, <2>2
  <2>3. CASE s = "left"
    <3>1. Below(t, sub, x, s) /\ sub[x] \subseteq N
      BY <1>1, BelowNode, SetsOfShape DEF Sets
    <3>2. Toward(s, k, x) /\ k \in T!Keys
      BY <1>1, <2>1, <3>1 DEF Below
    <3> QED BY <1>1, <2>3, <3>2, TowardFacts
  <2> QED BY <1>1, <2>2, <2>3
<1>5. ASSUME NEW s \in T!Sides, NEW w \in v[u.root], x \in v[u.kid[s][w]] PROVE Toward(s, n, w)
  <2> DEFINE y == t.kid[s][w]
  <2>1. w \in N \ {n} /\ x \in sub[y]
    BY <1>3, <1>5
  <2>2. Below(t, sub, w, s)
    BY <2>1, BelowNode
  <2>3. y \in N
    BY <2>1, <2>2 DEF Below
  <2>4. sub[x] \subseteq sub[y]
    BY <2>1, <2>3, Inside
  <2> QED BY <1>1, <2>2, <2>4 DEF Below
<1> QED BY <1>4, <1>5 DEF Fits

(* rb_erase of a node with two children.                                   *)
LEMMA EraseInnerSound ==
  ASSUME NEW sub, NEW bh, Sound(tree, sub, bh, T!Null, node, T!Null, T!Null),
         node \in sub[tree.root], key = node, T!EraseInner
  PROVE  Erased(sub)
<1> DEFINE N == sub[tree.root]
           x == node
           l == tree.kid["left"][x]
           r == tree.kid["right"][x]
           n == T!Outermost(tree, r, "left")
           c == tree.kid["right"][n]
           q == tree.up[n]
           p == IF q = x THEN n ELSE q
           u == T!Replace(T!SetParent(tree, c, q), q, n, c)
           v1 == SplicedSub(sub, n)
           t3 == InnerTree(tree, x, l, r, n, c, q)
           v == SubstitutedSub(v1, x, n)
<1>1. /\ Shape(tree, sub) /\ Height(tree, sub, bh, T!Null, T!Null)
      /\ Reds(tree, sub, T!Null, T!Null)
  BY NoLack DEF Sound
<1>2. T!EraseAs(t3, n \notin tree.red, c, p)
  BY Zenon DEF T!EraseInner, InnerTree
<1>3. l # T!Null /\ r # T!Null
  BY KeyFacts, Zenon DEF T!EraseInner
<1>4. Inner(tree, sub, x, l, r, n, c, q)
  BY <1>1, <1>3, InnerFacts
<1>5. c = tree.kid[T!Other("left")][n] /\ "left" \in T!Sides
  BY KeyFacts
<1> HIDE DEF l, r, n, c
<1>6. /\ N \subseteq T!Keys /\ T!Null \notin N /\ x \in N /\ n \in N /\ n # x /\ x \in T!Keys
      /\ n \in T!Keys /\ c \in T!Ptr /\ c \notin {x, n} /\ q # n /\ tree.kid["left"][n] = T!Null
      /\ T!Null \notin T!Keys /\ key \in T!Keys /\ T!Null \notin {x, n} /\ p \in T!Ptr
  BY <1>1, <1>4, SetsOfShape, KeyFacts DEF Inner, Sets
<1>7. Spliced(tree, u, N, n, c)
  BY <1>1, <1>6, SpliceTurns
<1> HIDE DEF u, v1, q
<1>8. /\ Shape(u, v1) /\ v1[u.root] = N \ {n}
      /\ n \in tree.red => Height(u, v1, bh, T!Null, T!Null) /\ Reds(u, v1, T!Null, T!Null)
      /\ n \notin tree.red => Height(u, v1, bh, q, c) /\ Reds(u, v1, c, c)
      /\ n \notin tree.red /\ c # u.root => Sibling(u, v1, c, q)
  BY <1>1, <1>5, <1>6, <1>7, SpliceSound DEF v1, q
<1>9. InnerSet(tree, t3, x, l, r, n, c, q)
  BY <1>1, <1>4, InnerTreeSet
<1> HIDE DEF t3
<1>10. Substituted(u, t3, N \ {n}, x, n)
  BY <1>1, <1>4, <1>7, <1>9, InnerSubstituted
<1>11. Fits(u, v1, x, n)
  BY <1>1, <1>4, <1>7, <1>8, InnerFits DEF v1
<1> HIDE DEF v
<1>12. /\ x \in v1[u.root] /\ n \in T!Keys \ v1[u.root] /\ Substituted(u, t3, v1[u.root], x, n)
       /\ Shape(u, v1) /\ c # x /\ c # n /\ q # n /\ T!Null # x /\ T!Null # n
  BY <1>6, <1>8, <1>10
<1>13. Shape(t3, v) /\ v[t3.root] = (v1[u.root] \ {x}) \cup {n}
  BY <1>11, <1>12, SubstituteShape DEF v
<1>14. v[t3.root] = N \ {key}
  BY <1>6, <1>8, <1>13
<1>15. CASE n \in tree.red
  <2>1. Height(u, v1, bh, T!Null, T!Null) /\ Reds(u, v1, T!Null, T!Null)
    BY <1>8, <1>15
  <2>2. \E h : Height(t3, v, h, IF T!Null = x THEN n ELSE T!Null, T!Null)
    BY <1>12, <1>13, <2>1, SubstituteHeight
  <2>3. PICK h : Height(t3, v, h, T!Null, T!Null)
    BY <1>6, <2>2
  <2>4. Reds(t3, v, T!Null, T!Null)
    BY <1>12, <1>13, <2>1, SubstituteReds
  <2> QED BY <1>2, <1>6, <1>13, <1>14, <1>15, <2>3, <2>4, EraseAsSound
<1>16. CASE n \notin tree.red
  <2>1. Height(u, v1, bh, q, c) /\ Reds(u, v1, c, c)
    BY <1>8, <1>16
  <2>2. PICK h : Height(t3, v, h, p, c)
    BY <1>12, <1>13, <2>1, SubstituteHeight
  <2>3. Reds(t3, v, c, c)
    BY <1>12, <1>13, <2>1, SubstituteReds
  <2>4. ASSUME c # t3.root PROVE Sibling(t3, v, c, p)
    <3>1. c # u.root
      BY <1>6, <1>10, <2>4 DEF Substituted
    <3>2. Sibling(u, v1, c, q)
      BY <1>8, <1>16, <3>1
    <3> QED BY <1>12, <1>13, <3>2, SubstituteSibling
  <2> HIDE DEF p
  <2> QED BY <1>2, <1>6, <1>13, <1>14, <1>16, <2>2, <2>3, <2>4, EraseAsSound
<1> QED BY <1>15, <1>16

-----------------------------------------------------------------------------
(* The invariant of the tree.  Between two passes it is a red-black tree   *)
(* but for one place, which depends on the loop.                           *)
Standing(sub, bh) ==
  /\ pc \notin {"insert_color", "erase_color"} =>
       Sound(tree, sub, bh, T!Null, T!Null, T!Null, T!Null)
  /\ pc \in {"search", "place"} => Descended(sub)
  /\ pc = "insert_color" => /\ Sound(tree, sub, bh, T!Null, T!Null, node, T!Null)
                            /\ node \in sub[tree.root] \cap tree.red
  /\ pc = "erase" => node = key /\ node \in sub[tree.root]
  /\ pc = "erase_color" => /\ Sound(tree, sub, bh, parent, node, node, node)
                           /\ node # tree.root => Sibling(tree, sub, node, parent)

(* What a step does to the set of keys.                                    *)
Alters(N, M) ==
  \/ M = N
  \/ key \in T!Keys \ N /\ M = N \cup {key} /\ op = "insert"
  \/ key \in N /\ M = N \ {key} /\ op \in {"insert", "delete"}

(* The types of the variables that say where a call is.                    *)
Places ==
  /\ op \in {"none", "insert", "delete"} /\ key \in T!Ptr
  /\ pc \in {"idle", "search", "place", "insert_color", "erase", "erase_color"}
  /\ node \in T!Ptr /\ parent \in T!Ptr
  /\ (op = "none") <=> (pc = "idle")
  /\ pc # "idle" => key \in T!Keys
  /\ pc = "place" => op = "insert"

TreeInv == Places /\ \E sub, bh : Standing(sub, bh)

Preserved(sub) ==
  \E v, h : Places' /\ Standing(v, h)' /\ Alters(sub[tree.root], v[tree'.root])

LEMMA SoundAnywhere ==
  ASSUME NEW t, NEW sub, NEW bh, NEW c, NEW n, NEW m, Sound(t, sub, bh, T!Null, c, n, m), NEW d
  PROVE  Sound(t, sub, bh, T!Null, d, n, m)
BY NoLack DEF Sound

LEMMA StandingShape ==
  ASSUME NEW sub, NEW bh, Standing(sub, bh)
  PROVE  Shape(tree, sub)
BY DEF Standing, Sound

LEMMA CallKeeps ==
  ASSUME NEW sub, NEW bh, Places, Standing(sub, bh),
         NEW o \in {"insert", "delete"}, NEW k \in T!Keys, T!Call(o, k)
  PROVE  Preserved(sub)
<1>1. /\ pc = "idle" /\ op' = o /\ key' = k /\ pc' = "search" /\ node' = tree.root
      /\ parent' = T!Null /\ tree' = tree
  BY DEF T!Call
<1>2. Shape(tree, sub) /\ Sound(tree, sub, bh, T!Null, T!Null, T!Null, T!Null)
  BY <1>1, StandingShape DEF Standing
<1>3. sub[T!Null] = {} /\ tree.root \in T!Ptr /\ T!Null \in T!Ptr /\ T!Keys \subseteq T!Ptr
      /\ T!Null \notin sub[tree.root] /\ \A w \in sub[tree.root] : sub[w] \subseteq sub[tree.root]
  BY <1>2, SetsOfShape, Fields, KeyFacts DEF Sets
<1>4. \A w \in sub[tree.root], s \in T!Sides : T!Null \notin sub[tree.kid[s][w]]
  <2> TAKE w \in sub[tree.root], s \in T!Sides
  <2>1. sub[tree.kid[s][w]] \subseteq sub[w]
    BY <1>2, BelowNode DEF Below
  <2> QED BY <1>3, <2>1
<1>5. Descended(sub)'
  BY <1>1, <1>4 DEF Descended
<1>6. Places'
  BY <1>1, <1>3 DEF Places
<1>7. Standing(sub, bh)'
  BY <1>1, <1>2, <1>5 DEF Standing
<1>8. Alters(sub[tree.root], sub[tree'.root])
  BY <1>1 DEF Alters
<1> QED BY <1>6, <1>7, <1>8 DEF Preserved

LEMMA DescendKeeps ==
  ASSUME NEW sub, NEW bh, Places, Standing(sub, bh), T!Descend
  PROVE  Preserved(sub)
<1>1. /\ pc \in {"search", "place"} /\ node \notin {T!Null, key} /\ parent' = node
      /\ node' = tree.kid[T!SideOf(node)][node]
      /\ tree' = tree /\ op' = op /\ key' = key /\ pc' = pc
  BY DEF T!Descend, T!opVars
<1>2. /\ Shape(tree, sub) /\ Sound(tree, sub, bh, T!Null, T!Null, T!Null, T!Null)
      /\ Descended(sub) /\ key \in T!Keys
  BY <1>1, StandingShape DEF Standing, Places
<1>3. Descended(sub)'
  BY <1>2, DescendDescends
<1>4. node \in T!Keys /\ T!SideOf(node) \in T!Sides /\ tree \in T!Tree
  <2>1. node \in T!Keys
    BY <1>1, KeyFacts DEF Places
  <2> QED BY <1>1, <1>2, <2>1, SideOfToward, SetsOfShape DEF Sets
<1>5. node' \in T!Ptr
  BY <1>1, <1>4, Fields
<1>6. Places'
  BY <1>1, <1>5 DEF Places
<1>7. Standing(sub, bh)'
  BY <1>1, <1>2, <1>3 DEF Standing
<1>8. Alters(sub[tree.root], sub[tree'.root])
  BY <1>1 DEF Alters
<1> QED BY <1>6, <1>7, <1>8 DEF Preserved

(* What goes on from the root goes on as a call begins.                    *)
LEMMA SearchedKeeps ==
  ASSUME NEW sub, NEW bh, Places, Standing(sub, bh), T!Searched
  PROVE  Preserved(sub)
<1>1. pc = "search" /\ tree' = tree
  BY DEF T!Searched
<1>2. /\ Shape(tree, sub) /\ Sound(tree, sub, bh, T!Null, T!Null, T!Null, T!Null)
      /\ Descended(sub) /\ key \in T!Keys
  BY <1>1, StandingShape DEF Standing, Places
<1>3. sub[T!Null] = {} /\ tree.root \in T!Ptr /\ T!Null \in T!Ptr /\ T!Keys \subseteq T!Ptr
      /\ sub[tree.root] \subseteq T!Keys /\ T!Null \notin T!Keys
      /\ T!Null \notin sub[tree.root] /\ \A w \in sub[tree.root] : sub[w] \subseteq sub[tree.root]
  BY <1>2, SetsOfShape, Fields, KeyFacts DEF Sets
<1>4. Alters(sub[tree.root], sub[tree'.root])
  BY <1>1 DEF Alters
<1>5. CASE node = key /\ pc' = "erase" /\ UNCHANGED <<T!opVars, node, parent>>
  <2>1. node \in sub[tree.root]
    <3>1. CASE parent = T!Null
      BY <1>2, <1>3, <1>5, <3>1 DEF Descended, Shape
    <3>2. CASE parent # T!Null
      <4>1. parent \in sub[tree.root] /\ parent # key /\ node = tree.kid[T!SideOf(parent)][parent]
        BY <1>2, <3>2 DEF Descended
      <4>2. T!SideOf(parent) \in T!Sides
        BY <1>2, <1>3, <4>1, SideOfToward
      <4>3. Below(tree, sub, parent, T!SideOf(parent))
        BY <1>2, <4>1, <4>2, BelowNode
      <4> QED BY <1>2, <1>3, <1>5, <4>1, <4>3 DEF Below
    <3> QED BY <3>1, <3>2
  <2>2. Places'
    BY <1>1, <1>5 DEF Places, T!opVars
  <2>3. Standing(sub, bh)'
    BY <1>1, <1>2, <1>5, <2>1 DEF Standing, T!opVars
  <2> QED BY <1>4, <2>2, <2>3 DEF Preserved
<1>6. CASE /\ node = T!Null /\ op = "insert" /\ pc' = "place" /\ node' = tree.root
           /\ parent' = T!Null /\ UNCHANGED T!opVars
  <2>1. \A w \in sub[tree.root], s \in T!Sides : T!Null \notin sub[tree.kid[s][w]]
    <3> TAKE w \in sub[tree.root], s \in T!Sides
    <3>1. sub[tree.kid[s][w]] \subseteq sub[w]
      BY <1>2, BelowNode DEF Below
    <3> QED BY <1>3, <3>1
  <2>2. Descended(sub)'
    BY <1>1, <1>6, <2>1 DEF Descended, T!opVars
  <2>3. Places'
    BY <1>1, <1>3, <1>6 DEF Places, T!opVars
  <2>4. Standing(sub, bh)'
    BY <1>1, <1>2, <1>6, <2>2 DEF Standing
  <2> QED BY <1>4, <2>3, <2>4 DEF Preserved
<1>7. CASE T!Return
  <2>1. Places'
    BY <1>3, <1>7 DEF Places, T!Return
  <2>2. Standing(sub, bh)'
    BY <1>1, <1>2, <1>7 DEF Standing, T!Return
  <2> QED BY <1>4, <2>1, <2>2 DEF Preserved
<1> QED BY <1>5, <1>6, <1>7 DEF T!Searched

LEMMA LinkKeeps ==
  ASSUME NEW sub, NEW bh, Places, Standing(sub, bh), T!Link
  PROVE  Preserved(sub)
<1>1. /\ pc = "place" /\ node = T!Null /\ pc' = "insert_color" /\ node' = key /\ parent' = parent
      /\ op' = op /\ key' = key
  BY DEF T!Link, T!opVars
<1>2. /\ Sound(tree, sub, bh, T!Null, node, T!Null, T!Null)
      /\ Descended(sub) /\ key \in T!Keys /\ parent \in T!Ptr
  BY <1>1, SoundAnywhere DEF Standing, Places
<1>3. PICK v, h : /\ Sound(tree', v, h, T!Null, node', node', T!Null)
                  /\ v[tree'.root] = sub[tree.root] \cup {key}
                  /\ node' \in v[tree'.root] \cap tree'.red
  BY <1>2, LinkSound
<1>4. Sound(tree', v, h, T!Null, T!Null, node', T!Null)
  BY <1>3, SoundAnywhere
<1>5. Standing(v, h)'
  BY <1>1, <1>3, <1>4 DEF Standing
<1>6. Places'
  BY <1>1, <1>2 DEF Places
<1>7. Alters(sub[tree.root], v[tree'.root])
  <2>1. key \notin sub[tree.root]
    <3>1. sub[T!Null] = {}
      BY <1>2, SetsOfShape DEF Sound, Sets
    <3> QED BY <1>1, <1>2, <3>1 DEF Descended
  <2>2. op = "insert"
    BY <1>1 DEF Places
  <2> QED BY <1>2, <1>3, <2>1, <2>2 DEF Alters
<1> QED BY <1>5, <1>6, <1>7 DEF Preserved

LEMMA InsertColorKeeps ==
  ASSUME NEW sub, NEW bh, Places, Standing(sub, bh), T!InsertColor
  PROVE  Preserved(sub)
<1>1. pc = "insert_color" /\ pc' = pc /\ op' = op /\ key' = key /\ parent' = parent
  BY Zenon DEF T!InsertColor, T!opVars
<1>2. /\ Sound(tree, sub, bh, T!Null, T!Null, node, T!Null) /\ node \in sub[tree.root] \cap tree.red
  BY <1>1 DEF Standing
<1>3. PICK v, h : /\ Sound(tree', v, h, T!Null, T!Null, node', T!Null)
                  /\ v[tree'.root] = sub[tree.root] /\ node' \in sub[tree.root] \cap tree'.red
  BY <1>2, InsertColorPass
<1>4. Standing(v, h)'
  BY <1>1, <1>3 DEF Standing
<1>5. Places'
  <2>1. node' \in T!Ptr
    BY <1>2, <1>3, SetsOfShape, KeyFacts DEF Sound, Sets
  <2> QED BY <1>1, <2>1 DEF Places
<1>6. Alters(sub[tree.root], v[tree'.root])
  BY <1>3 DEF Alters
<1> QED BY <1>4, <1>5, <1>6 DEF Preserved

LEMMA ReturnPlaces == ASSUME T!Return PROVE Places'
BY KeyFacts DEF T!Return, Places

LEMMA InsertColorEndKeeps ==
  ASSUME NEW sub, NEW bh, Places, Standing(sub, bh), T!InsertColorEnd
  PROVE  Preserved(sub)
<1>1. pc = "insert_color" /\ T!Return
  BY DEF T!InsertColorEnd
<1>2. /\ Sound(tree, sub, bh, T!Null, node, node, T!Null) /\ node \in sub[tree.root] \cap tree.red
  BY <1>1, SoundAnywhere DEF Standing
<1>3. PICK h : Sound(tree', sub, h, T!Null, node', T!Null, T!Null) /\ tree'.root = tree.root
  BY <1>2, InsertColorLast
<1>4. Sound(tree', sub, h, T!Null, T!Null, T!Null, T!Null)
  BY <1>3, SoundAnywhere
<1>5. Standing(sub, h)'
  BY <1>1, <1>4 DEF Standing, T!Return
<1>6. Alters(sub[tree.root], sub[tree'.root])
  BY <1>3 DEF Alters
<1> QED BY <1>1, <1>5, <1>6, ReturnPlaces DEF Preserved

LEMMA EraseKeeps ==
  ASSUME NEW sub, NEW bh, Places, Standing(sub, bh), T!EraseOuter \/ T!EraseInner
  PROVE  Preserved(sub)
<1>1. pc = "erase"
  BY Zenon DEF T!EraseOuter, T!EraseInner
<1>2. /\ Sound(tree, sub, bh, T!Null, node, T!Null, T!Null) /\ node \in sub[tree.root] /\ key = node
      /\ key \in T!Keys /\ op \in {"insert", "delete"}
  BY <1>1, SoundAnywhere DEF Standing, Places
<1>3. Erased(sub)
  BY <1>2, EraseOuterSound, EraseInnerSound
<1>4. \E u, black, c, p : T!EraseAs(u, black, c, p)
  BY Zenon DEF T!EraseOuter, T!EraseInner
<1>5. \/ pc' = "erase_color" /\ op' = op /\ key' = key
      \/ T!Return
  BY <1>4 DEF T!EraseAs, T!opVars, T!Return
<1>6. PICK v, h :
        /\ v[tree'.root] = sub[tree.root] \ {key} /\ node' \in T!Ptr /\ parent' \in T!Ptr
        /\ \/ /\ pc' = "erase_color"
              /\ Sound(tree', v, h, parent', node', node', node')
              /\ node' # tree'.root => Sibling(tree', v, node', parent')
           \/ pc' = "idle" /\ Sound(tree', v, h, T!Null, node', T!Null, T!Null)
  BY <1>3 DEF Erased
<1>7. Standing(v, h)'
  BY <1>6, SoundAnywhere DEF Standing
<1>8. Places'
  BY <1>2, <1>5, <1>6, ReturnPlaces DEF Places
<1>9. Alters(sub[tree.root], v[tree'.root])
  BY <1>2, <1>6 DEF Alters
<1> QED BY <1>7, <1>8, <1>9 DEF Preserved

LEMMA EraseColorKeeps ==
  ASSUME NEW sub, NEW bh, Places, Standing(sub, bh), T!EraseColor
  PROVE  Preserved(sub)
<1>1. pc = "erase_color" /\ pc' = pc /\ op' = op /\ key' = key /\ node # tree.root
  BY Zenon DEF T!EraseColor, T!opVars
<1>2. Sound(tree, sub, bh, parent, node, node, node) /\ Sibling(tree, sub, node, parent)
  BY <1>1 DEF Standing
<1>3. PICK v, h : /\ Sound(tree', v, h, parent', node', node', node')
                  /\ v[tree'.root] = sub[tree.root] /\ node' \in sub[tree.root]
                  /\ node' # tree'.root => Sibling(tree', v, node', parent')
                  /\ parent' \in T!Ptr
  BY <1>2, EraseColorPass
<1>4. Standing(v, h)'
  BY <1>1, <1>3 DEF Standing
<1>5. Places'
  <2>1. node' \in T!Ptr
    BY <1>2, <1>3, SetsOfShape, KeyFacts DEF Sound, Sets
  <2> QED BY <1>1, <1>3, <2>1 DEF Places
<1>6. Alters(sub[tree.root], v[tree'.root])
  BY <1>3 DEF Alters
<1> QED BY <1>4, <1>5, <1>6 DEF Preserved

LEMMA EraseColorEndKeeps ==
  ASSUME NEW sub, NEW bh, Places, Standing(sub, bh), T!EraseColorEnd
  PROVE  Preserved(sub)
<1>1. pc = "erase_color" /\ T!Return
  BY DEF T!EraseColorEnd
<1>2. /\ Sound(tree, sub, bh, parent, node, node, node)
      /\ node # tree.root => Sibling(tree, sub, node, parent)
  BY <1>1 DEF Standing
<1>3. PICK h : Sound(tree', sub, h, T!Null, node', T!Null, T!Null) /\ tree'.root = tree.root
  BY <1>2, EraseColorLast
<1>4. Sound(tree', sub, h, T!Null, T!Null, T!Null, T!Null)
  BY <1>3, SoundAnywhere
<1>5. Standing(sub, h)'
  BY <1>1, <1>4 DEF Standing, T!Return
<1>6. Alters(sub[tree.root], sub[tree'.root])
  BY <1>3 DEF Alters
<1> QED BY <1>1, <1>5, <1>6, ReturnPlaces DEF Preserved

LEMMA TreeStep ==
  ASSUME NEW sub, NEW bh, Places, Standing(sub, bh), T!TreeNext
  PROVE  Preserved(sub)
<1>1. CASE T!Descend
  BY <1>1, DescendKeeps
<1>2. CASE T!Searched
  BY <1>2, SearchedKeeps
<1>3. CASE T!Link
  BY <1>3, LinkKeeps
<1>4. CASE T!InsertColor
  BY <1>4, InsertColorKeeps
<1>5. CASE T!InsertColorEnd
  BY <1>5, InsertColorEndKeeps
<1>6. CASE T!EraseOuter \/ T!EraseInner
  BY <1>6, EraseKeeps
<1>7. CASE T!EraseColor
  BY <1>7, EraseColorKeeps
<1>8. CASE T!EraseColorEnd
  BY <1>8, EraseColorEndKeeps
<1>9. CASE \E o \in {"insert", "delete"}, k \in T!Keys : T!Call(o, k)
  BY <1>9, CallKeeps
<1> QED BY <1>1, <1>2, <1>3, <1>4, <1>5, <1>6, <1>7, <1>8, <1>9 DEF T!TreeNext, T!Step

-----------------------------------------------------------------------------
(* The sequence m lists the keys of S in ascending order.                  *)
Listing(S, m) ==
  /\ m \in Seq(T!Keys)
  /\ \A a \in 1 .. Len(m) : m[a] \in S
  /\ \A k \in S : \E a \in 1 .. Len(m) : k = m[a]
  /\ \A a, b \in 1 .. Len(m) : a < b => m[a] < m[b]

LEMMA ListingJoin ==
  ASSUME NEW S1, NEW m1, Listing(S1, m1), NEW S2, NEW m2, Listing(S2, m2),
         NEW x \in T!Keys, \A k \in S1 : k < x, \A k \in S2 : x < k
  PROVE  Listing(S1 \cup {x} \cup S2, m1 \o <<x>> \o m2)
<1> DEFINE m == m1 \o <<x>> \o m2
           n == Len(m1)
           S == S1 \cup {x} \cup S2
<1>1. m1 \in Seq(T!Keys) /\ m2 \in Seq(T!Keys) /\ T!Keys \subseteq Nat
  BY KeyFacts DEF Listing
<1>2. n \in Nat /\ Len(m2) \in Nat /\ m \in Seq(T!Keys) /\ Len(m) = n + 1 + Len(m2)
  BY <1>1
<1>3. \A a \in 1 .. n : a \in 1 .. Len(m) /\ m[a] = m1[a] /\ m[a] \in S1
  BY <1>1, <1>2 DEF Listing
<1>4. n + 1 \in 1 .. Len(m) /\ m[n + 1] = x
  BY <1>1, <1>2
<1>5. \A a \in 1 .. Len(m2) : n + 1 + a \in 1 .. Len(m) /\ m[n + 1 + a] = m2[a] /\ m[n + 1 + a] \in S2
  BY <1>1, <1>2 DEF Listing
<1>6. \A a \in 1 .. Len(m) : a \in 1 .. n \/ a = n + 1 \/ \E b \in 1 .. Len(m2) : a = n + 1 + b
  <2> TAKE a \in 1 .. Len(m)
  <2>1. a > n + 1 => a - n - 1 \in 1 .. Len(m2) /\ a = n + 1 + (a - n - 1)
    BY <1>2
  <2>2. a \in 1 .. n \/ a = n + 1 \/ a > n + 1
    BY <1>2
  <2> QED BY <2>1, <2>2
<1> HIDE DEF m, n
<1>7. ASSUME NEW a \in 1 .. Len(m) PROVE m[a] \in S
  BY <1>3, <1>4, <1>5, <1>6
<1>8. ASSUME NEW k \in S PROVE \E a \in 1 .. Len(m) : k = m[a]
  <2>1. CASE k \in S1
    <3>1. PICK a \in 1 .. n : k = m1[a]
      BY <2>1 DEF Listing, n
    <3> QED BY <1>3, <3>1
  <2>2. CASE k = x
    BY <1>4, <2>2
  <2>3. CASE k \in S2
    <3>1. PICK a \in 1 .. Len(m2) : k = m2[a]
      BY <2>3 DEF Listing
    <3> QED BY <1>5, <3>1
  <2> QED BY <2>1, <2>2, <2>3
<1>9. ASSUME NEW a \in 1 .. Len(m), NEW b \in 1 .. Len(m), a < b PROVE m[a] < m[b]
  <2>1. m[a] \in T!Keys /\ m[b] \in T!Keys
    BY <1>2
  <2>2. CASE a \in 1 .. n /\ b \in 1 .. n
    <3>1. m1[a] < m1[b]
      BY <1>9, <2>2 DEF Listing, n
    <3> QED BY <1>3, <2>2, <3>1
  <2>3. CASE a \in 1 .. n /\ b \notin 1 .. n
    <3>1. m[a] < x /\ (m[b] = x \/ x < m[b])
      BY <1>3, <1>4, <1>5, <1>6, <2>3
    <3>2. m[a] \in Nat /\ m[b] \in Nat /\ x \in Nat
      BY <1>1, <2>1
    <3> QED BY <3>1, <3>2
  <2>4. CASE a = n + 1
    <3>1. b \notin 1 .. n /\ b # n + 1
      BY <1>2, <1>9, <2>4
    <3> QED BY <1>4, <1>5, <1>6, <2>4, <3>1
  <2>5. CASE a \notin 1 .. n /\ a # n + 1
    <3>1. PICK c \in 1 .. Len(m2) : a = n + 1 + c
      BY <1>6, <2>5
    <3>2. b \notin 1 .. n /\ b # n + 1
      BY <1>2, <1>9, <3>1
    <3>3. PICK d \in 1 .. Len(m2) : b = n + 1 + d
      BY <1>6, <3>2
    <3>4. c < d
      BY <1>2, <1>9, <3>1, <3>3
    <3>5. m2[c] < m2[d]
      BY <3>4 DEF Listing
    <3> QED BY <1>5, <3>1, <3>3, <3>5
  <2> QED BY <1>6, <2>2, <2>3, <2>4, <2>5
<1>10. m \in Seq(T!Keys)
  BY <1>2
<1> QED BY <1>7, <1>8, <1>9, <1>10 DEF Listing, m

(* Map, for all numbers of steps and all nodes.                            *)
IsWalk(t, f) ==
  f = [d \in 0 .. MaxKey |->
        [y \in T!Ptr |->
          IF d = 0 \/ y = T!Null THEN <<>>
          ELSE f[d - 1][t.kid["left"][y]] \o <<y>> \o f[d - 1][t.kid["right"][y]]]]

TheWalk(t) == CHOOSE f : IsWalk(t, f)

LEMMA WalkExists ==
  ASSUME NEW t \in T!Tree
  PROVE  IsWalk(t, TheWalk(t))
<1> DEFINE X == [T!Ptr -> Seq(T!Keys)]
           a == [y \in T!Ptr |-> <<>>]
           F == [g \in X |-> [y \in T!Ptr |->
                               IF y = T!Null THEN <<>>
                               ELSE g[t.kid["left"][y]] \o <<y>> \o g[t.kid["right"][y]]]]
<1>1. \A y \in T!Ptr : y # T!Null =>
        y \in T!Keys /\ t.kid["left"][y] \in T!Ptr /\ t.kid["right"][y] \in T!Ptr
  BY Fields, KeyFacts
<1>2. a \in X /\ F \in [X -> X]
  BY <1>1
<1>3. MaxKey \in Nat
  BY KeyFacts
<1> HIDE DEF a, F, X
<1>4. PICK f : Iterated(f, MaxKey, X, a, F)
  BY <1>2, <1>3, Iterates
<1>5. /\ f = [d \in 0 .. MaxKey |-> IF d = 0 THEN a ELSE F[f[d - 1]]]
      /\ \A d \in 0 .. MaxKey : f[d] \in X
  BY <1>4 DEF Iterated
<1>6. ASSUME NEW d \in 0 .. MaxKey
      PROVE  (IF d = 0 THEN a ELSE F[f[d - 1]])
             = [y \in T!Ptr |->
                 IF d = 0 \/ y = T!Null THEN <<>>
                 ELSE f[d - 1][t.kid["left"][y]] \o <<y>> \o f[d - 1][t.kid["right"][y]]]
  <2>1. CASE d = 0
    BY <2>1 DEF a
  <2>2. CASE d # 0
    <3>1. d - 1 \in 0 .. MaxKey /\ f[d - 1] \in X
      <4>1. d - 1 \in 0 .. MaxKey
        BY <1>3, <2>2
      <4>2. \A b \in 0 .. MaxKey : f[b] \in X
        BY <1>5
      <4> QED BY <4>1, <4>2
    <3> QED BY <2>2, <3>1, Zenon DEF F
  <2> QED BY <2>1, <2>2
<1>7. IsWalk(t, f)
  BY <1>5, <1>6, Zenon DEF IsWalk
<1> QED BY <1>7 DEF TheWalk

(* Map lists the keys that are below the root.                             *)
LEMMA WalkFacts ==
  ASSUME NEW t, NEW sub, Shape(t, sub)
  PROVE  Listing(sub[t.root], TheWalk(t)[MaxKey][t.root])
<1> DEFINE f == TheWalk(t)
           count(y) == Cardinality(sub[y])
           Bad == {y \in sub[t.root] : \E d \in 0 .. MaxKey :
                     count(y) <= d /\ ~Listing(sub[y], f[d][y])}
<1>1. /\ t \in T!Tree /\ sub[t.root] \subseteq T!Keys /\ MaxKey \in Nat /\ t.root \in T!Ptr
      /\ T!Keys \subseteq T!Ptr /\ T!Null \in T!Ptr /\ T!Null \notin T!Keys /\ sub[T!Null] = {}
      /\ T!Keys \subseteq Nat /\ "left" \in T!Sides /\ "right" \in T!Sides /\ T!Other("left") = "right"
  BY SetsOfShape, Fields, KeyFacts DEF Sets
<1>2. ASSUME NEW d \in 0 .. MaxKey, NEW y \in T!Ptr
      PROVE  f[d][y] = IF d = 0 \/ y = T!Null THEN <<>>
                       ELSE f[d - 1][t.kid["left"][y]] \o <<y>> \o f[d - 1][t.kid["right"][y]]
  <2>1. IsWalk(t, f)
    BY <1>1, WalkExists
  <2> HIDE DEF f
  <2>2. f = [b \in 0 .. MaxKey |->
              [k \in T!Ptr |->
                IF b = 0 \/ k = T!Null THEN <<>>
                ELSE f[b - 1][t.kid["left"][k]] \o <<k>> \o f[b - 1][t.kid["right"][k]]]]
    BY <2>1, Zenon DEF IsWalk
  <2>3. f[d] = [k \in T!Ptr |->
                 IF d = 0 \/ k = T!Null THEN <<>>
                 ELSE f[d - 1][t.kid["left"][k]] \o <<k>> \o f[d - 1][t.kid["right"][k]]]
    BY <2>2, Zenon
  <2> QED BY <2>3, Zenon
<1> HIDE DEF f
<1>3. Listing({}, <<>>)
  BY DEF Listing
<1>4. \A d \in 0 .. MaxKey : Listing(sub[T!Null], f[d][T!Null])
  <2> TAKE d \in 0 .. MaxKey
  <2>1. f[d][T!Null] = <<>>
    BY <1>1, <1>2
  <2> QED BY <1>1, <1>3, <2>1
<1>5. Bad = {}
  <2> SUFFICES ASSUME Bad # {} PROVE FALSE
    OBVIOUS
  <2>1. PICK y \in Bad : \A s \in T!Sides : t.kid[s][y] \notin Bad
    <3>1. Bad \subseteq sub[t.root]
      OBVIOUS
    <3> HIDE DEF Bad
    <3> QED BY <3>1, Lowest
  <2>2. PICK d \in 0 .. MaxKey : count(y) <= d /\ ~Listing(sub[y], f[d][y])
    OBVIOUS
  <2>3. count(y) \in Nat /\ count(y) # 0
        /\ \A s \in T!Sides : t.kid[s][y] # T!Null =>
             count(t.kid[s][y]) \in Nat /\ count(t.kid[s][y]) < count(y)
    BY Sizes
  <2>4. ASSUME NEW s \in T!Sides
        PROVE  Listing(sub[t.kid[s][y]], f[d - 1][t.kid[s][y]])
    <3> DEFINE c == t.kid[s][y]
    <3>1. d # 0 /\ d - 1 \in 0 .. MaxKey /\ (c # T!Null => count(c) <= d - 1)
      <4>1. c # T!Null => count(c) \in Nat /\ count(c) < count(y)
        BY <2>3
      <4>2. count(y) \in Nat /\ count(y) # 0
        BY <2>3
      <4> HIDE DEF count, c
      <4> QED BY <1>1, <2>2, <4>1, <4>2
    <3>2. CASE c = T!Null
      BY <1>4, <3>1, <3>2
    <3>3. CASE c # T!Null
      <4>1. c \in sub[t.root]
        BY <3>3, BelowNode DEF Below
      <4> QED BY <2>1, <3>1, <3>3, <4>1
    <3> QED BY <3>2, <3>3
  <2> DEFINE a == t.kid["left"][y]
             b == t.kid["right"][y]
  <2>5. /\ sub[y] = sub[a] \cup {y} \cup sub[b] /\ y \in T!Keys
        /\ (\A k \in sub[a] : k < y) /\ (\A k \in sub[b] : y < k)
    <3>1. Below(t, sub, y, "left") /\ Below(t, sub, y, "right")
      BY <1>1, BelowNode
    <3>2. sub[y] = {y} \cup sub[a] \cup sub[b]
      BY <1>1, <3>1 DEF Below
    <3>3. (\A k \in sub[a] : Toward("left", k, y)) /\ (\A k \in sub[b] : Toward("right", k, y))
      BY <3>1 DEF Below
    <3> QED BY <1>1, <3>2, <3>3 DEF Toward
  <2>6. f[d][y] = f[d - 1][a] \o <<y>> \o f[d - 1][b]
    <3>1. d # 0
      BY <2>2, <2>3
    <3> QED BY <1>1, <1>2, <2>5, <3>1, Zenon
  <2>7. Listing(sub[a], f[d - 1][a]) /\ Listing(sub[b], f[d - 1][b])
    BY <1>1, <2>4
  <2> HIDE DEF a, b
  <2>8. Listing(sub[y], f[d][y])
    BY <2>5, <2>6, <2>7, ListingJoin
  <2> QED BY <2>2, <2>8
<1>6. MaxKey \in 0 .. MaxKey
  BY <1>1
<1>7. Listing(sub[t.root], f[MaxKey][t.root])
  <2>1. CASE t.root = T!Null
    BY <1>4, <1>6, <2>1
  <2>2. CASE t.root # T!Null
    <3>1. t.root \in sub[t.root]
      BY <2>2 DEF Shape
    <3>2. count(t.root) <= MaxKey
      BY <1>1, <3>1, Sizes
    <3> QED BY <1>5, <1>6, <3>1, <3>2
  <2> QED BY <2>1, <2>2
<1> QED BY <1>7 DEF f

LEMMA MapFacts ==
  /\ \A sub : Shape(tree, sub) => Listing(sub[tree.root], T!Map)
  /\ \A sub : Shape(tree', sub) => Listing(sub[tree'.root], T!Map')
<1>1. /\ T!Map = TheWalk(tree)[MaxKey][tree.root]
      /\ T!Map' = TheWalk(tree')[MaxKey][tree'.root]
  BY DEF T!Map, TheWalk, IsWalk
<1> QED BY <1>1, WalkFacts

LEMMA MembersFacts ==
  /\ \A sub : Shape(tree, sub) => T!Members = sub[tree.root]
  /\ \A sub : Shape(tree', sub) => T!Members' = sub[tree'.root]
<1>1. ASSUME NEW S, NEW m, Listing(S, m) PROVE {m[a] : a \in DOMAIN m} = S
  <2>1. m \in Seq(T!Keys) /\ DOMAIN m = 1 .. Len(m)
    BY <1>1 DEF Listing
  <2> QED BY <1>1, <2>1 DEF Listing
<1>2. /\ T!Members = {T!Map[a] : a \in DOMAIN T!Map}
      /\ T!Members' = {T!Map'[a] : a \in DOMAIN T!Map'}
  BY DEF T!Members, T!Range
<1> QED BY <1>1, <1>2, MapFacts

(* The key y is the one of S that is next to x on side s, or there is none.*)
NextTo(S, x, y, s) ==
  \/ /\ y \in S /\ Toward(s, y, x)
     /\ \A k \in S : Toward(s, k, x) => k = y \/ Toward(s, k, y)
  \/ y = T!Null /\ \A k \in S : ~Toward(s, k, x)

At(m, b) == IF b \in 1 .. Len(m) THEN m[b] ELSE T!Null

LEMMA ListingFacts ==
  ASSUME NEW S, NEW m, Listing(S, m)
  PROVE  /\ Len(m) \in Nat /\ \A b \in 1 .. Len(m) : m[b] \in S /\ m[b] \in Nat
         /\ \A b, c \in 1 .. Len(m) : b < c <=> m[b] < m[c]
         /\ \A k \in S : \E b \in 1 .. Len(m) : k = m[b]
<1>1. m \in Seq(T!Keys) /\ T!Keys \subseteq Nat
  BY KeyFacts DEF Listing
<1>2. Len(m) \in Nat /\ \A b \in 1 .. Len(m) : m[b] \in Nat /\ m[b] \in S
  <2>1. Len(m) \in Nat /\ \A b \in 1 .. Len(m) : m[b] \in T!Keys
    BY <1>1
  <2> QED BY <1>1, <2>1 DEF Listing
<1>3. ASSUME NEW b \in 1 .. Len(m), NEW c \in 1 .. Len(m) PROVE b < c <=> m[b] < m[c]
  <2>1. (b < c => m[b] < m[c]) /\ (c < b => m[c] < m[b])
    BY DEF Listing
  <2>2. b \in Nat /\ c \in Nat /\ m[b] \in Nat /\ m[c] \in Nat
    BY <1>2
  <2>3. b < c \/ c < b \/ b = c
    BY <2>2
  <2> QED BY <2>1, <2>2, <2>3
<1> QED BY <1>2, <1>3 DEF Listing

(* First and last keys.                                                    *)
LEMMA ListingEnds ==
  ASSUME NEW S, NEW m, Listing(S, m), NEW x \in S
  PROVE  /\ (\A k \in S \ {x} : Toward("right", k, x)) => x = At(m, 1)
         /\ (\A k \in S \ {x} : Toward("left", k, x)) => x = At(m, Len(m))
<1>1. /\ Len(m) \in Nat /\ \A b \in 1 .. Len(m) : m[b] \in S /\ m[b] \in Nat
      /\ \A b, c \in 1 .. Len(m) : b < c <=> m[b] < m[c]
  BY ListingFacts
<1>2. PICK b \in 1 .. Len(m) : x = m[b]
  BY ListingFacts
<1>3. b \in Nat /\ 1 <= b /\ b <= Len(m) /\ 1 \in 1 .. Len(m) /\ Len(m) \in 1 .. Len(m)
  BY <1>1
<1>4. ASSUME \A k \in S \ {x} : Toward("right", k, x) PROVE x = At(m, 1)
  <2>1. ~(m[1] < m[b])
    <3>1. m[1] # x => m[b] < m[1]
      BY <1>1, <1>2, <1>3, <1>4 DEF Toward
    <3>2. m[1] \in Nat /\ m[b] \in Nat
      BY <1>1, <1>3
    <3> QED BY <1>2, <3>1, <3>2
  <2>2. ~(1 < b)
    BY <1>1, <1>3, <2>1
  <2>3. b = 1
    BY <1>3, <2>2
  <2> QED BY <1>2, <1>3, <2>3 DEF At
<1>5. ASSUME \A k \in S \ {x} : Toward("left", k, x) PROVE x = At(m, Len(m))
  <2>1. ~(m[b] < m[Len(m)])
    <3>1. m[Len(m)] # x => m[Len(m)] < m[b]
      BY <1>1, <1>2, <1>3, <1>5 DEF Toward
    <3>2. m[Len(m)] \in Nat /\ m[b] \in Nat
      BY <1>1, <1>3
    <3> QED BY <1>2, <3>1, <3>2
  <2>2. ~(b < Len(m))
    BY <1>1, <1>3, <2>1
  <2>3. b = Len(m)
    BY <1>1, <1>3, <2>2
  <2> QED BY <1>2, <1>3, <2>3 DEF At
<1> QED BY <1>4, <1>5

LEMMA ListingNext ==
  ASSUME NEW S, NEW m, Listing(S, m), NEW b \in 1 .. Len(m), NEW y
  PROVE  /\ NextTo(S, m[b], y, "right") => y = At(m, b + 1)
         /\ NextTo(S, m[b], y, "left") => y = At(m, b - 1)
<1>1. /\ Len(m) \in Nat /\ \A a \in 1 .. Len(m) : m[a] \in S /\ m[a] \in Nat
      /\ \A a, c \in 1 .. Len(m) : a < c <=> m[a] < m[c]
  BY ListingFacts
<1>2. b \in Nat /\ 1 <= b /\ b <= Len(m)
  BY <1>1
<1>3. ASSUME NextTo(S, m[b], y, "right") PROVE y = At(m, b + 1)
  <2>1. CASE y \in S /\ m[b] < y /\ \A k \in S : m[b] < k => k = y \/ y < k
    <3>1. PICK c \in 1 .. Len(m) : y = m[c]
      BY <2>1, ListingFacts
    <3>2. b < c
      BY <1>1, <2>1, <3>1
    <3>3. b + 1 \in 1 .. Len(m) /\ b < b + 1
      BY <1>1, <1>2, <3>2
    <3>4. m[b + 1] = y \/ y < m[b + 1]
      BY <1>1, <2>1, <3>3
    <3>5. ~(c < b + 1)
      BY <1>2, <3>2
    <3>6. ~(y < m[b + 1])
      BY <1>1, <3>1, <3>3, <3>5
    <3> QED BY <3>3, <3>4, <3>6 DEF At
  <2>2. CASE y = T!Null /\ \A k \in S : ~(m[b] < k)
    <3>1. b + 1 \notin 1 .. Len(m)
      <4> SUFFICES ASSUME b + 1 \in 1 .. Len(m) PROVE FALSE
        OBVIOUS
      <4>1. b < b + 1
        BY <1>2
      <4>2. m[b] < m[b + 1]
        BY <1>1, <4>1
      <4> QED BY <1>1, <2>2, <4>2
    <3> QED BY <2>2, <3>1 DEF At
  <2> QED BY <1>3, <2>1, <2>2 DEF NextTo, Toward
<1>4. ASSUME NextTo(S, m[b], y, "left") PROVE y = At(m, b - 1)
  <2>1. CASE y \in S /\ y < m[b] /\ \A k \in S : k < m[b] => k = y \/ k < y
    <3>1. PICK c \in 1 .. Len(m) : y = m[c]
      BY <2>1, ListingFacts
    <3>2. c < b
      BY <1>1, <2>1, <3>1
    <3>3. b - 1 \in 1 .. Len(m) /\ b - 1 < b
      BY <1>1, <1>2, <3>2
    <3>4. m[b - 1] = y \/ m[b - 1] < y
      BY <1>1, <2>1, <3>3
    <3>5. ~(b - 1 < c)
      BY <1>2, <3>2
    <3>6. ~(m[b - 1] < y)
      BY <1>1, <3>1, <3>3, <3>5
    <3> QED BY <3>3, <3>4, <3>6 DEF At
  <2>2. CASE y = T!Null /\ \A k \in S : ~(k < m[b])
    <3>1. b - 1 \notin 1 .. Len(m)
      <4> SUFFICES ASSUME b - 1 \in 1 .. Len(m) PROVE FALSE
        OBVIOUS
      <4>1. b - 1 < b
        BY <1>2
      <4>2. m[b - 1] < m[b]
        BY <1>1, <4>1
      <4> QED BY <1>1, <2>2, <4>2
    <3> QED BY <2>2, <3>1 DEF At
  <2> QED BY <1>4, <2>1, <2>2 DEF NextTo, Toward
<1> QED BY <1>3, <1>4

(* The node q is next to all that is below y, on side s; there is none     *)
(* when q is null.                                                         *)
Beyond(t, sub, y, q, s) ==
  \/ /\ q \in sub[t.root] \ sub[y] /\ \A j \in sub[y] : Toward(s, q, j)
     /\ \A k \in sub[t.root] \ sub[y] :
          k = q \/ Toward(s, k, q) \/ \A j \in sub[y] : Toward(T!Other(s), k, j)
  \/ q = T!Null /\ \A k \in sub[t.root] \ sub[y], j \in sub[y] : Toward(T!Other(s), k, j)

LEMMA BeyondTurn ==
  ASSUME NEW t, NEW sub, Shape(t, sub), NEW y \in sub[t.root], y # t.root, NEW s \in T!Sides,
         NEW q, q = t.up[y], t.kid[s][q] # y
  PROVE  Beyond(t, sub, y, q, s)
<1> DEFINE o == T!Other(s)
           N == sub[t.root]
<1>1. o \in T!Sides /\ T!Other(o) = s /\ \A a \in T!Sides : a = s \/ a = o
  BY SideFacts
<1>2. q \in N /\ t.kid[o][q] = y
  BY <1>1, UpFacts
<1>3. N \subseteq T!Keys /\ sub[y] \subseteq N /\ sub[q] \subseteq N /\ q \in sub[q]
  BY <1>2, SetsOfShape DEF Sets
<1>4. Below(t, sub, q, o) /\ Below(t, sub, q, s)
  BY <1>1, <1>2, BelowNode
<1>5. /\ sub[y] \subseteq sub[q] /\ q \notin sub[y] /\ (\A j \in sub[y] : Toward(o, j, q))
      /\ sub[q] = {q} \cup sub[y] \cup sub[t.kid[s][q]]
      /\ \A k \in sub[t.kid[s][q]] : Toward(s, k, q)
  BY <1>1, <1>2, <1>4, Zenon DEF Below
<1> HIDE DEF o
<1>6. \A k, j \in N : Toward(s, k, j) <=> Toward(o, j, k)
  <2>1. \A k, j \in T!Keys : Toward(o, k, j) <=> Toward(s, j, k)
    BY TowardFacts DEF o
  <2> QED BY <1>3, <2>1
<1>7. \A j \in sub[y] : Toward(s, q, j)
  BY <1>2, <1>3, <1>5, <1>6
<1>8. ASSUME NEW k \in N \ sub[y], k # q
      PROVE  Toward(s, k, q) \/ \A j \in sub[y] : Toward(o, k, j)
  <2>1. CASE k \in sub[q]
    BY <1>5, <1>8, <2>1
  <2>2. CASE k \notin sub[q]
    <3>1. PICK a \in T!Sides : \A j \in sub[q] : Toward(a, j, k)
      BY <1>2, <2>2, Apart
    <3>2. CASE a = s
      BY <1>3, <1>5, <1>6, <3>1, <3>2
    <3>3. CASE a = o
      BY <1>2, <1>3, <1>6, <3>1, <3>3
    <3> QED BY <1>1, <3>2, <3>3
  <2> QED BY <2>1, <2>2
<1>9. q \in N \ sub[y]
  BY <1>2, <1>5
<1> QED BY <1>7, <1>8, <1>9 DEF Beyond, o

LEMMA BeyondUp ==
  ASSUME NEW t, NEW sub, Shape(t, sub), NEW q \in sub[t.root], NEW s \in T!Sides,
         NEW y \in sub[t.root], y = t.kid[s][q], NEW z, Beyond(t, sub, q, z, s)
  PROVE  Beyond(t, sub, y, z, s)
<1> DEFINE o == T!Other(s)
           N == sub[t.root]
<1>1. o \in T!Sides /\ T!Other(o) = s
  BY SideFacts
<1>2. N \subseteq T!Keys /\ sub[y] \subseteq N /\ q \in N
  BY SetsOfShape DEF Sets
<1>3. Below(t, sub, q, o) /\ Below(t, sub, q, s)
  BY <1>1, BelowNode, SMTT(30)
<1>4. /\ sub[y] \subseteq sub[q] /\ (\A j \in sub[y] : Toward(s, j, q))
      /\ sub[q] = {q} \cup sub[y] \cup sub[t.kid[o][q]] /\ sub[t.kid[o][q]] \subseteq sub[q]
      /\ \A k \in sub[t.kid[o][q]] : Toward(o, k, q)
  BY <1>3 DEF Below
<1>5. /\ \A k, j \in T!Keys : Toward(o, k, j) <=> Toward(s, j, k)
      /\ \A k, x, j \in T!Keys : Toward(o, k, x) /\ Toward(o, x, j) => Toward(o, k, j)
  BY <1>1, TowardFacts
<1> HIDE DEF o
<1>6. ASSUME NEW k \in sub[q] \ sub[y], NEW j \in sub[y] PROVE Toward(o, k, j)
  <2>1. j \in T!Keys /\ q \in T!Keys /\ Toward(s, j, q)
    BY <1>2, <1>4
  <2>2. Toward(o, q, j)
    BY <1>5, <2>1
  <2>3. CASE k \in sub[t.kid[o][q]]
    <3>1. sub[q] \subseteq N
      BY SetsOfShape DEF Sets
    <3>2. Toward(o, k, q) /\ k \in T!Keys
      BY <1>2, <1>4, <2>3, <3>1
    <3> QED BY <1>5, <2>1, <2>2, <3>2
  <2> QED BY <1>4, <2>2, <2>3
<1>7. CASE /\ z \in N \ sub[q] /\ \A j \in sub[q] : Toward(s, z, j)
           /\ \A k \in N \ sub[q] : k = z \/ Toward(s, k, z) \/ \A j \in sub[q] : Toward(o, k, j)
  <2>1. z \in N \ sub[y] /\ \A j \in sub[y] : Toward(s, z, j)
    BY <1>4, <1>7
  <2>2. ASSUME NEW k \in N \ sub[y]
        PROVE  k = z \/ Toward(s, k, z) \/ \A j \in sub[y] : Toward(o, k, j)
    BY <1>4, <1>6, <1>7
  <2> QED BY <2>1, <2>2 DEF Beyond, o
<1>8. CASE z = T!Null /\ \A k \in N \ sub[q], j \in sub[q] : Toward(o, k, j)
  <2>1. ASSUME NEW k \in N \ sub[y], NEW j \in sub[y] PROVE Toward(o, k, j)
    BY <1>4, <1>6, <1>8
  <2> QED BY <1>8, <2>1 DEF Beyond, o
<1> QED BY <1>7, <1>8 DEF Beyond, o

(* What goes wrong first at some node, coming from above, never does.      *)
LEMMA Highest ==
  ASSUME NEW t, NEW sub, Shape(t, sub), NEW S, S \subseteq sub[t.root], S # {}
  PROVE  \E x \in S : t.up[x] \notin S
<1> DEFINE weight(x) == MaxKey - Cardinality(sub[x])
           C == {weight(x) : x \in S}
<1>1. MaxKey \in Nat /\ \A x \in sub[t.root] : Cardinality(sub[x]) \in 1 .. MaxKey
  BY KeyFacts, Sizes
<1>2. C \subseteq Nat /\ C # {}
  BY <1>1
<1> HIDE DEF C
<1>3. PICK n \in C : \A m \in C : n <= m
  BY <1>2, Smallest
<1>4. PICK x \in S : n = weight(x)
  BY <1>3 DEF C
<1>5. ASSUME t.up[x] \in S PROVE FALSE
  <2> DEFINE q == t.up[x]
  <2>1. q \in sub[t.root] /\ x \in sub[t.root] /\ x # t.root /\ x # T!Null
    <3>1. q \in sub[t.root] /\ x \in sub[t.root] /\ T!Null \notin sub[t.root]
      BY <1>5, SetsOfShape DEF Sets
    <3>2. x # t.root
      <4>1. x = t.root => t.up[x] = T!Null
        BY <3>1, UpFacts
      <4> QED BY <3>1, <4>1
    <3> QED BY <3>1, <3>2
  <2>2. PICK s \in T!Sides : t.kid[s][q] = x
    BY <2>1, UpFacts
  <2>3. Cardinality(sub[x]) < Cardinality(sub[q])
    <3>1. \A a \in T!Sides : t.kid[a][q] # T!Null =>
            Cardinality(sub[t.kid[a][q]]) < Cardinality(sub[q])
      BY <2>1, Sizes
    <3> QED BY <2>1, <2>2, <3>1
  <2>4. weight(q) \in C
    BY <1>5 DEF C
  <2>5. n <= weight(q)
    BY <1>3, <2>4
  <2>6. Cardinality(sub[x]) \in 1 .. MaxKey /\ Cardinality(sub[q]) \in 1 .. MaxKey
    BY <1>1, <2>1
  <2> HIDE DEF q
  <2> QED BY <1>1, <1>4, <2>3, <2>5, <2>6
<1> QED BY <1>5

(* The climb of NextNode, for all numbers of steps and all nodes.          *)
IsClimb(t, s, f) ==
  f = [d \in 0 .. MaxKey |->
        [y \in T!Keys |->
          IF d = 0 \/ t.up[y] = T!Null \/ t.kid[s][t.up[y]] # y THEN t.up[y]
          ELSE f[d - 1][t.up[y]]]]

TheClimb(t, s) == CHOOSE f : IsClimb(t, s, f)

LEMMA NextNodeClimb ==
  ASSUME NEW x, NEW s
  PROVE  T!NextNode(x, s) =
           IF tree.kid[s][x] # T!Null THEN T!Outermost(tree, tree.kid[s][x], T!Other(s))
           ELSE TheClimb(tree, s)[MaxKey][x]
BY DEF T!NextNode, TheClimb, IsClimb

LEMMA ClimbExists ==
  ASSUME NEW t \in T!Tree, NEW s \in T!Sides
  PROVE  IsClimb(t, s, TheClimb(t, s))
<1> DEFINE X == [T!Keys -> T!Ptr]
           a == [y \in T!Keys |-> t.up[y]]
           F == [g \in X |-> [y \in T!Keys |->
                   IF t.up[y] = T!Null \/ t.kid[s][t.up[y]] # y THEN t.up[y] ELSE g[t.up[y]]]]
<1>1. \A y \in T!Keys : t.up[y] \in T!Ptr /\ (t.up[y] # T!Null => t.up[y] \in T!Keys)
  BY Fields, KeyFacts
<1>2. a \in X /\ F \in [X -> X]
  BY <1>1
<1>3. MaxKey \in Nat
  BY KeyFacts
<1> HIDE DEF a, F, X
<1>4. PICK f : Iterated(f, MaxKey, X, a, F)
  BY <1>2, <1>3, Iterates
<1>5. /\ f = [d \in 0 .. MaxKey |-> IF d = 0 THEN a ELSE F[f[d - 1]]]
      /\ \A d \in 0 .. MaxKey : f[d] \in X
  BY <1>4 DEF Iterated
<1>6. ASSUME NEW d \in 0 .. MaxKey
      PROVE  (IF d = 0 THEN a ELSE F[f[d - 1]])
             = [y \in T!Keys |->
                 IF d = 0 \/ t.up[y] = T!Null \/ t.kid[s][t.up[y]] # y THEN t.up[y]
                 ELSE f[d - 1][t.up[y]]]
  <2>1. CASE d = 0
    BY <2>1 DEF a
  <2>2. CASE d # 0
    <3>1. d - 1 \in 0 .. MaxKey /\ f[d - 1] \in X
      <4>1. d - 1 \in 0 .. MaxKey
        BY <1>3, <2>2
      <4>2. \A b \in 0 .. MaxKey : f[b] \in X
        BY <1>5
      <4> QED BY <4>1, <4>2
    <3> QED BY <2>2, <3>1 DEF F
  <2> QED BY <2>1, <2>2
<1>7. IsClimb(t, s, f)
  BY <1>5, <1>6 DEF IsClimb
<1> QED BY <1>7 DEF TheClimb

LEMMA ClimbFacts ==
  ASSUME NEW t, NEW sub, Shape(t, sub), NEW x \in sub[t.root], NEW s \in T!Sides
  PROVE  Beyond(t, sub, x, TheClimb(t, s)[MaxKey][x], s)
<1> DEFINE f == TheClimb(t, s)
           count(y) == Cardinality(sub[y])
           Bad == {y \in sub[t.root] : \E d \in 0 .. MaxKey :
                     MaxKey <= d + count(y) /\ ~Beyond(t, sub, y, f[d][y], s)}
<1>1. t \in T!Tree /\ sub[t.root] \subseteq T!Keys /\ MaxKey \in Nat /\ T!Null \notin sub[t.root]
  BY SetsOfShape, KeyFacts DEF Sets
<1>2. ASSUME NEW d \in 0 .. MaxKey, NEW y \in T!Keys
      PROVE  f[d][y] = IF d = 0 \/ t.up[y] = T!Null \/ t.kid[s][t.up[y]] # y THEN t.up[y]
                       ELSE f[d - 1][t.up[y]]
  <2>1. IsClimb(t, s, f)
    BY <1>1, ClimbExists, SMTT(30)
  <2> HIDE DEF f
  <2>2. f = [b \in 0 .. MaxKey |->
              [k \in T!Keys |->
                IF b = 0 \/ t.up[k] = T!Null \/ t.kid[s][t.up[k]] # k THEN t.up[k]
                ELSE f[b - 1][t.up[k]]]]
    BY <2>1 DEF IsClimb
  <2>3. f[d] = [k \in T!Keys |->
                 IF d = 0 \/ t.up[k] = T!Null \/ t.kid[s][t.up[k]] # k THEN t.up[k]
                 ELSE f[d - 1][t.up[k]]]
    BY <2>2, Zenon
  <2> QED BY <2>3
<1> HIDE DEF f
<1>3. Bad = {}
  <2> SUFFICES ASSUME Bad # {} PROVE FALSE
    OBVIOUS
  <2>1. PICK y \in Bad : t.up[y] \notin Bad
    <3>1. Bad \subseteq sub[t.root]
      OBVIOUS
    <3> HIDE DEF Bad
    <3> QED BY <3>1, Highest
  <2>2. PICK d \in 0 .. MaxKey : MaxKey <= d + count(y) /\ ~Beyond(t, sub, y, f[d][y], s)
    OBVIOUS
  <2> DEFINE q == t.up[y]
  <2>3. y \in sub[t.root] /\ y \in T!Keys
    BY <1>1
  <2>4. CASE y = t.root
    <3>1. q = T!Null
      BY <2>3, <2>4, UpFacts
    <3>2. f[d][y] = T!Null
      BY <1>2, <2>3, <3>1
    <3>3. Beyond(t, sub, y, T!Null, s)
      BY <2>4 DEF Beyond
    <3> QED BY <2>2, <3>2, <3>3
  <2>5. CASE y # t.root
    <3>1. q \in sub[t.root] /\ \E a \in T!Sides : t.kid[a][q] = y
      BY <2>3, <2>5, UpFacts
    <3>2. CASE t.kid[s][q] # y
      <4>1. f[d][y] = q
        BY <1>2, <2>3, <3>2
      <4>2. Beyond(t, sub, y, q, s)
        BY <2>3, <2>5, <3>2, BeyondTurn
      <4> QED BY <2>2, <4>1, <4>2
    <3>3. CASE t.kid[s][q] = y
      <4>1. count(y) < count(q)
        <5>1. \A a \in T!Sides : t.kid[a][q] # T!Null => count(t.kid[a][q]) < count(q)
          BY <3>1, Sizes
        <5>2. t.kid[s][q] # T!Null
          BY <1>1, <2>3, <3>3
        <5> HIDE DEF count, q
        <5> QED BY <3>3, <5>1, <5>2
      <4>2. count(y) \in 1 .. MaxKey /\ count(q) \in 1 .. MaxKey
        BY <2>3, <3>1, Sizes
      <4>3. d # 0 /\ d - 1 \in 0 .. MaxKey /\ MaxKey <= d - 1 + count(q)
        <5> HIDE DEF count, q
        <5> QED BY <1>1, <2>2, <4>1, <4>2
      <4>4. f[d][y] = f[d - 1][q]
        BY <1>1, <1>2, <2>3, <3>1, <3>3, <4>3
      <4>5. Beyond(t, sub, q, f[d - 1][q], s)
        BY <2>1, <3>1, <4>3
      <4> HIDE DEF q
      <4>6. Beyond(t, sub, y, f[d - 1][q], s)
        BY <2>3, <3>1, <3>3, <4>5, BeyondUp
      <4> QED BY <2>2, <4>4, <4>6
    <3> QED BY <3>2, <3>3
  <2> QED BY <2>4, <2>5
<1>4. MaxKey <= MaxKey + count(x) /\ MaxKey \in 0 .. MaxKey
  <2>1. count(x) \in 1 .. MaxKey
    BY Sizes
  <2> HIDE DEF count
  <2> QED BY <1>1, <2>1
<1> QED BY <1>3, <1>4 DEF f

(* rb_next and rb_prev.                                                    *)
LEMMA NextNodeFacts ==
  ASSUME NEW sub, Shape(tree, sub), NEW x \in sub[tree.root], NEW s \in T!Sides
  PROVE  NextTo(sub[tree.root], x, T!NextNode(x, s), s)
<1> DEFINE t == tree
           N == sub[t.root]
           o == T!Other(s)
           c == t.kid[s][x]
           y == T!NextNode(x, s)
<1>1. o \in T!Sides /\ T!Other(o) = s /\ \A a \in T!Sides : a = s \/ a = o
  BY SideFacts
<1>2. N \subseteq T!Keys /\ x \in sub[x] /\ x \in T!Keys /\ T!Null \notin N /\ sub[x] \subseteq N
  BY SetsOfShape DEF Sets
<1>3. Below(t, sub, x, s) /\ Below(t, sub, x, o)
  BY <1>1, BelowNode
<1>4. /\ \A k \in T!Keys : ~Toward(s, k, k)
      /\ \A k, j \in T!Keys : Toward(o, k, j) <=> Toward(s, j, k)
      /\ \A k, j, a \in T!Keys : Toward(s, k, j) /\ Toward(s, j, a) => Toward(s, k, a)
  BY TowardFacts
<1>5. y = IF c # T!Null THEN T!Outermost(t, c, o) ELSE TheClimb(t, s)[MaxKey][x]
  BY NextNodeClimb
<1>6. CASE c # T!Null
  <2>1. c \in N /\ sub[c] \subseteq sub[x] /\ sub[x] = {x} \cup sub[c] \cup sub[t.kid[o][x]]
        /\ (\A k \in sub[c] : Toward(s, k, x)) /\ (\A k \in sub[t.kid[o][x]] : Toward(o, k, x))
    BY <1>3, <1>6 DEF Below
  <2>2. Extreme(t, sub, c, o, y)
    BY <1>1, <1>5, <1>6, <2>1, OutermostFacts
  <2>3. y \in sub[c] /\ \A k \in sub[c] \ {y} : Toward(s, k, y)
    BY <1>1, <2>2 DEF Extreme
  <2>4. y \in N /\ Toward(s, y, x)
    BY <1>2, <2>1, <2>3
  <2> HIDE DEF y, c, o
  <2>5. ASSUME NEW k \in N, Toward(s, k, x), k # y PROVE Toward(s, k, y)
    <3>1. CASE k \in sub[x]
      <4>1. k \in T!Keys /\ k # x /\ ~Toward(o, k, x)
        <5>1. k \in T!Keys /\ x \in T!Keys /\ Toward(s, k, x)
          BY <1>2, <2>5
        <5>2. ~Toward(s, x, k)
          BY <1>4, <5>1
        <5> QED BY <1>4, <5>1, <5>2
      <4>2. k \in sub[c]
        BY <2>1, <3>1, <4>1
      <4> QED BY <2>3, <2>5, <4>2
    <3>2. CASE k \notin sub[x]
      <4>1. PICK a \in T!Sides : \A j \in sub[x] : Toward(a, j, k)
        BY <3>2, Apart
      <4>2. k \in T!Keys /\ y \in T!Keys /\ y \in sub[x]
        BY <1>2, <2>1, <2>3, <2>4
      <4>3. a # s
        <5>1. a = s => Toward(s, x, k)
          BY <1>2, <4>1
        <5>2. ~Toward(s, x, k)
          BY <1>2, <1>4, <2>5, <4>2
        <5> QED BY <5>1, <5>2
      <4>4. Toward(o, y, k)
        BY <1>1, <4>1, <4>2, <4>3
      <4> QED BY <1>4, <4>2, <4>4
    <3> QED BY <3>1, <3>2
  <2> QED BY <2>4, <2>5 DEF NextTo, y
<1>7. CASE c = T!Null
  <2>1. Beyond(t, sub, x, y, s)
    BY <1>5, <1>7, ClimbFacts
  <2>2. sub[x] = {x} \cup sub[t.kid[o][x]] /\ \A k \in sub[t.kid[o][x]] : Toward(o, k, x)
    BY <1>3, <1>7 DEF Below
  <2> HIDE DEF y, o
  <2>3. ASSUME NEW k \in N, Toward(s, k, x) PROVE k \notin sub[x] /\ ~Toward(o, k, x)
    <3>1. k \in T!Keys /\ ~Toward(s, x, k) /\ k # x
      BY <1>2, <1>4, <2>3
    <3>2. ~Toward(o, k, x)
      BY <1>2, <1>4, <3>1
    <3> QED BY <2>2, <3>1, <3>2
  <2>4. CASE /\ y \in N \ sub[x] /\ \A j \in sub[x] : Toward(s, y, j)
             /\ \A k \in N \ sub[x] : k = y \/ Toward(s, k, y) \/ \A j \in sub[x] : Toward(o, k, j)
    <3>1. y \in N /\ Toward(s, y, x)
      BY <1>2, <2>4
    <3>2. \A k \in N : Toward(s, k, x) => k = y \/ Toward(s, k, y)
      BY <1>2, <2>3, <2>4
    <3> QED BY <3>1, <3>2 DEF NextTo, y
  <2>5. CASE y = T!Null /\ \A k \in N \ sub[x], j \in sub[x] : Toward(o, k, j)
    <3>1. \A k \in N : ~Toward(s, k, x)
      BY <1>2, <2>3, <2>5
    <3> QED BY <2>5, <3>1 DEF NextTo, y
  <2> QED BY <2>1, <2>4, <2>5 DEF Beyond, o
<1> QED BY <1>6, <1>7

(* The numbers of Blacks, for all numbers of steps and all nodes.          *)
IsCount(f) ==
  f = [d \in 0 .. MaxKey |->
        [x \in T!Ptr |->
          IF d = 0 \/ x = T!Null THEN {0}
          ELSE UNION {{n + (IF /\ pc = "erase_color" /\ x = parent
                               /\ node = tree.kid[s][x] THEN 1 ELSE 0)
                         + (IF x \in tree.red THEN 0 ELSE 1) :
                         n \in f[d - 1][tree.kid[s][x]]} : s \in T!Sides}]]

TheCount == CHOOSE f : IsCount(f)

LEMMA BlacksCount == T!Blacks = TheCount[MaxKey][tree.root]
BY DEF T!Blacks, TheCount, IsCount

LEMMA CountExists ==
  ASSUME tree \in T!Tree
  PROVE  IsCount(TheCount)
<1> DEFINE X == [T!Ptr -> SUBSET Nat]
           more(x, s) == (IF /\ pc = "erase_color" /\ x = parent
                             /\ node = tree.kid[s][x] THEN 1 ELSE 0)
           own(x) == (IF x \in tree.red THEN 0 ELSE 1)
           U(g, x) == UNION {{n + more(x, s) + own(x) : n \in g[tree.kid[s][x]]} : s \in T!Sides}
           a == [x \in T!Ptr |-> {0}]
           F == [g \in X |-> [x \in T!Ptr |-> IF x = T!Null THEN {0} ELSE U(g, x)]]
<1>1. \A x \in T!Ptr, s \in T!Sides : x # T!Null => tree.kid[s][x] \in T!Ptr
  BY Fields, KeyFacts
<1>2. a \in X
  OBVIOUS
<1>3. F \in [X -> X]
  <2>1. ASSUME NEW g \in X, NEW x \in T!Ptr, x # T!Null PROVE U(g, x) \in SUBSET Nat
    <3>1. \A s \in T!Sides : g[tree.kid[s][x]] \in SUBSET Nat
      BY <1>1, <2>1
    <3>2. \A s \in T!Sides : more(x, s) \in Nat /\ own(x) \in Nat
      OBVIOUS
    <3> HIDE DEF more, own
    <3>3. \A s \in T!Sides, n \in Nat : n + more(x, s) + own(x) \in Nat
      BY <3>2
    <3> QED BY <3>1, <3>3
  <2> HIDE DEF U
  <2>2. ASSUME NEW g \in X
        PROVE  [x \in T!Ptr |-> IF x = T!Null THEN {0} ELSE U(g, x)] \in X
    BY <2>1
  <2> QED BY <2>2
<1>4. MaxKey \in Nat
  BY KeyFacts
<1> HIDE DEF a, F, X
<1>5. PICK f : Iterated(f, MaxKey, X, a, F)
  BY <1>2, <1>3, <1>4, Iterates
<1>6. /\ f = [d \in 0 .. MaxKey |-> IF d = 0 THEN a ELSE F[f[d - 1]]]
      /\ \A d \in 0 .. MaxKey : f[d] \in X
  BY <1>5 DEF Iterated
<1> HIDE DEF U
<1>7. ASSUME NEW d \in 0 .. MaxKey
      PROVE  (IF d = 0 THEN a ELSE F[f[d - 1]])
             = [x \in T!Ptr |-> IF d = 0 \/ x = T!Null THEN {0} ELSE U(f[d - 1], x)]
  <2>1. CASE d = 0
    BY <2>1 DEF a
  <2>2. CASE d # 0
    <3>1. d - 1 \in 0 .. MaxKey /\ f[d - 1] \in X
      <4>1. d - 1 \in 0 .. MaxKey
        BY <1>4, <2>2
      <4>2. \A b \in 0 .. MaxKey : f[b] \in X
        BY <1>6
      <4> QED BY <4>1, <4>2
    <3> QED BY <2>2, <3>1 DEF F
  <2> QED BY <2>1, <2>2
<1>8. f = [d \in 0 .. MaxKey |->
             [x \in T!Ptr |-> IF d = 0 \/ x = T!Null THEN {0} ELSE U(f[d - 1], x)]]
  BY <1>6, <1>7, SMTT(40)
<1>9. IsCount(f)
  BY <1>8, Zenon DEF IsCount, U
<1> QED BY <1>9 DEF TheCount

(* All paths have the same number of black nodes.                          *)
LEMMA BlacksFacts ==
  ASSUME NEW sub, NEW bh, Shape(tree, sub),
         Height(tree, sub, bh, IF pc = "erase_color" THEN parent ELSE T!Null, node)
  PROVE  T!Blacks = {bh[tree.root]}
<1> DEFINE N == sub[tree.root]
           p == IF pc = "erase_color" THEN parent ELSE T!Null
           f == TheCount
           count(y) == Cardinality(sub[y])
           Bad == {y \in N : \E d \in 0 .. MaxKey : count(y) <= d /\ f[d][y] # {bh[y]}}
<1>1. /\ tree \in T!Tree /\ MaxKey \in Nat /\ tree.root \in T!Ptr /\ N \subseteq T!Ptr
      /\ T!Null \in T!Ptr /\ T!Null \notin N /\ T!Sides # {}
  BY SetsOfShape, Fields, KeyFacts DEF Sets
<1>2. ASSUME NEW d \in 0 .. MaxKey, NEW x \in T!Ptr, x \in N \cup {T!Null}
      PROVE  f[d][x] = IF d = 0 \/ x = T!Null THEN {0}
                       ELSE UNION {{n + Lack(tree, x, s, p, node) + Weight(tree, x) :
                                      n \in f[d - 1][tree.kid[s][x]]} : s \in T!Sides}
  <2>1. IsCount(f)
    BY <1>1, CountExists
  <2> HIDE DEF f
  <2> DEFINE more(y, s) == (IF /\ pc = "erase_color" /\ y = parent
                               /\ node = tree.kid[s][y] THEN 1 ELSE 0)
             own(y) == (IF y \in tree.red THEN 0 ELSE 1)
             U(g, y) == UNION {{n + more(y, s) + own(y) : n \in g[tree.kid[s][y]]} : s \in T!Sides}
  <2>2. f = [b \in 0 .. MaxKey |->
              [y \in T!Ptr |-> IF b = 0 \/ y = T!Null THEN {0} ELSE U(f[b - 1], y)]]
    BY <2>1, Zenon DEF IsCount
  <2> HIDE DEF U
  <2>3. f[d] = [y \in T!Ptr |-> IF d = 0 \/ y = T!Null THEN {0} ELSE U(f[d - 1], y)]
    BY <2>2, Zenon
  <2>4. f[d][x] = IF d = 0 \/ x = T!Null THEN {0} ELSE U(f[d - 1], x)
    BY <2>3
  <2>5. ASSUME x # T!Null
        PROVE  own(x) = Weight(tree, x) /\ \A s \in T!Sides : more(x, s) = Lack(tree, x, s, p, node)
    BY <2>5 DEF Weight, Lack
  <2> HIDE DEF more, own
  <2>6. x # T!Null =>
          U(f[d - 1], x) = UNION {{n + Lack(tree, x, s, p, node) + Weight(tree, x) :
                                      n \in f[d - 1][tree.kid[s][x]]} : s \in T!Sides}
    BY <2>5 DEF U
  <2> QED BY <2>4, <2>6, Zenon
<1> HIDE DEF f, p
<1>3. bh \in [T!Ptr -> Nat] /\ bh[T!Null] = 0
      /\ \A x \in N, s \in T!Sides :
           bh[x] = bh[tree.kid[s][x]] + Lack(tree, x, s, p, node) + Weight(tree, x)
  BY DEF Height, p
<1>4. \A d \in 0 .. MaxKey : f[d][T!Null] = {bh[T!Null]}
  BY <1>1, <1>2, <1>3
<1>5. Bad = {}
  <2> SUFFICES ASSUME Bad # {} PROVE FALSE
    OBVIOUS
  <2>1. PICK y \in Bad : \A s \in T!Sides : tree.kid[s][y] \notin Bad
    <3>1. Bad \subseteq sub[tree.root]
      OBVIOUS
    <3> HIDE DEF Bad
    <3> QED BY <3>1, Lowest
  <2>2. PICK d \in 0 .. MaxKey : count(y) <= d /\ f[d][y] # {bh[y]}
    OBVIOUS
  <2>3. count(y) \in Nat /\ count(y) # 0
        /\ \A s \in T!Sides : tree.kid[s][y] # T!Null =>
             count(tree.kid[s][y]) \in Nat /\ count(tree.kid[s][y]) < count(y)
    BY Sizes
  <2>4. y \in N /\ y \in T!Ptr /\ y # T!Null
    BY <1>1
  <2>5. ASSUME NEW s \in T!Sides
        PROVE  f[d - 1][tree.kid[s][y]] = {bh[tree.kid[s][y]]}
    <3> DEFINE c == tree.kid[s][y]
    <3>1. d # 0 /\ d - 1 \in 0 .. MaxKey /\ (c # T!Null => count(c) <= d - 1)
      <4>1. c # T!Null => count(c) \in Nat /\ count(c) < count(y)
        BY <2>3
      <4>2. count(y) \in Nat /\ count(y) # 0
        BY <2>3
      <4> HIDE DEF count, c
      <4> QED BY <1>1, <2>2, <4>1, <4>2
    <3>2. CASE c = T!Null
      BY <1>4, <3>1, <3>2
    <3>3. CASE c # T!Null
      <4>1. c \in N
        BY <2>4, <3>3, BelowNode DEF Below
      <4> QED BY <2>1, <3>1, <3>3, <4>1
    <3> QED BY <3>2, <3>3
  <2>6. \A s \in T!Sides : {n + Lack(tree, y, s, p, node) + Weight(tree, y) :
                              n \in f[d - 1][tree.kid[s][y]]} = {bh[y]}
    <3> TAKE s \in T!Sides
    <3>1. f[d - 1][tree.kid[s][y]] = {bh[tree.kid[s][y]]}
      BY <2>5
    <3>2. bh[y] = bh[tree.kid[s][y]] + Lack(tree, y, s, p, node) + Weight(tree, y)
      BY <1>3, <2>4
    <3> QED BY <3>1, <3>2
  <2>7. f[d][y] = UNION {{n + Lack(tree, y, s, p, node) + Weight(tree, y) :
                              n \in f[d - 1][tree.kid[s][y]]} : s \in T!Sides}
    <3>1. d # 0
      BY <2>2, <2>3
    <3> QED BY <1>2, <2>4, <3>1
  <2>8. f[d][y] = {bh[y]}
    BY <1>1, <2>6, <2>7, SMTT(30)
  <2> QED BY <2>2, <2>8
<1>6. MaxKey \in 0 .. MaxKey
  BY <1>1
<1>7. f[MaxKey][tree.root] = {bh[tree.root]}
  <2>1. CASE tree.root = T!Null
    BY <1>4, <1>6, <2>1
  <2>2. CASE tree.root # T!Null
    <3>1. tree.root \in N
      BY <2>2 DEF Shape
    <3>2. count(tree.root) <= MaxKey
      BY <1>1, <3>1, Sizes
    <3> QED BY <1>5, <1>6, <3>1, <3>2
  <2> QED BY <2>1, <2>2
<1> QED BY <1>7, BlacksCount DEF f

-----------------------------------------------------------------------------
LEMMA TreeBegins == ContainersInit => TreeInv
<1> SUFFICES ASSUME ContainersInit PROVE TreeInv
  OBVIOUS
<1> DEFINE sub == [w \in T!Ptr |-> {}]
           bh == [w \in T!Ptr |-> 0]
<1>1. /\ tree = T!EmptyTree /\ op = "none" /\ key = T!Null /\ pc = "idle" /\ node = T!Null
      /\ parent = T!Null
  BY DEF ContainersInit, T!TreeInit
<1>2. T!Null \in T!Ptr
  BY KeyFacts
<1>3. tree \in T!Tree /\ tree.root = T!Null
  BY <1>1, <1>2 DEF T!EmptyTree, T!Tree
<1>4. sub \in [T!Ptr -> SUBSET T!Keys] /\ sub[T!Null] = {} /\ bh \in [T!Ptr -> Nat] /\ bh[T!Null] = 0
  BY <1>2
<1> HIDE DEF sub, bh
<1>5. Sound(tree, sub, bh, T!Null, T!Null, T!Null, T!Null)
  BY <1>3, <1>4 DEF Sound, Shape, Height, Reds
<1>6. Standing(sub, bh)
  BY <1>1, <1>5 DEF Standing
<1>7. Places
  BY <1>1, <1>2 DEF Places
<1> QED BY <1>6, <1>7 DEF TreeInv

(* A step on the tree, or another.                                         *)
LEMMA TreeMoves ==
  ASSUME [ContainersNext]_allVars
  PROVE  T!TreeNext \/ UNCHANGED treeVars
BY DEF ContainersNext, allVars

LEMMA TreeKept == TreeInv /\ [ContainersNext]_allVars => TreeInv'
<1> SUFFICES ASSUME TreeInv, [ContainersNext]_allVars PROVE TreeInv'
  OBVIOUS
<1>1. Places /\ \E sub, bh : Standing(sub, bh)
  BY DEF TreeInv
<1>2. PICK sub, bh : Standing(sub, bh)
  BY <1>1
<1>3. CASE T!TreeNext
  <2>1. Preserved(sub)
    BY <1>1, <1>2, <1>3, TreeStep
  <2>2. Places' /\ \E v, h : Standing(v, h)'
    BY <2>1 DEF Preserved
  <2> QED BY <2>2 DEF TreeInv
<1>4. CASE UNCHANGED treeVars
  <2>1. /\ tree' = tree /\ op' = op /\ key' = key /\ pc' = pc /\ node' = node
        /\ parent' = parent
    BY <1>4 DEF treeVars
  <2>2. Places'
    BY <1>1, <2>1 DEF Places
  <2>3. Standing(sub, bh)'
    BY <1>2, <2>1 DEF Standing, Descended, T!SideOf
  <2> QED BY <2>2, <2>3 DEF TreeInv
<1> QED BY <1>3, <1>4, TreeMoves

LEMMA TreeTyped == TreeInv => T!TreeTypeOK
<1> SUFFICES ASSUME TreeInv PROVE T!TreeTypeOK
  OBVIOUS
<1>1. PICK sub, bh : Standing(sub, bh)
  BY DEF TreeInv
<1>2. tree \in T!Tree
  BY <1>1, StandingShape DEF Shape
<1> QED BY <1>2 DEF TreeInv, Places, T!TreeTypeOK

(* Where the black node is missing, there alone.                           *)
LEMMA StandingHeight ==
  ASSUME NEW sub, NEW bh, Standing(sub, bh)
  PROVE  Height(tree, sub, bh, IF pc = "erase_color" THEN parent ELSE T!Null, node)
<1>1. CASE pc = "erase_color"
  BY <1>1 DEF Standing, Sound
<1>2. CASE pc = "insert_color"
  BY <1>2, SoundAnywhere DEF Standing, Sound
<1>3. CASE pc \notin {"insert_color", "erase_color"}
  BY <1>3, SoundAnywhere DEF Standing, Sound
<1> QED BY <1>1, <1>2, <1>3

LEMMA StandingReds ==
  ASSUME NEW sub, NEW bh, Places, Standing(sub, bh),
         NEW x \in sub[tree.root] \cap tree.red, tree.up[x] \in tree.red \cup {T!Null}
  PROVE  \/ pc = "insert_color" /\ x = node
         \/ pc = "erase_color" /\ node \in {x, tree.up[x]}
<1>1. x # T!Null
  BY StandingShape, SetsOfShape DEF Sets
<1>2. CASE pc = "erase_color"
  BY <1>2 DEF Standing, Sound, Reds
<1>3. CASE pc = "insert_color"
  BY <1>3 DEF Standing, Sound, Reds
<1>4. CASE pc \notin {"insert_color", "erase_color"}
  BY <1>1, <1>4 DEF Standing, Sound, Reds
<1> QED BY <1>2, <1>3, <1>4

(* rb_first and rb_last.                                                   *)
LEMMA FirstNodeFacts ==
  ASSUME NEW sub, Shape(tree, sub), NEW m, Listing(sub[tree.root], m)
  PROVE  T!FirstNode("left") = At(m, 1) /\ T!FirstNode("right") = At(m, Len(m))
<1> DEFINE N == sub[tree.root]
<1>1. Len(m) \in Nat /\ \A b \in 1 .. Len(m) : m[b] \in N
  BY ListingFacts
<1>2. CASE tree.root = T!Null
  <2>1. N = {}
    BY <1>2 DEF Shape
  <2>2. 1 \notin 1 .. Len(m) /\ Len(m) \notin 1 .. Len(m)
    BY <1>1, <2>1
  <2> QED BY <1>2, <2>2 DEF T!FirstNode, At
<1>3. CASE tree.root # T!Null
  <2>1. tree.root \in N
    BY <1>3 DEF Shape
  <2>2. ASSUME NEW s \in T!Sides
        PROVE  /\ T!FirstNode(s) \in N
               /\ \A k \in N \ {T!FirstNode(s)} : Toward(T!Other(s), k, T!FirstNode(s))
    <3>1. T!FirstNode(s) = T!Outermost(tree, tree.root, s)
      BY <1>3 DEF T!FirstNode
    <3> QED BY <2>1, <3>1, OutermostFacts DEF Extreme
  <2>3. "left" \in T!Sides /\ "right" \in T!Sides
        /\ T!Other("left") = "right" /\ T!Other("right") = "left"
    BY KeyFacts
  <2> QED BY <2>2, <2>3, ListingEnds
<1> QED BY <1>2, <1>3

LEMMA TreeCardinality == \A S : T!Cardinality(S) = Cardinality(S)
BY DEF T!Cardinality, Cardinality

LEMMA TreeRedBlack == TreeInv => RedBlack
<1> SUFFICES ASSUME TreeInv PROVE RedBlack
  OBVIOUS
<1> DEFINE m == T!Map
<1>1. PICK sub, bh : Standing(sub, bh)
  BY DEF TreeInv
<1>2. Shape(tree, sub) /\ Places
  BY <1>1, StandingShape DEF TreeInv
<1> DEFINE N == sub[tree.root]
<1>3. Listing(N, m) /\ T!Members = N
  BY <1>2, MapFacts, MembersFacts
<1>4. Len(m) \in Nat /\ \A a \in 1 .. Len(m) : m[a] \in N
  BY <1>3, ListingFacts
<1> HIDE DEF m
<1>5. \A a \in 1 .. Len(m) - 1 : m[a] < m[a + 1]
  <2> TAKE a \in 1 .. Len(m) - 1
  <2>1. a \in 1 .. Len(m) /\ a + 1 \in 1 .. Len(m) /\ a < a + 1
    BY <1>4
  <2> QED BY <1>3, <2>1 DEF Listing
<1>6. T!FirstNode("left") = At(m, 1) /\ T!FirstNode("right") = At(m, Len(m))
  BY <1>2, <1>3, FirstNodeFacts
<1>7. \A a \in 1 .. Len(m) : /\ T!NextNode(At(m, a), "right") = At(m, a + 1)
                             /\ T!NextNode(At(m, a), "left") = At(m, a - 1)
  <2> TAKE a \in 1 .. Len(m)
  <2>1. m[a] \in N /\ At(m, a) = m[a]
    BY <1>4 DEF At
  <2>2. "left" \in T!Sides /\ "right" \in T!Sides
    BY KeyFacts
  <2>3. /\ NextTo(N, m[a], T!NextNode(m[a], "right"), "right")
        /\ NextTo(N, m[a], T!NextNode(m[a], "left"), "left")
    BY <1>2, <2>1, <2>2, NextNodeFacts
  <2> QED BY <1>3, <2>1, <2>3, ListingNext
<1>8. T!Cardinality(T!Blacks) = 1
  <2>1. T!Blacks = {bh[tree.root]}
    BY <1>1, <1>2, StandingHeight, BlacksFacts
  <2>2. Cardinality({bh[tree.root]}) = 1
    BY FS_Singleton
  <2> QED BY <2>1, <2>2, TreeCardinality
<1>9. \A x \in T!Members \cap tree.red :
        tree.up[x] \in tree.red \cup {T!Null} =>
          \/ pc = "insert_color" /\ x = node
          \/ pc = "erase_color" /\ node \in {x, tree.up[x]}
  BY <1>1, <1>2, <1>3, StandingReds
<1> QED BY <1>5, <1>6, <1>7, <1>8, <1>9 DEF RedBlack, T!RedBlack, m, At

(* In the middle of a call, too, a map and walks over the tree find the    *)
(* same keys, in order, and between two passes of a loop it is a           *)
(* red-black tree but for one place (RedBlack).                            *)
THEOREM AlwaysRedBlack == ContainersSpec => []RedBlack
BY TreeBegins, TreeKept, TreeRedBlack, PTL DEF ContainersSpec

(* The variables of all containers have values of their types, the queue   *)
(* of the sorting test's list no more entries than it has room for         *)
(* (ContainersTypeOK).                                                     *)
THEOREM AlwaysContainersTypeOK == ContainersSpec => []ContainersTypeOK
<1>1. ContainersInit => D!ListTypeOK
  BY ContainersAssumption DEF ContainersInit, D!ListInit, D!ListTypeOK
<1>2. D!ListTypeOK /\ [ContainersNext]_allVars => D!ListTypeOK'
  <2> SUFFICES ASSUME D!ListTypeOK, [ContainersNext]_allVars PROVE D!ListTypeOK'
    OBVIOUS
  <2>1. CASE D!AddOrRemove
    <3>1. /\ max \in 0 .. MaxListSize /\ MaxListSize \in Nat /\ max \in Nat /\ listSize \in Nat
          /\ up \in BOOLEAN /\ listSize <= IF max = 0 THEN 1 ELSE max
      BY ContainersAssumption DEF D!ListTypeOK
    <3>2. CASE D!Grow
      <4>1. listSize' \in 0 .. IF max = 0 THEN 1 ELSE max
        BY <3>1, <3>2 DEF D!Grow
      <4> QED BY <3>1, <3>2, <4>1 DEF D!ListTypeOK, D!Grow
    <3>3. CASE D!Shrink
      <4>1. listSize' \in 0 .. IF max = 0 THEN 1 ELSE max
        BY <3>1, <3>3 DEF D!Shrink
      <4> QED BY <3>1, <3>3, <4>1 DEF D!ListTypeOK, D!Shrink
    <3>4. CASE D!TurnAround \/ D!Huh
      <4>1. max' = max /\ listSize' = listSize /\ up' \in BOOLEAN
        BY <3>1, <3>4 DEF D!TurnAround, D!Huh, D!vars
      <4> QED BY <4>1 DEF D!ListTypeOK
    <3> QED BY <2>1, <3>2, <3>3, <3>4 DEF D!AddOrRemove
  <2>2. CASE UNCHANGED sortVars
    BY <2>2 DEF sortVars, D!ListTypeOK
  <2> QED BY <2>1, <2>2 DEF ContainersNext, allVars
<1>3. ListsInv /\ TreeInv /\ D!ListTypeOK /\ AttributesInv => ContainersTypeOK
  BY TreeTyped DEF ListsInv, AttributesInv, ContainersTypeOK
<1> QED BY <1>1, <1>2, <1>3, TreeBegins, TreeKept, ListsBegin, ListsKept,
       AttributesBegin, AttributesKept, PTL DEF ContainersSpec

(* Whatever the tree does on the way, to its callers it is a set of keys,  *)
(* that changes once in a call (ImplementsKeySet).                         *)
THEOREM TreeIsKeySet == ContainersSpec => ImplementsKeySet
<1>1. ContainersInit => T!S!Init
  <2> SUFFICES ASSUME ContainersInit PROVE T!Members = {}
    BY DEF T!S!Init
  <2>1. PICK sub, bh : Standing(sub, bh)
    BY TreeBegins DEF TreeInv
  <2>2. Shape(tree, sub) /\ tree.root = T!Null
    BY <2>1, StandingShape DEF ContainersInit, T!TreeInit, T!EmptyTree
  <2> QED BY <2>2, MembersFacts DEF Shape
<1>2. TreeInv /\ [ContainersNext]_allVars => [T!S!Next]_(T!Members)
  <2> SUFFICES ASSUME TreeInv, [ContainersNext]_allVars
               PROVE  T!S!Next \/ T!Members' = T!Members
    OBVIOUS
  <2>1. CASE T!TreeNext
    <3>1. PICK sub, bh : Standing(sub, bh)
      BY DEF TreeInv
    <3>2. Preserved(sub)
      BY <2>1, <3>1, TreeStep DEF TreeInv
    <3>3. PICK v, h : Standing(v, h)' /\ Alters(sub[tree.root], v[tree'.root])
      BY <3>2 DEF Preserved
    <3>4. T!Members = sub[tree.root]
      BY <3>1, StandingShape, MembersFacts
    <3>5. Shape(tree', v)
      BY <3>3 DEF Standing, Sound
    <3>6. T!Members' = v[tree'.root]
      BY <3>5, MembersFacts
    <3>7. Alters(T!Members, T!Members')
      BY <3>3, <3>4, <3>6
    <3>8. T!Members \subseteq T!Keys
      BY <3>1, <3>4, StandingShape, SetsOfShape DEF Sets
    <3> HIDE DEF T!Members
    <3> QED BY <3>7, <3>8 DEF Alters, T!S!Next, T!S!Insert, T!S!Delete
  <2>2. CASE UNCHANGED treeVars
    BY <2>2 DEF treeVars, T!Members, T!Map
  <2> QED BY <2>1, <2>2, TreeMoves
<1> QED BY <1>1, <1>2, TreeBegins, TreeKept, PTL
        DEF ContainersSpec, ImplementsKeySet, T!ImplementsKeySet, T!S!Spec
================================================================================
