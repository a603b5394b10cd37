SPECIFICATION ContainersSpec
CONSTANTS
  SlabIncrement = 2
  MaxSlots = 6
  MaxKey = 8
  MaxListSize = 4
  Increment = 4
  MaxVertices = 6
  MaxFile = 3
INVARIANTS ContainersTypeOK FreeListSound LoopSeesAll RedBlack AttributesFound
PROPERTIES CallsEnd ImplementsKeySet
\* The loop over the list ends.
CHECK_DEADLOCK FALSE
