SPECIFICATION SortSpec
CONSTANTS
  First = 2
  Batch = 1
  MaxKeys = 4
  Subs = {s1}
INVARIANTS SortTypeOK KeysInOrder QueryAtOnce
PROPERTIES KeysPublished NeverOlder SubscribersEnd
\* The test ends.
CHECK_DEADLOCK FALSE
