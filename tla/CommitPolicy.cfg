SPECIFICATION Spec
CONSTANTS
  Subs = {s1, s2}
  Asked = {0, 3, 5}
  IntervalValues = 8
  FlagValues = 64
  Unit = 1
  Second = 4
  Word = 1024
  EwmaDefault = 2
  MaxTime = 10
  MaxRefs = 1
INVARIANTS WaitersAreServed ServedIsFresh ElapsedIsAge EwmaInRange
\* The modelled clock ends at MaxTime; whoever waits then waits for ever.
CHECK_DEADLOCK FALSE
