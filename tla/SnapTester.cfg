SPECIFICATION Spec
CONSTANTS
  Cells = {1, 2}
  Values = {0, 1}
  NumWrites = 5
  Frequency = 2
  SwitchAt = 2
  MaxRuns = 2
INVARIANTS Agree LeftClean
PROPERTY TestEnds
\* Nobody need run the test again.
CHECK_DEADLOCK FALSE
