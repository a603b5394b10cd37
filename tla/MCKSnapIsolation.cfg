\* Expected to fail: see the README, "Findings".
SPECIFICATION Spec
CONSTANTS
  Pages = {p1}
  Values = {a, b}
  Subs = {s1}
  None = None
  Wild = Wild
  MaxFrame = 3
  MaxCommits = 2
  MayCommitClean = FALSE
  MayFork = FALSE
INVARIANTS Isolation
CHECK_DEADLOCK FALSE
