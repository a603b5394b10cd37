\* A subscriber that may lag three commits behind, empty ones among them, and
\* an owner that may fork.
SPECIFICATION Spec
CONSTANTS
  Pages = {p1, p2}
  Values = {a, b}
  Subs = {s1}
  None = None
  Wild = Wild
  MaxFrame = 3
  MaxCommits = 3
  MayCommitClean = TRUE
  MayFork = TRUE
SYMMETRY Symmetry
INVARIANTS IInv NoLostUpdate SnapshotExact TreeNotDangling
PROPERTIES ImageFrozen NeverBack
\* A subscriber that died holding the semaphore stops the system.
CHECK_DEADLOCK FALSE
