\* An owner that commits only after writing and does not fork.
SPECIFICATION FairSpec
CONSTANTS
  Pages = {p1, p2}
  Values = {a}
  Subs = {s1, s2}
  None = None
  Wild = Wild
  MaxFrame = 3
  MaxCommits = 2
  MayCommitClean = FALSE
  MayFork = FALSE
INVARIANTS CursorInList OneEntryPerPage
PROPERTIES CommitSeen
