\* Readers fault at any point of a commit.
SPECIFICATION FairSpec
CONSTANTS
  Pages = {p1, p2}
  Readers = {r1}
  NoPage = NoPage
  MaxFaults = 2
  MaxCommits = 2
INVARIANTS PublishedReadOnly TreeHasOnlyEntry CleanIsOnDisk PublishedByPage
PROPERTY CommitEnds
