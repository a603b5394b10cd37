\* Expected to fail: see the README, "Findings".
SPECIFICATION Spec
CONSTANTS
  Pages = {p1}
  Readers = {r1}
  NoPage = NoPage
  MaxFaults = 3
  MaxCommits = 3
INVARIANT CacheIsCommitted
