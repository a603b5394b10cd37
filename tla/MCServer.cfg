SPECIFICATION FairSpec
CONSTANTS
  c1 = c1
  c2 = c2
  Clients <- TwoClients
  Inserts <- InsertsOfOne
  Vertices = {1, 2}
  Slots = 3
  Mortal = {c2}
  KeepsNext = FALSE
  Null = Null
INVARIANTS ListSound OneInside InsertedKept
PROPERTY ListedServed
\* The clients end.
CHECK_DEADLOCK FALSE
