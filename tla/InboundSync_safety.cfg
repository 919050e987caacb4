SPECIFICATION FairSpec
CONSTANTS
  None = None
  Killed = Killed
  c0 = c0
  c1 = c1
  c2 = c2
  r1 = r1
  p1 = p1
  p2 = p2
  Commit = {c0, c1, c2, r1}
  Contains <- MCContains
  Imported = {c0}
  Proc = {p1, p2}
  PageLimit = 2
  MaxOthers = 1
  MaxMoves = 3
INVARIANTS
  TypeOK
  OneSyncPr
PROPERTIES
  OfferedExtendsLast
  SyncSettles
CHECK_DEADLOCK FALSE
