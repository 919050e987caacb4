SPECIFICATION Spec
CHECK_DEADLOCK FALSE
CONSTANTS
  Last = 5
  Limit = 2
  MaxPages = 3
  MaxCount = 4
  MaxMoves = 3
INVARIANTS TypeOK SnapshotRead RefusedForCause
