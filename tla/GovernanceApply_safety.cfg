SPECIFICATION Spec
CHECK_DEADLOCK FALSE
CONSTANTS
  p1 = p1
  p2 = p2
  d1 = d1
  Proc = {p1, p2}
  Dirs = {d1}
  Initial <- MCInitial
  Perms = {"missing", "write", "admin"}
  Private = TRUE
  Contexts = "declared"
  Migratable = TRUE
  Edits <- MCEdits
  MaxStarts = 3
  MaxEdits = 1
  MaxFaults = 1
  NoSnapshot = NoSnapshot
SYMMETRY Symmetry
INVARIANTS TypeOK ReceiptTrue CalmRunEnds EvidenceFirst
PROPERTY ReviewedOnly
