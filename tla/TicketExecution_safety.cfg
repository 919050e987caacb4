SPECIFICATION Spec
CHECK_DEADLOCK FALSE
CONSTANTS
  t1 = t1
  t2 = t2
  p1 = p1
  p2 = p2
  s1 = s1
  s2 = s2
  Ticket = {t1, t2}
  Deps <- MCDeps
  Session = {s1, s2}
  Proc = {p1, p2}
  MaxCommits = 3
  MaxPlans = 2
  MaxScope = 2
  MaxStarts = 3
  MaxEvents = 2
  MaxFaults = 1
  None = None
  Torn = Torn
SYMMETRY Symmetry
INVARIANTS TypeOK StartAfterBlockers ReceiptResumable
PROPERTY CompletionSurvives
