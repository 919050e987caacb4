SPECIFICATION Spec
CONSTANTS
  None = None
  t1 = t1
  t2 = t2
  t3 = t3
  t4 = t4
  p1 = p1
  p2 = p2
  a1 = a1
  a2 = a2
  Token = {t1, t2, t3}
  Proc = {p1, p2}
  Auth = {a1, a2}
  Scope = {"legacy", "current"}
  Policy <- MCPolicy
  Prompt = FALSE
  MaxFaults = 3
SYMMETRY Symmetry
INVARIANTS
  NoOtherPat
CHECK_DEADLOCK TRUE
