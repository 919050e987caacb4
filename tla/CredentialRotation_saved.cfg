SPECIFICATION FairSpec
CONSTANTS
  None = None
  t1 = t1
  t2 = t2
  t3 = t3
  t4 = t4
  p1 = p1
  p2 = p2
  a1 = a1
  a2 = a2
  Token = {t1, t2, t3}
  Proc = {p1}
  Auth = {a1, a2}
  Scope = {"legacy", "current"}
  Policy <- MCPolicy
  Prompt = TRUE
  MaxFaults = 2
PROPERTIES
  SavedCandidatePublished
CHECK_DEADLOCK TRUE
