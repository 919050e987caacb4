SPECIFICATION FairSpec
CONSTANTS
  p1 = p1
  p2 = p2
  TypeLabels <- MCTypes
  ComplexityLabels <- MCComplexity
  LifecycleLabels <- MCLifecycle
  RetiredLabels = {"complexity/standard"}
  Categories = {"triage/bug"}
  States = {"triage/needs-triage"}
  Families = {{"area/sync"}}
  Proc = {p1, p2}
  Chains = {"every-merge", "selective"}
  Verification = TRUE
  MaxWrites = 2
  MaxFaults = 1
INVARIANTS
  TypeOK
  OnePerDimension
PROPERTIES
  DemotionNeedsRace
  TerminalReached
CHECK_DEADLOCK FALSE
