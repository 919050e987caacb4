SPECIFICATION FairSpec
CONSTANTS
  None = None
  m0 = m0
  m1 = m1
  h1 = h1
  h2 = h2
  f1 = f1
  g1 = g1
  e2 = e2
  a = a
  b = b
  p1 = p1
  p2 = p2
  s1 = s1
  s2 = s2
  Commit = {m0, m1, h1, h2, f1}
  Contains <- MCContains
  Trunk = {m0, m1}
  Parents <- MCParents
  Touches <- MCTouches
  Clean = {h2}
  Scope <- MCScope
  Session = {s1, s2}
  Proc = {p1, p2}
  Events = {"commit", "foreign", "delete", "main", "claim", "damage", "crash", "lost"}
  MaxMoves = 1
PROPERTIES
  PushSettles
CHECK_DEADLOCK FALSE
