CONSTANTS
  w1 = w1
  w2 = w2
  w3 = w3
  s1 = s1
  s2 = s2
  None = None
  Watcher = {w1, w2, w3}
  Session = {s1, s2}
  Of <- Sessions
SPECIFICATION Spec
CHECK_DEADLOCK FALSE
INVARIANTS
  NeverWedged
  RolledBack
  RevokedForGood
