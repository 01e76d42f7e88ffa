SPECIFICATION Spec
CONSTANTS
  t1 = t1
  t2 = t2
  t3 = t3
  t4 = t4
  k1 = k1
  k2 = k2
  b1 = b1
  b2 = b2
  Attempts = {t1, t2, t3}
  Keys = {k1, k2}
  NoKey = NoKey
  Bodies = {b1, b2}
  Nothing = Nothing
  MayFail = FALSE
SYMMETRY Symmetries
INVARIANTS
  AtMostOnce
CHECK_DEADLOCK FALSE
