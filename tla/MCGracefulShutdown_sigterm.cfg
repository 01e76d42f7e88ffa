SPECIFICATION FairSpec
CONSTANTS
  r1 = r1
  r2 = r2
  p1 = p1
  p2 = p2
  Commands = {r1, r2}
  Probes = {p1, p2}
  Checkouts = 2
  PoolMax = 1
  MayDie = TRUE
INVARIANTS
  TypeOK
  LateProbesFail
PROPERTIES
  ShutdownCompletes
CHECK_DEADLOCK FALSE
