SPECIFICATION Spec
CONSTANTS
  a1 = a1
  a2 = a2
  t1 = t1
  t2 = t2
  Ara = {a1, a2}
  Task = {t1, t2}
  Target <- MCTarget
  Gated = {t2}
  Lease = {l1, l2}
  Attempts = 2
  MaxLosses = 2
  MaxLapses = 1
  None = None
SYMMETRY MCSymmetry
INVARIANTS TypeOK
PROPERTIES ResultStands OnlyStopsAndLossesForget
CHECK_DEADLOCK FALSE
