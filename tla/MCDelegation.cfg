SPECIFICATION Spec
CONSTANTS
  t1 = t1
  t2 = t2
  Task = {t1, t2}
  First = t1
  MaxLeases = 2
  MaxMishaps = 1
INVARIANTS TypeOK SynthesisSeesAllResults
PROPERTIES DelegatedOnce OnlyOverlapStrands OnlyRunnersEndForgets NudgedTurnGoesOn
CHECK_DEADLOCK FALSE
