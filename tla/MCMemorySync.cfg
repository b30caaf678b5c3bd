SPECIFICATION MemorySpec
CONSTANTS
  msg = msg
  p = p
  q = q
  Message = {msg}
  Memory = {p, q}
  Job <- MCJob
  Finds <- MCFinds
  Verdict <- MCVerdict
  Told = {p}
  Runner = {r1}
  MaxHandlers = 1
  MaxAttempts = 2
  MaxTries = 3
  MaxMishaps = 1
  None = None
INVARIANTS MemoryTypeOK
PROPERTIES ImplementsJobQueue  
CHECK_DEADLOCK FALSE
