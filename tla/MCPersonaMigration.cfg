SPECIFICATION Spec
CONSTANTS
  b1 = b1
  b2 = b2
  p = p
  q = q
  s = s
  Batch = {b1, b2}
  Memory = {p, q, s}
  Imports <- MCImports
  Trusted <- MCTrusted
  Said = {s}
  Editor = {e1}
  MemoryLimit = 2
  MaxVersion = 2
  None = None
INVARIANTS TypeOK RolledBackIsGone PromotedForAReason OnlyTheseLackThePersona
PROPERTIES RejectedStaysRejected
CHECK_DEADLOCK FALSE
