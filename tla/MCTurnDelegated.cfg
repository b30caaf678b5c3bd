SPECIFICATION Spec
CONSTANTS
    Runner = {r1, r2, s1}
    StreamRunner = {s1}
    LocalCall = {}
    GatedCall = {}
    AraCall = {a1}
    HostCall = {h1}
    Task = {k1, k2}
    None = None
SYMMETRY Symmetry
INVARIANTS
    TypeOK
    NoCallRunsAhead
PROPERTIES
    CheckpointMovesForward
    DecisionIsFinal
CHECK_DEADLOCK FALSE
