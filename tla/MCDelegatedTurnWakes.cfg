SPECIFICATION Spec
CONSTANTS
    Runner = {r1, r2}
    StreamRunner = {}
    LocalCall = {}
    GatedCall = {}
    AraCall = {a1}
    HostCall = {}
    Task = {k1}
    None = None
INVARIANT PausedHasWaker
CHECK_DEADLOCK FALSE
