SPECIFICATION Spec
CONSTANTS
    Runner = {r1, r2}
    StreamRunner = {}
    LocalCall = {c1}
    GatedCall = {g1}
    AraCall = {}
    HostCall = {}
    Task = {}
    None = None
INVARIANT ImpactNeedsGrant
CHECK_DEADLOCK FALSE
