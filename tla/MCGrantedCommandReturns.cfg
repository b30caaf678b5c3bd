SPECIFICATION Spec
CONSTANTS
    Runner = {r1, r2}
    StreamRunner = {}
    LocalCall = {}
    GatedCall = {}
    AraCall = {}
    HostCall = {h1}
    Task = {k1}
    None = None
INVARIANT GrantedCommandReturns
CHECK_DEADLOCK FALSE
