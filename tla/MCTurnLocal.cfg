SPECIFICATION Spec
CONSTANTS
    Runner = {r1, r2, r3}
    StreamRunner = {}
    LocalCall = {c1}
    GatedCall = {g1, g2}
    AraCall = {}
    HostCall = {}
    Task = {}
    None = None
SYMMETRY Symmetry
INVARIANTS
    AnsweredTurnIsSettled
    PausedHasWaker
PROPERTIES
    AnswerIsFinal
    ImplementsToolLoop
CHECK_DEADLOCK FALSE
