SPECIFICATION Spec
CONSTANTS
    Ara = {a1, a2}
    Task = {t1}
    LeaseId = {l1, l2}
    ApprovalId = {p1}
    Capability = {read}
    FileRead = {read}
    Profile = {{read}}
    TrustLevel = {0, 1}
    MaxDuration = 1
    MaxTime = 2
    None = None
PROPERTIES
    TerminalIsFinal
CHECK_DEADLOCK FALSE
