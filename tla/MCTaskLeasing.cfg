SPECIFICATION Spec
CONSTANTS
    Ara = {a1, a2}
    Task = {t1, t2}
    LeaseId = {l1, l2}
    ApprovalId = {p1}
    Capability = {read, command}
    FileRead = {read}
    Profile = {{read, command}}
    TrustLevel = {0, 1}
    MaxDuration = 2
    MaxTime = 3
    None = None
SYMMETRY Symmetry
INVARIANTS
    TypeOK
    ExclusiveLease
    OneResultPerLease
    ResultHasProvenance
    CompletedWasApproved
    TargetHonoured
PROPERTIES
    RevocationIsFinal
    CancellationStands
    ImplementsFencing
CHECK_DEADLOCK FALSE
