CONSTANTS
    p1 = p1
    p2 = p2
    s1 = s1
    s2 = s2
    Procs = {p1, p2}
    Sessions = {s1, s2}
    Stored = {s1}
    Window = 2
    MaxLoads <- LoadsOf
    Sleepers = {p1}
    MayFail = TRUE
    NoProc = NoProc
    NoSession = NoSession
SPECIFICATION FairOwnershipSpec
INVARIANTS
    OwnershipTypeOK
    LossNoticed
    AutoResumeSpares
PROPERTIES
    OneShowsInTheEnd
CHECK_DEADLOCK FALSE
