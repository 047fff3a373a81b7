CONSTANTS
    p1 = p1
    p2 = p2
    s1 = s1
    s2 = s2
    Procs = {p1, p2}
    Sessions = {s1, s2}
    Stored = {s1}
    Window = 2
    MaxLoads <- LoadsOf
    Sleepers = {p1}
    MayFail = FALSE
    NoProc = NoProc
    NoSession = NoSession
SPECIFICATION OwnershipSpec
PROPERTIES
    YieldsWhatItLost
CHECK_DEADLOCK FALSE
