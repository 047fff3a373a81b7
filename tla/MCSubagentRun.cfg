CONSTANTS
    c1 = c1  c2 = c2  c3 = c3
    Calls = {c1, c2, c3}
    KindOf <- MCKinds
    Headless = TRUE
    MaxIterations = 2
    MaxContextRetries = 0
    MaxEmptyRetries = 1
    NoCall = NoCall
    Idle = TRUE
    Ceiling = TRUE
SPECIFICATION FairRunSpec
INVARIANTS RunTypeOK AbortNamed OkNeverErased CommittedTreeQuiet ToolsNeverOverlap
PROPERTIES RunReports
CHECK_DEADLOCK FALSE
