SPECIFICATION ProjectionSpec
CONSTANTS
    MaxLog = 6
    MaxTexts = 2
    MaxMarks = 1
INVARIANTS
    ProjectionTypeOK
    ShowsTheLog
    SplitsOnlyAtCuts
CHECK_DEADLOCK FALSE
