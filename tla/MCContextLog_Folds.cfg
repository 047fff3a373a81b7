CONSTANTS
    f = f
    NoPath = NoPath
    Paths = {f}
    Capacity = 20
    ContextTarget = 12
    OutputReserve = 4
    HeadroomPct = 30
    ProtectionPct = 20
    MinProtectedTurns = 1
    SafetyMargin = 4
    ModelWindow = 20
    SoftThreshold = 8
    Overhead = 1
    SystemTokens = 1
    MaxContextRetries = 0
    MaxEmptyRetries = 1
    MessageSize = 12
    WarningSize = 3
    SkipSize = 3
    NameSize = 3
    ArgsSize = 3
    HeadSize = 6
    EnrichedSize = 9
    RecallLimit = 2
    MaxTurns = 2
    MaxTexts = 2
    MaxCalls = 1
    MaxCards = 1
    MaxReports = 1
    MaxRecalls = 1
    MaxByHand = 1
    Ratios <- None
    DeltaSizes <- MCDeltaSizes
    OutputSizes <- MCOutputSizes
    AnswerSizes <- MCAnswerSizes
    ReportSizes <- MCReportSizes
SPECIFICATION ContextSpec
INVARIANT WindowIsRequest
CHECK_DEADLOCK FALSE
