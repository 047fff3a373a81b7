CONSTANTS
    f = f
    NoPath = NoPath
    Paths = {f}
    Capacity = 20
    ContextTarget = 12
    OutputReserve = 4
    HeadroomPct = 30
    ProtectionPct = 20
    MinProtectedTurns = 1
    SafetyMargin = 4
    ModelWindow = 20
    SoftThreshold = 8
    Overhead = 1
    SystemTokens = 1
    MaxContextRetries = 1
    MaxEmptyRetries = 0
    MessageSize = 12
    WarningSize = 3
    SkipSize = 3
    NameSize = 3
    ArgsSize = 3
    HeadSize = 12
    EnrichedSize = 9
    RecallLimit = 2
    MaxTurns = 3
    MaxTexts = 0
    MaxCalls = 2
    MaxCards = 0
    MaxReports = 0
    MaxRecalls = 1
    MaxByHand = 0
    Ratios <- MCRatios
    DeltaSizes <- MCDeltaSizes
    OutputSizes <- MCOutputSizes
    AnswerSizes <- MCAnswerSizes
    ReportSizes <- MCReportSizes
SPECIFICATION ContextSpec
INVARIANT PairsWhole
CHECK_DEADLOCK FALSE
