CONSTANTS
    f = f
    NoPath = NoPath
    Paths = {f}
    Capacity = 20
    ContextTarget = 12
    OutputReserve = 4
    HeadroomPct = 50
    ProtectionPct = 20
    MinProtectedTurns = 1
    SafetyMargin = 4
    ModelWindow = 20
    SoftThreshold = 8
    Overhead = 3
    SystemTokens = 1
    MaxContextRetries = 1
    MaxEmptyRetries = 0
    MessageSize = 12
    WarningSize = 3
    SkipSize = 3
    NameSize = 12
    ArgsSize = 3
    HeadSize = 12
    EnrichedSize = 9
    RecallLimit = 2
    MaxTurns = 3
    MaxTexts = 0
    MaxCalls = 2
    MaxCards = 0
    MaxReports = 0
    MaxRecalls = 2
    MaxByHand = 0
    Ratios <- MCRatios
    DeltaSizes <- MCDeltaSizes
    OutputSizes <- MCOutputSizes
    AnswerSizes <- MCAnswerSizes
    ReportSizes <- MCReportSizes
SPECIFICATION ContextSpec
INVARIANTS ContextTypeOK NewestWhole OnlyRecallSplits
PROPERTIES WavesAreWhole CumulativeGrows GateEffective
CHECK_DEADLOCK FALSE
