CONSTANTS
    c1 = c1  c2 = c2  c3 = c3  c4 = c4
    Calls = {c1, c2, c3, c4}
    KindOf <- MCChatKinds
    Headless = FALSE
    MaxIterations = 2
    MaxContextRetries = 1
    MaxEmptyRetries = 1
    NoCall = NoCall
SPECIFICATION FairTurnSpec
INVARIANTS TurnTypeOK AnsweredOnce BalancedEnd
PROPERTIES StopEnds TurnEnds
CHECK_DEADLOCK FALSE
