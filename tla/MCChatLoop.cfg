CONSTANTS
    s1 = s1  s2 = s2
    t1 = t1  t2 = t2  t3 = t3
    a1 = a1
    Sessions = {s1}
    Turns = {t1, t2, t3}
    Subagents = {a1}
    Capacity = 2
    LastWake = 1
    MaxTakeovers = 1
    MaxWizards = 1
    MaxCrashes = 0
    MaxRefusals = 0
    Nobody = Nobody
SPECIFICATION FairChatSpec
INVARIANTS WaitsForATurn OneTurn
PROPERTIES ResultsReachATurn
