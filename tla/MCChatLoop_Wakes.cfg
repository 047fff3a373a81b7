CONSTANTS
    s1 = s1  s2 = s2
    t1 = t1  t2 = t2  t3 = t3
    a1 = a1
    Sessions = {s1, s2}
    Turns = {t1, t2}
    Subagents = {}
    Capacity = 2
    LastWake = 2
    MaxTakeovers = 1
    MaxWizards = 0
    MaxCrashes = 1
    MaxRefusals = 1
    Nobody = Nobody
SPECIFICATION ChatSpec
INVARIANTS ChatTypeOK WakesMatchLog WakesAttendedAtHome OncePerCrash
PROPERTIES WakesKept
