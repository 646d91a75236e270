CONSTANTS
    e1 = e1
    e2 = e2
    k1 = k1
    None = None
    Entries = {e1, e2}
    OneShots = {e1}
    Runners = {k1}
    MaxBreaks = 2
    Again = FALSE
SPECIFICATION FairSpec
INVARIANTS TypeOK OncePerOccurrence UserWins
PROPERTIES DueIsFired
CHECK_DEADLOCK FALSE
