CONSTANTS
    c1 = c1
    c2 = c2
    r1 = r1
    r2 = r2
    r3 = r3
    None = None
    Callers = {c1, c2}
    Waiting = {c1}
    Resuming = {c1}
    Requests = {r1, r2, r3}
    MaxTries = 2
    Threshold = 1
    MaxSessions = 2
    MaxFaults = 2
SPECIFICATION FairSpec
INVARIANTS TypeOK OneSession WithinCap
PROPERTY Recloses
