CONSTANTS
    e1 = e1
    k1 = k1
    None = None
    Entries = {e1}
    OneShots = {}
    Runners = {k1}
    MaxBreaks = 0
    Again = FALSE
SPECIFICATION Spec
INVARIANTS MarkIsAtomic
CHECK_DEADLOCK FALSE
