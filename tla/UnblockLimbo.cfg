SPECIFICATION Spec
CONSTANTS
    Issues = {1}
    Loop = loop
    ForcedTicks = {}
    MaxParallel = 1
    MaxAttempts = 2
    MaxIncomplete = 2
    MaxReaps = 2
    Sharded = FALSE
    EnableReaper = TRUE
    EnableResume = FALSE
    EnableGate = FALSE
    EnableBudget = FALSE
    ForgeFaults = FALSE
    MaxKills = 0
    MaxUnblocks = 1
INVARIANTS
    NeverLost
