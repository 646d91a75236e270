SPECIFICATION Spec
CONSTANTS
    Issues = {1}
    Loop = loop
    ForcedTicks = {f1}
    MaxParallel = 1
    MaxAttempts = 1
    MaxIncomplete = 1
    MaxReaps = 1
    Sharded = FALSE
    EnableReaper = TRUE
    EnableResume = TRUE
    EnableGate = FALSE
    EnableBudget = FALSE
    ForgeFaults = FALSE
    MaxKills = 0
    MaxUnblocks = 0
INVARIANTS
    NeverLost
