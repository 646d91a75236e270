SPECIFICATION Spec
CONSTANTS
    Issues = {1, 2}
    Loop = loop
    ForcedTicks = {}
    MaxParallel = 1
    MaxAttempts = 1
    MaxIncomplete = 1
    MaxReaps = 2
    Sharded = FALSE
    EnableReaper = TRUE
    EnableResume = FALSE
    EnableGate = TRUE
    EnableBudget = FALSE
    ForgeFaults = TRUE
    MaxKills = 1
    MaxUnblocks = 1
INVARIANTS
    ClaimDiscipline
    SingleStage
    WithinCapacity
PROPERTIES
    FreshNeedsClaim
