SPECIFICATION FairSpec
CONSTANTS
    Issues = {1}
    Loop = loop
    ForcedTicks = {}
    MaxParallel = 1
    MaxAttempts = 2
    MaxIncomplete = 2
    MaxReaps = 3
    Sharded = FALSE
    EnableReaper = TRUE
    EnableResume = TRUE
    EnableGate = FALSE
    EnableBudget = TRUE
    ForgeFaults = FALSE
    MaxKills = 0
    MaxUnblocks = 0
INVARIANTS
    TypeOK
    AttemptCountsReaps
    ReapsBounded
PROPERTIES
    Settles
    ReapedIsReclaimed
