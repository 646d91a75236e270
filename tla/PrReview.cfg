SPECIFICATION FairSpec
CONSTANTS
    Prs = {1}
    Modes = {{"reaper"}, {"resume"}}
    MaxAttempts = 3
    MaxAddress = 1
    MaxReaps = 2
    MaxPushes = 1
    MaxTrouble = 1
INVARIANTS
    TypeOK
    OneLabel
    RoundsBounded
    FixesBounded
PROPERTIES
    PrSettles
