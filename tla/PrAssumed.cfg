SPECIFICATION Spec
CONSTANTS
    Prs = {1}
    Modes = {{"reaper"}}
    MaxAttempts = 2
    MaxAddress = 1
    MaxReaps = 2
    MaxPushes = 0
    MaxTrouble = 1
PROPERTIES
    BadVerdictBlocks
