SPECIFICATION FairSpec
CONSTANTS
    Issues = {1}
    MaxParallel = 2
    OtherWork = {0, 2}
    MaxRefine = 2
    DivergeFrom = 1
    MaxReaps = 2
    MaxKills = 1
    MaxTrouble = 1
INVARIANTS
    TypeOK
    SingleStage
    PassesBounded
    PromotionSticks
PROPERTIES
    GateSettles
