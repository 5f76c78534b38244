CONSTANTS
    MaxVersion = 2
    MaxCuts = 3
    MaxQABuilds = 2
    MaxHaste = 1
    Builds = {b1, b2}
SPECIFICATION Spec
INVARIANTS TypeOK UnfinishedIsRed OnlyPromotedReachesProduction OnlyTestedReachesProduction
PROPERTIES ProductionTagKept PromotionAnswered
CHECK_DEADLOCK FALSE
