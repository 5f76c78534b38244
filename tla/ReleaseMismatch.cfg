CONSTANTS
    MaxVersion = 2
    MaxCuts = 2
    MaxQABuilds = 3
    MaxHaste = 0
    Builds = {b1}
SPECIFICATION Spec
INVARIANTS PromotionDeploysItsRelease
CHECK_DEADLOCK FALSE
