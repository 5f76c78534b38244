CONSTANTS
    NUsers = 3
    Robots = {2}
    Jobs = {cron}
    OneShot = {}
    PageSize = 3
    PageCap = 3
    NTokens = 17
    MaxChanges = 3
    MaxDeploys = 0
SPECIFICATION Spec
INVARIANTS TypeOK ServiceKept
PROPERTIES TokensCarriedOver RunTellsTheTruth Converges
CHECK_DEADLOCK FALSE
