CONSTANTS
    NUsers = 1
    Robots = {}
    Jobs = {cron, bootstrap}
    OneShot = {bootstrap}
    PageSize = 2
    PageCap = 2
    NTokens = 12
    MaxChanges = 2
    MaxDeploys = 1
SPECIFICATION Spec
PROPERTIES TokensCarriedOver
CHECK_DEADLOCK FALSE
