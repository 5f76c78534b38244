CONSTANTS
    Requests = {r1, r2}
    MaxHead = 2
    NoCheck = NoCheck
SPECIFICATION Spec
INVARIANTS TypeOK ReleaseIsFresh OneLogin
PROPERTIES EveryCommandAnswered
CHECK_DEADLOCK FALSE
