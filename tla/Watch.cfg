CONSTANTS
    Pods = {p1, p2}
    Requests = {r1, r2}
    Authors = {a1}
    NoAuthor = NoAuthor
    MaxIssues = 2
    MaxRollouts = 1
SPECIFICATION Spec
INVARIANTS TypeOK OneWatchPerSlot
PROPERTIES WatchEnds ThanksDeserved
CHECK_DEADLOCK FALSE
