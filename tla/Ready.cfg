CONSTANTS
    Pods = {p1, p2}
    Requests = {r1, r2}
    Authors = {}
    NoAuthor = NoAuthor
    MaxIssues = 1
    MaxRollouts = 1
    MaxPosts = 2
SPECIFICATION Spec
INVARIANTS TypeOK RepeatsExplained PromotedCommentIsHonest
PROPERTIES IssueSpec ReadyIsAnnounced
CHECK_DEADLOCK FALSE
