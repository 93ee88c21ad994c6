SPECIFICATION Spec
CONSTANTS
    MaxEvents = 3
    MaxSubs = 3
    MaxConns = 2
    MaxRestarts = 1
    PageSize = 1
    MaxTail = 2
    MaxCursors = 3
    Rebinds = TRUE
INVARIANTS TypeOK TailComplete QuietViewComplete ResumeSkipsNothing
PROPERTIES ViewIsFeed
CHECK_DEADLOCK FALSE
