SPECIFICATION FairSpec
CONSTANTS
    MaxEvents = 2
    MaxSubs = 3
    MaxConns = 2
    MaxRestarts = 0
    PageSize = 1
    MaxTail = 1
    MaxCursors = 2
    Rebinds = FALSE
PROPERTIES CatchUp EstablishEnds
CHECK_DEADLOCK FALSE
