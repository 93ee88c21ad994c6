SPECIFICATION Spec
CONSTANTS
    Messages = {m1}
    Clients = {c1, c2}
    Kinds = {"approval"}
    Beside = {"extension.state"}
    MaxCalls = 2
    MaxAsks = 1
    MaxExtras = 2
INVARIANTS TypeOK TreeWellFormed ChainReopens SettledBranch AnsweredOnce HistoryMatches
SYMMETRY Interchangeable
CHECK_DEADLOCK FALSE
