SPECIFICATION Spec
CONSTANTS
    Messages = {m1}
    Clients = {c1}
    Kinds = {"approval"}
    Beside = {"extension.state"}
    MaxCalls = 1
    MaxAsks = 0
    MaxExtras = 2
INVARIANTS SessionReopens
CHECK_DEADLOCK FALSE
