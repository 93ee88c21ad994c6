SPECIFICATION FairSpec
CONSTANTS
    Messages = {m1, m2}
    Clients = {c1}
    Kinds = {"approval", "user_question"}
    Beside = {"extension.state", "context.extension"}
    MaxCalls = 1
    MaxAsks = 1
    MaxExtras = 1
INVARIANTS SteeringKept
PROPERTIES InterruptEnds AskSettlesEventually
CHECK_DEADLOCK FALSE
