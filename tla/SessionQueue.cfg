SPECIFICATION Spec
CONSTANTS
    Items = {i1, i2}
    Prompts = {}
    Deliveries = {d1}
    Compactions = {}
    Shells = {}
    Reloads = {}
    Restores = {x1}
    Requeues = {q1}
    Interrupts = {}
    Fronts = {TRUE, FALSE}
    Blobs = {d1}
    None = None
    MaxCrashes = 1
    MaxFaults = 0
    MayDispose = FALSE
CHECK_DEADLOCK FALSE
SYMMETRY Symmetry
INVARIANTS
    TypeOK
    PromptOnce
    QueueMatchesLog
    PausedNeedsRequeue
