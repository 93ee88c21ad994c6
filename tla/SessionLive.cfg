SPECIFICATION FairSpec
CONSTANTS
    Items = {i1}
    Prompts = {p1}
    Deliveries = {d1}
    Compactions = {}
    Shells = {}
    Reloads = {}
    Restores = {}
    Requeues = {}
    Interrupts = {}
    Fronts = {FALSE}
    Blobs = {d1}
    None = None
    MaxCrashes = 0
    MaxFaults = 0
    MayDispose = TRUE
CHECK_DEADLOCK FALSE
PROPERTIES
    QueueMoves
    DeliveriesSettle
    DisposeEnds
