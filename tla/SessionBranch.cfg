SPECIFICATION Spec
CONSTANTS
    Items = {i1}
    Prompts = {}
    Deliveries = {d1}
    Compactions = {c1}
    Shells = {s1}
    Reloads = {r1}
    Restores = {}
    Requeues = {}
    Interrupts = {t1}
    Fronts = {FALSE}
    Blobs = {}
    None = None
    MaxCrashes = 0
    MaxFaults = 1
    MayDispose = FALSE
CHECK_DEADLOCK FALSE
INVARIANTS
    OneOwner
    InterruptHonoured
    DeliveryIsolated
