SPECIFICATION ReliableSpec
CONSTANTS
    k1 = k1
    k2 = k2
    k3 = k3
    k4 = k4
    Keys = {k2, k3}
    Hashes = {h1, h2}
    Calls = {c1, c2}
    Results = {r1, r2}
    Kind <- MCKind
    None = None
    MaxBoots = 3
    MaxIoFaults = 0
CHECK_DEADLOCK FALSE
PROPERTIES
    WriteOnce
    CallsSettle
