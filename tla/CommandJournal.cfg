SPECIFICATION Spec
CONSTANTS
    k1 = k1
    k2 = k2
    k3 = k3
    k4 = k4
    Keys = {k1, k4}
    Hashes = {h1, h2}
    Calls = {c1, c2, c3}
    Results = {r1}
    Kind <- MCKind
    None = None
    MaxBoots = 3
    MaxIoFaults = 1
SYMMETRY Symmetry
CHECK_DEADLOCK FALSE
INVARIANTS
    TypeOK
    AnswersAgree
    EffectAtMostOnce
    JournalReadable
    OpenEntriesUnstarted
