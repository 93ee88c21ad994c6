SPECIFICATION FairSpec
CONSTANTS
    Events = {e1, e2, e3}
    MaxCrashes = 2
    MaxRollbackFaults = 1
    MaxListings = 1
CHECK_DEADLOCK FALSE
INVARIANTS
    TypeOK
    SeenSurvives
    FailedLeavesNoEvent
PROPERTY
    AppendsSettle
