SPECIFICATION Spec
CONSTANTS
    Operations = {"merge", "comment", "update"}
    MaxWaits = 3
    MaxRetries = 2
    MaxCrashes = 2
    MaxHead = 2
CHECK_DEADLOCK FALSE
INVARIANTS
    TypeOK
    AtMostOnce
    LandedMergeIsNotDenied
    SucceededIsReal
PROPERTIES
    StepSettles
