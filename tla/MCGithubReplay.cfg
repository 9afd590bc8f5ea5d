SPECIFICATION Spec
CONSTANTS
    Operations = {"update"}
    MaxWaits = 3
    MaxRetries = 0
    MaxCrashes = 1
    MaxHead = 1
CHECK_DEADLOCK FALSE
INVARIANTS
    LandedIsNotDenied
