SPECIFICATION FairSpec
CONSTANTS
    Requests <- MCRequests
    MCLength = 4
    MaxTargets = 5
    MaxConcurrent = 2
    MaxCancels = 2
CHECK_DEADLOCK FALSE
INVARIANTS
    TypeOK
    MergesSerialised
    RepositoriesTakeTurns
    AttemptedIsComplete
    EndedIsAccountedFor
PROPERTIES
    UncancelledIsRecorded
