SPECIFICATION FairSpec
CONSTANTS
    r1 = r1
    r2 = r2
    None = None
    Rows <- MCRows
    Opened <- MCOpened
    SubmitAttempts = 2
    AttachLimit = 2
    MaxBatches = 2
    MaxEvents = 1
CHECK_DEADLOCK FALSE
INVARIANTS
    TypeOK
    SaidIsTrue
    SelectionLeavesForTaken
    ShownIsRestates
PROPERTIES
    FollowEnds
