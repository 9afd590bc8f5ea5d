SPECIFICATION FairSpec
CONSTANTS
    few = few
    many = many
    None = None
    Filters <- MCFilters
    Matches <- MCMatches
    MaxTargets = 1
    RefreshTicks = 2
    SyncFollowTicks = 1
    DisconnectThreshold = 2
    MaxSyncs = 1
    MaxRev = 1
    MaxUpsets = 1
    MaxGestures = 2
    MaxMisses = 2
INVARIANTS
    TypeOK
    RowsCatchUp
    CapNoteIsTrue
PROPERTIES
    SyncEnds
