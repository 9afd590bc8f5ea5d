SPECIFICATION Spec
CONSTANTS
    p1 = p1
    r1 = r1
    None = None
    Installation = Installation
    PullRequests <- MCPullRequests
    Repositories <- MCRepositories
    RepoOf <- MCRepoOf
    Debounce = 1
    Completions = {}
    RetainedSyncIds = 1
    MaxTime = 1
    MaxRev = 1
    MaxRetirements = 2
    Events = {"uninstall"}
    Faults = {"sweep_lost_result", "sweep_failure", "lost_webhook"}
CHECK_DEADLOCK FALSE
INVARIANTS
    TypeOK
    LostRowIsRetired
    PruneSparesNewer
    CloseSparesNewer
    PurgeForgets
PROPERTIES
    ReconcileCatchesUp
