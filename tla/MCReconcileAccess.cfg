SPECIFICATION Spec
CONSTANTS
    p1 = p1
    r1 = r1
    None = None
    Installation = Installation
    PullRequests <- MCPullRequests
    Repositories <- MCRepositories
    RepoOf <- MCRepoOf
    Debounce = 0
    Completions = {}
    RetainedSyncIds = 1
    MaxTime = 1
    MaxRev = 1
    MaxRetirements = 1
    Events = {"status", "revoke", "grant"}
    Faults = {}
CHECK_DEADLOCK FALSE
INVARIANTS
    CloseSparesNewer
