SPECIFICATION Spec
CONSTANTS
    p1 = p1
    r1 = r1
    None = None
    PullRequests <- MCPullRequests
    Repositories <- MCRepositories
    RepoOf <- MCRepoOf
    Debounce = 2
    Completions = {1}
    RetainedSyncIds = 1
    MaxTime = 5
    MaxRev = 3
    Events = {"merge", "update", "manual_sync"}
    Faults = {"lost_result", "refused", "gave_up", "github_failure"}
CHECK_DEADLOCK FALSE
INVARIANTS
    PrTypeOK
    TrailingSyncScheduled
    SnapshotIsRow
    QuietAgrees
PROPERTIES
    RowIsFresh
