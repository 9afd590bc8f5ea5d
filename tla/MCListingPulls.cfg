SPECIFICATION ListingSpec
CONSTANTS
    MaxItems = 5
    Kinds = {"pulls"}
    PageSize = 2
    MaxChanges = 1
CHECK_DEADLOCK FALSE
INVARIANTS
    ListedIsComplete
