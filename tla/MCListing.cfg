SPECIFICATION ListingSpec
CONSTANTS
    MaxItems = 5
    Kinds = {"repositories"}
    PageSize = 2
    MaxChanges = 3
CHECK_DEADLOCK FALSE
INVARIANTS
    ListingTypeOK
    ListedIsCompleteOrSwapped
PROPERTIES
    ListingEnds
