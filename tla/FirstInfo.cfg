SPECIFICATION Spec
CONSTANTS
    Rows = {"water"}
    Days = 2
    MaxRefresh = 2
    MaxLive = 1
    MaxInFlight = 2
    MaxSame = 1
INVARIANTS TypeOK MenuFollowsToday RowsShowSelected
PROPERTIES MenuNeverGoesBack OnlyFailureStarves ImplementsPull
