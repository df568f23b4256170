SPECIFICATION PageSpec
CONSTANTS
    Rows = {"stream"}
    Days = 1
    MaxRefresh = 2
    MaxLive = 1
    MaxInFlight = 1
    MaxSame = 1
    MaxQueue = 2
INVARIANTS PageTypeOK BackgroundMatches
PROPERTIES BackgroundCatchesUp SecondImplementsPull
