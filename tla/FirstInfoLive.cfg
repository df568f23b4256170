SPECIFICATION Spec
CONSTANTS
    Rows = {}
    Days = 3
    MaxRefresh = 2
    MaxLive = 2
    MaxInFlight = 2
    MaxSame = 2
PROPERTY LiveReadingStays
