SPECIFICATION Spec
CONSTANTS
    Start <- Openings
    Hours = {1, 2}
    MaxNights = 1
    Reach = 10
    LastMonth = 15
    MaxPending = 2
INVARIANTS TypeOK RightLimit NewestIsTitle MarkIsRecent
PROPERTY ImplementsPull
