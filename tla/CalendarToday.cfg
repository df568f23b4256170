SPECIFICATION Spec
CONSTANTS
    Start <- MidMarch
    Hours = {1, 2}
    MaxNights = 0
    Reach = 1
    LastMonth = 5
    MaxPending = 2
PROPERTY MarksToday
