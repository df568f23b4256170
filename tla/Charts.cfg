SPECIFICATION Spec
CONSTANTS
    Rows = {0, 1, 2, 3, 4}
    Lengths = {1, 2}
    MaxAsked = 4
INVARIANTS TypeOK NewestIsSwitch ListIsWhole LabelsOfBars SameReading
PROPERTY OnlyFailureSticks
