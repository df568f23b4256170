SPECIFICATION Spec
CONSTANTS
    CountFrom = 60
    Timeout = 30
    Ids = {r1, r2}
INVARIANTS TypeOK OneCodeRequest ButtonTellsTruth
PROPERTY CountdownEnds
