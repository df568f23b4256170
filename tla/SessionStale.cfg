SPECIFICATION Spec
CONSTANTS
    Tokens = {t1, t2}
    NoToken = NoToken
    Slots = {s1, s2}
PROPERTY RejectionEndsItsOwnSession
