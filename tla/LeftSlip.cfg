SPECIFICATION Spec
CONSTANTS
    MaxDepth = 2
    MaxEnds = 1
    MaxDismissals = 1
INVARIANT MaskOnlyWithMenu
