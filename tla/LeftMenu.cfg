SPECIFICATION MenuSpec
CONSTANTS
    MaxDepth = 3
    MaxEnds = 1
    MaxDismissals = 2
    MaxMsgs = 2
    Versions <- OneAndThree
INVARIANTS TypeOK MenuTypeOK ObserverBalanced NoObserverLeft PushedPageSwipes AlertIsNewer SwitchSettles
PROPERTIES PushesUnderNoMenu OnlyReplacementLeavesMask
