CONSTANTS
    AliasLen = 3
    NameLen = 2
    Slack = 1
    Room = 4
    MaxPieces = 4
SPECIFICATION Spec
INVARIANT AliasesRestored
CHECK_DEADLOCK FALSE
