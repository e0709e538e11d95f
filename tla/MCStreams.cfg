CONSTANTS
    Routes <- MCRoutes
    Items <- MCItems
    MaxItems <- MCMaxItems
    HoldTail = 2
    HoldMax = 4
SPECIFICATION Spec
INVARIANTS
    EventGrammar
    ContentDelivered
    ToolCallsComplete
    TurnReported
CHECK_DEADLOCK FALSE
