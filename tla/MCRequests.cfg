CONSTANTS
    Clients = {"openai", "claude", "responses", "gemini"}
    Turns <- MCTurns
    Settings <- MCSettings
    MaxTurns = 2
    Models <- MCModels
    Tiers <- MCTiers
SPECIFICATION Spec
INVARIANTS ToolTurnsPaired ContentKept ClaudeAccepts SpeaksFormat GateAccepts NamesRestored BudgetFits
CHECK_DEADLOCK FALSE
