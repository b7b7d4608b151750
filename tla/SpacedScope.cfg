SPECIFICATION ScopeSpec
CONSTANTS
    Methods <- MCMethods
    Paths <- MCPaths
    MaxTokens = 3
INVARIANTS SpacedScopeMatches
CHECK_DEADLOCK FALSE
