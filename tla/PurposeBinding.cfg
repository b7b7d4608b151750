SPECIFICATION ScopeSpec
CONSTANTS
    Methods <- MCMethods
    Paths <- MCPaths
    MaxTokens = 6
INVARIANTS NoOverreach ListedEntriesPass
CHECK_DEADLOCK FALSE
