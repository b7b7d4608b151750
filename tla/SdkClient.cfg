SPECIFICATION FairSpec
CONSTANTS
    Coupons = {a, b}
    Forged = {f}
    NoCoupon = none
    Ttl = 1
    MinTtl = 1
    KeyTtl = 1
    MaxRetries = 1
    Configs <- MCConfigs
    Rotates = TRUE
    MaxNow = 2
    MaxFaults = 2
    MaxCalls = 3
    MaxProcesses = 2
INVARIANTS TypeOK IssueIsOwn
PROPERTIES ValidIsEarned EveryCallReturns
CHECK_DEADLOCK FALSE
