SPECIFICATION Spec
CONSTANTS
    Requests = {r1, r2}
    Coupons <- MCCoupons
    Garbage = "garbage"
    NoToken = "none"
    Targets <- MCTargets
    Open <- MCOpen
    Permits <- MCPermits
    ExpOf <- MCExpOf
    Settings <- MCSettings
    Retries = 1
    OfflineCache = TRUE
    MaxNow = 1
    MaxFaults = 3
SYMMETRY Symmetry
INVARIANTS TypeOK OnlyGoodCouponsPass RefusedForCause
PROPERTIES CachePassesLastResort
CHECK_DEADLOCK FALSE
