SPECIFICATION Spec
CONSTANTS
    Jtis = {j1}
    Clients = {c1}
    Users = {alice}
    Anonymous = anonymous
    Ttls = {1}
    NoTtl = noTtl
    NoCoupon = noCoupon
    NoJti = noJti
    RevokeTtl = 2
    KeysConfigured = TRUE
    DevMode = FALSE
    MaxNow = 3
    MaxFaults = 0
INVARIANTS
    ExpiredCouponsRejected
CHECK_DEADLOCK FALSE
