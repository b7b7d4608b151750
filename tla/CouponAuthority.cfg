SPECIFICATION Spec
CONSTANTS
    Jtis = {j1}
    Clients = {c1, c2}
    Users = {alice}
    Anonymous = anonymous
    Ttls = {1}
    NoTtl = noTtl
    NoCoupon = noCoupon
    NoJti = noJti
    RevokeTtl = 2
    KeysConfigured = TRUE
    DevMode = FALSE
    MaxNow = 2
    MaxFaults = 2
SYMMETRY ClientSymmetry
INVARIANTS
    TypeOK
    RevocationEnforced
    NoAnonymousCoupon

    
CHECK_DEADLOCK FALSE
