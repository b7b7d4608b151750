SPECIFICATION Spec
CONSTANTS
    Backends = {b1, b2}
    Delegates = {d1, d2}
    Ttls = {0, 1, 3}
    Never = never
    MaxNow = 4
    MaxFaults = 3
SYMMETRY Symmetry
INVARIANTS TypeOK AcknowledgedIsListed DelegationsEnd
CHECK_DEADLOCK FALSE
