SPECIFICATION FairSpec
CONSTANTS
    Events = {e1, e2}
    Strays = {u1, u2}
    MaxLen = 1
    MaxCopies = 1
    MaxBoots = 2
    MaxFaults = 2
PROPERTIES ConsumerRecovers
CHECK_DEADLOCK FALSE
