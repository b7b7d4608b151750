SPECIFICATION Spec
CONSTANTS
    Events = {e1, e2}
    Strays = {u1, u2, u3}
    MaxLen = 2
    MaxCopies = 2
    MaxBoots = 3
    MaxFaults = 2
SYMMETRY Symmetry
INVARIANTS
    TypeOK
    MirrorPrecedesTopic
    ShownAsSignedIsSigned
    CommittedWasRead
    ConnectedMeansReading
PROPERTIES StoreContract
CHECK_DEADLOCK FALSE
