SPECIFICATION Spec
CONSTANTS
    Issued = {i1, i2}
    Denied = {d1, d2}
    Revoked = {r1}
    Late = {l1}
    Undated = {u1}
    Ids <- MCIds
    BodyOf <- MCBody
    NoCid = "none"
    PageCap = 2
    RecentCap = 2
    Filters <- MCFilters
    MaxLen = 3
    SeenFactor = 2
    MaxArrivals = 8
SYMMETRY Symmetry
INVARIANTS TypeOK OneRecordPerEvent SeenCoversBuffer BufferIsRecent
    ReadsShowTheMatches SummaryIsRight
CHECK_DEADLOCK FALSE
