SPECIFICATION Spec
CONSTANTS
    Events <- MCEvents
    FieldsOf <- MCFields
    RankOf <- MCRank
    Queries <- MCQueries
    Limits <- MCLimits
    Retention = 2
    Cap = 2
    MaxNow = 2
    MaxFaults = 1
INVARIANTS
    TypeOK
    ResultsMatch
    StoredIsFindable
    TimelineIsRecent
    FilteredIsComplete
CHECK_DEADLOCK FALSE
