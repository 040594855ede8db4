SPECIFICATION IndexSpec
CONSTANTS
    Depth = 2
    Queried = 4
    HistoryMax = 4
    LatestMax = 2
    RangeMax = 2
    Rounds = 2
    Store = "refunds"
    Quiet = {}
    MaxHeight = 4
    MaxReorgs = 1
    MaxRestarts = 0
INVARIANTS
    NoOrphans
CHECK_DEADLOCK FALSE
