SPECIFICATION IndexSpec
CONSTANTS
    Depth = 2
    Queried = 4
    HistoryMax = 4
    LatestMax = 2
    RangeMax = 2
    Rounds = 2
    Store = "settlements"
    Quiet = {1}
    MaxHeight = 8
    MaxReorgs = 2
    MaxRestarts = 1
INVARIANTS
    IndexInv
PROPERTIES
    AnnouncesHandled
CHECK_DEADLOCK FALSE
