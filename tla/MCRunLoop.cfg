SPECIFICATION FairSpec
CONSTANTS
    i1 = i1
    i2 = i2
    o1 = o1
    o2 = o2
    Instance = {i1, i2}
    NoOne = NoOne
    Order = {o1, o2}
    submission_deadline = 1
    Setups <- MCSetups
    MaxAuctions = 2
INVARIANTS
    Inv
    OneLeader
    AuctionIsCurrent
PROPERTIES
    OneInFlight
    ExecutionsEnd
