SPECIFICATION Spec
CONSTANTS
    T1 = T1
    T2 = T2
    A = A
    B = B
    C = C
    NoOrder = NoOrder
    Token = {T1, T2}
    Order = {A, B}
    order <- MCorder
    Price <- MCPrice
    Unit <- MCUnit
    minPrice18 <- MCminPrice18
    maxPrice18 <- MCmaxPrice18
    maxStaleness <- MCmaxStaleness
    maxSlippageBps = 1000
    maxTtl = 1
    dailyUsdTurnoverCap = 6
    sequencerGracePeriod = 1
    OneDay = 2
    MaxTime = 2
INVARIANTS
    OneLivePresignature
    AllowanceFollowsOrder
    RollingTurnoverBounded
PROPERTIES
    FillsKeepValue
