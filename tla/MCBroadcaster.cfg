SPECIFICATION FairSpec
CONSTANTS
    R1 = R1
    R2 = R2
    NoTx = NoTx
    NoPending = NoPending
    Request = {R1, R2}
    maxTransactionCost = 2
    dailyBudget = 2
    reserve = 1
    Funds = 4
    Day = 1
    NodeMisses = TRUE
    Horizon <- MCHorizon
INVARIANTS
    OneNoncePending
    LimitsKept
    SettlementIsReal
    DisclosureIsKnown
PROPERTIES
    PaidIsSettled
