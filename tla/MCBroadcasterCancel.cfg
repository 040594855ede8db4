SPECIFICATION Spec
CONSTANTS
    R1 = R1
    R2 = R2
    NoTx = NoTx
    NoPending = NoPending
    Request = {R1}
    maxTransactionCost = 2
    dailyBudget = 3
    reserve = 1
    Funds = 4
    Day = 1
    NodeMisses = FALSE
    Horizon <- MCHorizonOfCancel
INVARIANTS
    CancellationIsRecorded
