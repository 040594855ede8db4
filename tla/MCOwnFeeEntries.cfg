SPECIFICATION OwnFeeFairSpec
CONSTANTS
    MaxMonth = 2
    MaxOwed = 2
    MaxFunds = 3
    MaxNonce = 1
    MaxFaults = 1
    OWN_FEE_ACCRUAL_LOOKBACK_MONTHS = 6
    NoTx = NoTx
PROPERTIES
    ExecutedIsPaid
