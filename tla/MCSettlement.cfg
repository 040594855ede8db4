SPECIFICATION Spec
CONSTANTS
    oSell = oSell
    oKill = oKill
    alice = alice
    bob = bob
    NoUid = NoUid
    Uid = {oSell, oKill}
    Account = {alice, bob}
    order <- MCorder
    MaxUint = 6
    Price = {1, 2, 3}
    Scheme <- MCScheme
    MaxTime = 1
INVARIANTS
    FillTracksLedger
    OwnerProtected
    TradedOnlyWithConsent
PROPERTIES
    CancelIsFinal
    ImplementsPromise
