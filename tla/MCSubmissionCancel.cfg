SPECIFICATION Spec
CONSTANTS
    t1 = t1
    t2 = t2
    eoa = eoa
    public = public
    private = private
    NoTask = NoTask
    Task = {t1, t2}
    Mempool = {public, private}
    Signer = {eoa}
    signer <- MCsigner
    Setups <- MCSetups
    MinesReverts = {public}
    MayRevert = {t2}
    Volatile = {t1}
    GasPrice = {1}
    gas_price_cap = 3
    MaxBlock = 2
INVARIANTS
    CancelOrSettle
