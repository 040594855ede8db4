SPECIFICATION Spec
CONSTANTS
    Account = {R1, R2}
    Signer = {K1, K2}
    Small = 1
    Large = 2
    MaxSmall = 1
    MaxLarge = 1
    MaxEpoch = 2
    MaxFunding = 4
    MaxSigned = 3
SYMMETRY Symmetry
INVARIANTS
    Solvent
    OnePrizeEach
    BooksBalance
PROPERTIES
    AssignedInTerm
