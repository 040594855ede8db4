SPECIFICATION Spec
CONSTANTS
    Safe = Safe
    Guardian = Guardian
    Timelock = Timelock
    Other = {Candidate}
    NoOne = NoOne
    Solver = {S1}
    MinDelay = 1
    MaxTime = 2
    MaxQueued = 1
INVARIANTS
    Inv
PROPERTIES
    NoPowerWithoutNotice
    FailsSafe
CHECK_DEADLOCK FALSE
