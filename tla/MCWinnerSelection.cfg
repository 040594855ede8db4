SPECIFICATION SelectionSpec
CONSTANTS
    s1 = s1
    s2 = s2
    s3 = s3
    p1 = p1
    p2 = p2
    Solver = {s1, s2, s3}
    Pair = {p1, p2}
    NoScore = NoScore
    Invalid = Invalid
    max_winners = 2
    PairScore = {0, 1, 2, NoScore, Invalid}
    MaxSolutions = 3
    Wrappings <- MCWrappings
SYMMETRY Symmetry
INVARIANTS
    SelectionInv
    ReferenceIsAnOutcome
CHECK_DEADLOCK FALSE
