SPECIFICATION Spec
CONSTANTS
    v1 = v1
    v2 = v2
    v3 = v3
    g = g
    a = a
    b = b
    c = c
    d = d
    NoVote = NoVote
    NoProof = NoProof
    Validator = {v1, v2, v3}
    Node = {v1, v2}
    Byz = {v3}
    ByzBallots <- ForkBallots
    Stake <- TwoOneOne
    Members <- Leaving
    MaxEpoch = 1
    Hash = {g, a, b}
    Genesis = g
    Parents <- ForkParents
    HeightOf <- ForkHeights
    MaxHeight = 2
INVARIANTS
    FinalizedIsReal
    FinalityIsSound
PROPERTIES
    FinalityAdvances
CHECK_DEADLOCK FALSE
