SPECIFICATION Spec
CONSTANTS
    v1 = v1
    v2 = v2
    v3 = v3
    g = g
    a = a
    b = b
    c = c
    d = d
    NoVote = NoVote
    NoProof = NoProof
    Validator = {v1, v2}
    Node = {v1, v2}
    Byz = {}
    ByzBallots <- NoBallots
    Stake <- OneOne
    Members <- Fixed
    MaxEpoch = 0
    Hash = {g, a, b, c, d}
    Genesis = g
    Parents <- LadderParents
    HeightOf <- LadderHeights
    MaxHeight = 2
INVARIANT Agreement
CHECK_DEADLOCK FALSE
