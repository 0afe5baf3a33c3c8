SPECIFICATION FairSpec
CONSTANTS
    g = g
    a = a
    b = b
    c = c
    d = d
    Thread = {t1}
    Hash = {g, a, b, c, d}
    Genesis = g
    WellFormed = {a, b, c, d}
    Parents <- BigParents
    Declared <- BigHeights
    Stamp <- BigStamp
    MaxHeight = 3
    Cutoffs = {1, 2}
    Early = {}
INVARIANTS
    MapsAgree
    NoneLost
PROPERTY CatchesUp
