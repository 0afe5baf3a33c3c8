SPECIFICATION Spec
CONSTANTS
    g = g
    a = a
    b = b
    c = c
    d = d
    Thread = {t1, t2}
    Hash = {g, a, b, c}
    Genesis = g
    WellFormed = {a, b, c}
    Parents <- SmallParents
    Declared <- ForgedHeights
    Stamp <- SmallStamp
    MaxHeight = 2
    Cutoffs = {1}
    Early = {}
INVARIANT IndexesAgree
PROPERTIES
    FinalityIsSticky
    RefinesCausalStore
