SPECIFICATION Spec
CONSTANTS
    v1 = v1
    v2 = v2
    v3 = v3
    None = None
    t1 = t1
    t2 = t2
    Thread = {t1, t2}
    Validator = {v1, v2, v3}
    Active = {v1, v2, v3}
    Me = v1
    Slot = 0
    Stake <- OneTwoOne
    Vertex = {x}
    MaxView = 1
    MaxRequests = 1
INVARIANTS
    CommitPhaseIsLocked
    VotesBelongToRound
SYMMETRY ThreadSymmetry
CHECK_DEADLOCK FALSE
