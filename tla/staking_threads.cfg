SPECIFICATION Spec
CONSTANTS
    v1 = v1
    v2 = v2
    d1 = d1
    t1 = t1
    t2 = t2
    Thread = {t1, t2}
    Validator = {v1, v2}
    Delegator = {d1}
    SelfStake <- Uneven
    Commission <- FivePercent
    Amount = {1, 2}
    Rewards = 4
    UnbondingPeriod = 1
    MaxEpoch = 2
    MaxDeposit = 3
    MaxRegistrations = 2
INVARIANTS
    StakeIsAccounted
    NoGain
PROPERTIES
    UnbondingTakesItsTime
SYMMETRY ThreadSymmetry
