SPECIFICATION Spec
CONSTANTS
    LogText = {"p", "q"}
    MaxPieces = 6
    MaxStarts = 3
    Field = 31
    ZkRange = 15
    Cut = 31
    ZkRequest <- Requests
    Client = {"c1", "c2"}
    ProvingKeys = {{"private"}, {"private", "balance"}}
    VerifyingKey = {"private", "balance"}
    MaxPending = 2
    MaxUses = 2
    Participant = {"p1", "p2"}
    MessageId = {"m1", "m2"}
    Amount = {1, 2}
    MaxMessages = 4
    Depositor = {"d1", "d2"}
    PoolCommitment = {"c1", "c2", "c3", "c4", "c5"}
    PoolNullifier = {"n1"}
    Denomination = {1}
    PoolDepth = 3
    MaxDeposits = 5
    Commitment = {"x", "y"}
    TreeDepth = 2
    MaxLeaves = 5
    Address = {"v1", "v2"}
    Stake = {1, 40000}
    MinStake = 2
    Width = 65536
    Percents = {5000}
    MaxAdvances = 2
    MaxChanges = 2
    Rates = {20000}
    Staker = {"s1", "s2", "s3"}
    Value = {1, 2}
    ScMinStake = 2
    MaxCommission = 2
    UnbondingPeriod = 1
    RewardDivisor = 2
    Commission = {1}
    MaxTxs = 5
    MaxTime = 2
    TsVertex = {"g", "a", "b", "c"}
    TsParents <- TipGraph
    TsGenesis = "g"
    MaxParents = 3
    Inserters = 2
    Limits <- SelectorLimits
    Depths = {1, 2}
    TxCount = {1, 3}
    Latency = {2, 5}
    WindowSize = 1
    MaxHistory = 3
    MaxRecords = 2
    GsAddress = {"a1", "a2"}
    Code <- Codes
    GsMinStake = 2
    GsWidth = 64
    MaxAmount = 1
    IsoField = {2, 4, 36, 65, 66, 100}
    IsoValue <- Texts
    FixedLen = 2
    LlMax = 2
    LllMax = 3
    MaxFields = 3
    Condition <- ConditionSet
    Rule <- RuleSet
    Default = {{}, {"fallback"}}
    Transfer <- TransferSet
    Card <- CardSet
    Sanctioned = {"KP"}
    HighRisk = {"RU"}
    EddThreshold = 8
    MaxRules = 3
INVARIANTS
    SelectionHolds
    MetricsAreTrue
    SpendsAreSound
    AccumulatorIsTree
    WireIsFaithful
    GenesisRoundTrips
    ChainIsLinked
    PoolRootIsTree
    PendingIsFunded
PROPERTIES
    EpochsAreRecorded
    DecisionsStand
    BooksAgree
CHECK_DEADLOCK FALSE
