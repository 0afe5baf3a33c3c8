SPECIFICATION Spec
CONSTANTS
    Tx = {x1, x2}
    NoIsoData = {}
    HasTips = TRUE
    MempoolSize = 2
    BatchSize = 2
    PoolSize = 2
    MaxTxs = 2
    ChannelSize = 1
    NoProposal = NoProposal
PROPERTY PooledIsIncluded
