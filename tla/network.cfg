SPECIFICATION Spec
CONSTANTS
    Peer = {p1, p2}
    MaxPeers = 1
    MaxConns = 2
    RepBound = 2
    BanAt = 1
    MaxAge = 2
    MaxTime = 3
    Message = {m1, m2, m3}
    Malformed = {m3}
    CacheSize = 1
    Ttl = 2
    ChannelSize = 1
    CommandSize = 2
    Hash <- SmallHash
    Genesis = "g"
    Parents <- SmallParents
    HeightOf <- SmallHeights
    Remote <- SmallHash
    BatchSize = 1
    MaxConcurrent = 1
    Limits = {3}
    MaxTips = 1
    MaxStrays = 1
INVARIANTS
    SyncIsOrderly
PROPERTIES
    PeerTableIsTrue
    OncePerTtl
    LoopProgresses
