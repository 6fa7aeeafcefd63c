SPECIFICATION Spec
CONSTANTS
    s1 = s1
    s2 = s2
    s3 = s3
    DefaultTTL = 1
    MinTTL = 0
    MaxTTL = 0
    GracePeriod = 0
    Seeds <- MCSeeds
    Keys <- MCKeys
    Payloads <- MCPayloads
    Tags <- MCTags
    NoTag = ""
    TicksPerSecond = 2
    MaxGen = 2
    MaxSeen = 2
    Clusters <- MCClusters
    NoCopy = NoCopy
    NoAddr = NoAddr
    Self = "i1"
    LocalDC = "east"
    RemoteDC = "west"
    ARecordLimit = 1
    Asks <- MCAsks
    NoReply = NoReply
    MaxLexemes = 5
CHECK_DEADLOCK FALSE
INVARIANTS
    NewestWins
    FreshestHealthDecides
    HiddenIsExplained
    
    SrvNodeTargetsResolve
    FilterMeans
    NamesMean
