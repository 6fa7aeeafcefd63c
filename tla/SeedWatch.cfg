SPECIFICATION FairWatchSpec
CONSTANTS
    n1 = n1
    a = a
    b = b
    dc1 = dc1
    t1 = t1
    DefaultTTL = 2
    MinTTL = 0
    MaxTTL = 0
    GracePeriod = 0
    Nodes <- MCOneNode
    SvcIds <- MCIds
    Names <- MCIds
    Metas <- MCMetas
    Datas <- MCDatas
    NoId = NoId
    NoNode = NoNode
    NoMeta = NoMeta
    NoSvc = NoSvc
    NoEvent = NoEvent
    MaxServices = 0
    StartIndex = 0
    Registrations <- MCWatchRegistrations
    PeerBatches <- MCNone
    RenewArgs <- MCRenewNode
    FailRefs <- MCNone
    MaxIndex = 2
    MaxTime = 2
    c1 = c1
    Clients <- MCClients
    Queries <- MCQueries
    Buffer = 2
    MaxWriters = 2
INVARIANTS
    NoMissedChange
    ConvergesInOrder
PROPERTIES
    StreamServed
