SPECIFICATION Spec
CONSTANTS
    n1 = n1
    n2 = n2
    a = a
    b = b
    dc1 = dc1
    t1 = t1
    t2 = t2
    DefaultTTL = 2
    MinTTL = 0
    MaxTTL = 0
    GracePeriod = 0
    Nodes <- MCNodes
    SvcIds <- MCIds
    Names <- MCIds
    Metas <- MCMetas
    Datas <- MCDatas
    NoId = NoId
    NoNode = NoNode
    NoMeta = NoMeta
    NoSvc = NoSvc
    NoEvent = NoEvent
    MaxServices = 2
    StartIndex = 0
    Registrations <- MCRegistrations
    PeerBatches <- MCPeerBatches
    RenewArgs <- MCRenewArgs
    FailRefs <- MCFailRefs
    MaxIndex = 3
    MaxTime = 2
INVARIANTS
    ByNameExact
    EventsDescribeRegistry
    CapRespected
PROPERTIES
    
    ImplementsCatalog
