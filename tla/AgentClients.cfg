SPECIFICATION FairSpec
CONSTANTS
    web = web
    c1 = c1
    s1 = s1
    Names <- MCNames
    NoName = NoName
    NoAnswer = NoAnswer
    Refresher = Refresher
    Queries <- MCWebAndList
    Answers <- MCTwoAnswers
    Clients <- MCClients
    Streams <- MCNone
    Consistency <- MCBothModes
    StartBase = 3
    MaxAge = 1
    FetchTime = 0
    MaxWaiters = 1
    MaxChanges = 2
    MaxCrashes = 1
INVARIANTS
    ClientIndexMonotone
PROPERTIES
    ClientsConverge
