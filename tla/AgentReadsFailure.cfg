SPECIFICATION FairSpec
CONSTANTS
    web = web
    c1 = c1
    s1 = s1
    Names <- MCNames
    NoName = NoName
    NoAnswer = NoAnswer
    Refresher = Refresher
    Queries <- MCWeb
    Answers <- MCTwoAnswers
    Clients <- MCClients
    Streams <- MCNone
    Consistency <- MCDefaultMode
    StartBase = 0
    MaxAge = 1
    FetchTime = 0
    MaxWaiters = 1
    MaxChanges = 1
    MaxCrashes = 0
PROPERTIES
    StaleServedOnFailure
