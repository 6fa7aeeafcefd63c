SPECIFICATION FairSpec
CONSTANTS
    web = web
    c1 = c1
    s1 = s1
    Names <- MCNames
    NoName = NoName
    NoAnswer = NoAnswer
    Refresher = Refresher
    Queries <- MCTwoOfWeb
    Answers <- MCAnswers
    Clients <- MCNone
    Streams <- MCStreams
    Consistency <- MCDefaultMode
    StartBase = 2
    MaxAge = 1
    FetchTime = 1
    MaxWaiters = 1
    MaxChanges = 2
    MaxCrashes = 0
INVARIANTS
    StalenessBounded
    StreamBlockedIsCurrent

    
