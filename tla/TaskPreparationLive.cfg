SPECIFICATION FairSpec
CONSTANTS
    d1 = d1  d2 = d2  p1 = p1  p2 = p2  h1 = h1  h2 = h2  w1 = w1  w2 = w2  o1 = o1  o2 = o2
    NoId = NoId
    MaxTasks = 1
    MaxExecutions = 2
    Definitions <- TwoDefinitions
    ProviderIds <- OneId
    Handlers <- OneHandler
    Pollers <- OnePoller
    Operators <- OneOperator
    Owners <- CallsAndAgents
    MaxVersion = 6
    MaxGeneration = 1
    MaxCrashes = 1
    Legacy = TRUE
    MaxBusy = 9
INVARIANTS
    ReviewsMatchTasks
PROPERTIES
    PreparationsResolve
CHECK_DEADLOCK FALSE
