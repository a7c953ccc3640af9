SPECIFICATION FairSpec
CONSTANTS
    a = a  b = b  c = c  f1 = f1  f2 = f2  f3 = f3  l1 = l1  d1 = d1  r1 = r1
    NoJob = NoJob  Nobody = Nobody
    Loops <- TwoLoops
    Clients <- OneClient
    Fbrs <- ThreeFbrs
    OwnedElsewhere <- Foreign
    Locations <- OneLocation
    Answers <- SomeAnswers
    Commands <- OneCommand
    MaxBindings = 2
    MaxGeneration = 3
    MaxVersion = 2
    MaxIncidents = 2
    MaxAge = 1
    Jobs <- OneJob
    Months <- TwoMonths
    MaxAttempts = 2
    MaxBatches = 2
INVARIANTS
    OneOpenAttempt
PROPERTIES
    ProfilesFollowBinding
    WorkEnds
CHECK_DEADLOCK FALSE
