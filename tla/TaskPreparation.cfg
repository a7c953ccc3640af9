SPECIFICATION Spec
CONSTANTS
    d1 = d1  d2 = d2  p1 = p1  p2 = p2  h1 = h1  h2 = h2  w1 = w1  w2 = w2  o1 = o1  o2 = o2
    NoId = NoId
    MaxTasks = 1
    MaxExecutions = 2
    Definitions <- OneDefinition
    ProviderIds <- OneId
    Handlers <- TwoHandlers
    Pollers <- TwoPollers
    Operators <- TwoOperators
    Owners <- CallsAndAgents
    MaxVersion = 7
    MaxGeneration = 3
    MaxCrashes = 1
    Legacy = TRUE
    MaxBusy = 2
SYMMETRY Symmetry
CONSTRAINT NotCrowded
INVARIANTS
    PreparingIffActive
    ExecutorMatchesAssignee
    PreparationPinsLifecycle
    NoBlindRepeat
PROPERTIES
    AttemptsAreFinal
    DecisionsAreInformed
CHECK_DEADLOCK FALSE
