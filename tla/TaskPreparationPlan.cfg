SPECIFICATION Spec
CONSTANTS
    d1 = d1  d2 = d2  p1 = p1  p2 = p2  h1 = h1  h2 = h2  w1 = w1  w2 = w2  o1 = o1  o2 = o2
    NoId = NoId
    MaxTasks = 2
    MaxExecutions = 2
    Definitions <- OneDefinition
    ProviderIds <- OneId
    Handlers <- OneHandler
    Pollers <- NoPoller
    Operators <- OneOperator
    Owners <- CallsOnly
    MaxVersion = 5
    MaxGeneration = 2
    MaxCrashes = 0
    Legacy = FALSE
    MaxBusy = 2
SYMMETRY Symmetry
CONSTRAINT NotCrowded
INVARIANTS
    StartedAfterUpstream
    ReplacedStaysStopped
PROPERTIES
    ImplementsWorkflow
CHECK_DEADLOCK FALSE
