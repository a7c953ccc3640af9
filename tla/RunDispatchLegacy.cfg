SPECIFICATION Spec
CONSTANTS
    m1 = m1  m2 = m2  p1 = p1  p2 = p2  q1 = q1  q2 = q2  o1 = o1  o2 = o2
    NoId = NoId
    Merchants <- TwoMerchants
    MaxRuns = 2
    ProviderIds <- OneId
    Pollers <- OnePoller
    Operators <- OneOperator
    MaxGeneration = 3
    MaxCrashes = 0
    RepeatedAnswers = TRUE
    Legacy = TRUE
    MaxBusy = 1
SYMMETRY Symmetry
CONSTRAINT NotCrowded
INVARIANTS
    BindingsUnique
PROPERTIES
    EvidenceKept
    AcceptedUnderReservedLifecycle
    LaneSpec
CHECK_DEADLOCK FALSE
