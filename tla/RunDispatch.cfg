SPECIFICATION Spec
CONSTANTS
    m1 = m1  m2 = m2  p1 = p1  p2 = p2  q1 = q1  q2 = q2  o1 = o1  o2 = o2
    NoId = NoId
    Merchants <- OneMerchant
    MaxRuns = 2
    ProviderIds <- TwoIds
    Pollers <- OnePoller
    Operators <- OneOperator
    MaxGeneration = 3
    MaxCrashes = 1
    RepeatedAnswers = FALSE
    Legacy = FALSE
    MaxBusy = 2
SYMMETRY Symmetry
CONSTRAINT NotCrowded
INVARIANTS
    TypeOK
    OneRunningRunPerMerchant
    ReservationHoldsLifecycle
    ResultBelongsToReservation
CHECK_DEADLOCK FALSE
