SPECIFICATION Spec
CONSTANTS
    m1 = m1  m2 = m2  p1 = p1  p2 = p2  q1 = q1  q2 = q2  o1 = o1  o2 = o2
    NoId = NoId
    Merchants <- OneMerchant
    MaxRuns = 2
    ProviderIds <- TwoIds
    Pollers <- OnePoller
    Operators <- NoOperator
    MaxGeneration = 3
    MaxCrashes = 0
    RepeatedAnswers = FALSE
    Legacy = FALSE
    MaxBusy = 1
PROPERTIES
    StalePollEntersReconciliation
CHECK_DEADLOCK FALSE
