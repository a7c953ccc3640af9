SPECIFICATION Spec
CONSTANTS
    p1 = p1  p2 = p2  q1 = q1  q2 = q2  w1 = w1
    NoPlace = NoPlace  NoPayload = NoPayload  Malformed = Malformed
    NoRequestId = NoRequestId  NoWorker = NoWorker
    Places <- TwoPlaces
    NumKeywords = 3
    Limit = 2
    Payloads <- SomeSets
    MaxArtifacts = 3
    MaxRuns = 3
    MaxGeneration = 3
    MaxMoves = 1
    MaxCrashes = 1
    Requests <- TwoRequests
    MaxBatches = 2
    Workers <- OneWorker
    MaxPaid = 2
    MaxEvents = 2
    MaxClaims = 1
CONSTRAINT FewEvents
SYMMETRY Symmetry
INVARIANTS
    PaidOnce
    ScansUseActiveVersion
    HeadTrusted
    BatchSummarizesItems
    OffersAreHonoured
PROPERTIES
    KeepsLedger
CHECK_DEADLOCK FALSE
