SPECIFICATION Spec
CONSTANTS
    k1 = k1  k2 = k2  k3 = k3  a = a  b = b  o1 = o1  o2 = o2
    Keys <- TwoKeys
    Texts <- TwoTexts
    Operators <- OneOperator
    MaxRevisions = 3
SYMMETRY Symmetry
INVARIANTS
    TypeOK
    RestartSucceeds
    LiveTasksMatchApproval
PROPERTIES
    HistoryIsKept
CHECK_DEADLOCK FALSE
