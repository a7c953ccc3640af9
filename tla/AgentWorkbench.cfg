SPECIFICATION FairSpec
CONSTANTS
    a = a  b = b
    Nobody = Nobody
    Processes <- TwoProcesses
    MaxRuns = 2
    Own <- First
    Brief <- Second
    Limit = 1
    MaxIncidents = 1
INVARIANTS
    ServedStateIsConfirmed
PROPERTIES
    ProofMissesNothing
    RowsNeverRegress
    ListedRunsAreMirrored
CHECK_DEADLOCK FALSE
