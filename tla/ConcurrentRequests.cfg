SPECIFICATION Spec
CONSTANTS
    Workers = {w1, w2}
    MaxRounds <- MCMaxRounds
    MaxRequests <- MCMaxRequests
INVARIANTS
    TypeOK
    ExecutedWasApproved
    FinalizedHasRow
PROPERTIES
    ApprovedIsLeft
CHECK_DEADLOCK FALSE
