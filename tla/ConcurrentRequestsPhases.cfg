SPECIFICATION Spec
CONSTANTS
    Workers = {w1, w2}
    MaxRounds <- MCMaxRounds
    MaxRequests <- MCMaxRequests
PROPERTIES
    PhasesFollowTheDiagram
CHECK_DEADLOCK FALSE
