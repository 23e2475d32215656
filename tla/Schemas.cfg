SPECIFICATION MCSpec
CONSTANTS
    Loaders = {1, 2}
    Specs <- MCSpecs
    Raises <- MCRaises
    Resolve <- MCResolve
    MaxDepth = 2
INVARIANTS
    OperationsAreOfTheSpec
    LoadedIffResolvable
    PositiveBodyIsAccepted
    
    VerdictIsConformance
CHECK_DEADLOCK FALSE
