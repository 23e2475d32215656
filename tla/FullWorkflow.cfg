SPECIFICATION Spec
CONSTANTS
    Operations <- MCOperations
    Ids <- MCIds
    GroupOf <- MCGroupOf
    Targets = {"local"}
    Catalog <- MCCatalog
    Decisions <- MCDecisions
    Refinements <- MCRefinements
    Messages <- MCMessages
    Texts <- MCTexts
    Routes <- MCRoutes
    Limits = {50}
    NoTarget = NoTarget
    MaxFeedback = 1
    DraftAt <- MCDraftAt
    MaxStarts = 2
    MaxRevisions = 1
    MaxSessions = 2
    Undeletable = {}
INVARIANTS
    TypeOK
    PhaseCanBeAnswered
    FinalizedIsRecorded
    ListedReportsExist
PROPERTIES
    ExecutionsAreApproved
    ImplementsLifecycle
CHECK_DEADLOCK FALSE
