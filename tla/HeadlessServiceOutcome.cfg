SPECIFICATION ServiceSpec
CONSTANTS
    Operations = {1}
    Ids = {"coins"}
    GroupOf <- MCGroupOf
    Targets = {"local"}
    Catalog <- MCCatalog
    Decisions <- MCDecisions
    Refinements <- MCRefinements
    Messages <- MCMessages
    Texts <- MCTexts
    Routes <- MCRoutes
    Limits = {50}
    NoTarget = NoTarget
    MaxFeedback = 0
    DraftAt <- MCDraftAt
    MaxStarts = 2
    MaxRevisions = 0
    MaxSessions = 2
    Undeletable = {}
    Clients = {"web"}
PROPERTIES
    OnlyTheAskedOutcome
CHECK_DEADLOCK FALSE
