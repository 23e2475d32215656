SPECIFICATION Spec
CONSTANTS
    Operations <- MCOperations
    Ids <- MCIds
    GroupOf <- MCGroupOf
    Targets <- MCTargets
    Catalog <- MCCatalog
    Decisions <- MCDecisions
    Refinements <- MCRefinements
    Limits = {1, 50}
    NoTarget = NoTarget
    MaxFeedback = 2
    MaxStarts = 2
INVARIANTS
    TypeOK
    DraftsMatchScope
    RepliesCanBeTaken
    FirstDraftStaysInScope
PROPERTIES
    ApprovalIsOfThePreview
