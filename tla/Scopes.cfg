SPECIFICATION Spec
CONSTANTS
    Operations <- MCOperations
    MethodOf <- MCMethodOf
    PathOf <- MCPathOf
    TagsOf <- MCTagsOf
    MaxLimit = 3
    GroupOf <- MCGroupOf
    Place <- MCPlace
    MostRecommended = 1
    Ids <- MCIds
    Replies <- MCReplies
    RepliesToModel <- MCRepliesToModel
INVARIANTS
    MatchedArePlanned
    DecisionIsHonoured
    FeedbackIsHonoured
CHECK_DEADLOCK FALSE
