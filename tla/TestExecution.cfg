SPECIFICATION Spec
CONSTANTS
    MaxFields = 2
    Statuses = {200, 400}
    Cases <- MCCases
    Plans <- MCPlans
    MaxCases = 2
INVARIANTS
    TypeOK
    RaisesBeforeSending
    VerdictsAreOfTheDraft
    PassedWasAnswered
    FallbackLabelIsTrue
CHECK_DEADLOCK FALSE
