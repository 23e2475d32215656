SPECIFICATION Spec
CONSTANTS
    Messages <- MCMessages
    Drafts = {"round_01", "round_02"}
    Undeletable = {"staged", "round_02"}
    MaxRevisions = 2
    MaxSessions = 2
INVARIANTS
    TypeOK
    PendingMatchesQuestion
    TrackedFilesMatchDisk
    EndedWithOneOutcome
    FinalReportIsTheTextShown
PROPERTIES
    DestructiveActionsAreConsented
    CancelDeletesReports
CHECK_DEADLOCK FALSE
