SPECIFICATION Spec
CONSTANTS
    Messages <- MCMessages
    Drafts = {"round_01"}
    Undeletable = {}
    MaxRevisions = 2
    MaxSessions = 2
PROPERTIES
    RefusalIsHonoured
CHECK_DEADLOCK FALSE
