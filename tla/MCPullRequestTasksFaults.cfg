\* Lost events, exceptions and restarts, every command; tasks end between events.
SPECIFICATION FairSpec
CONSTANTS
    MaxHead = 2
    MaxEvents = 3
    MaxBusy = 0
    MaxLost = 1
    MaxRestarts = 1
    MaxFailures = 1
    Kinds = {"clean", "broken", "deletes"}
    Commands = {"team-info", "validate", "merge", "apply", "done", "unsuspend"}
    Roles = {"admin"}
    AuthorRole = "member"
    NoDoc = NoDoc
PROPERTY
    QuietMergeIsApplied
CHECK_DEADLOCK FALSE
