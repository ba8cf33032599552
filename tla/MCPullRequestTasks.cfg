\* Overlapping tasks, no faults.
SPECIFICATION Spec
CONSTANTS
    MaxHead = 2
    MaxEvents = 3
    MaxBusy = 1
    MaxLost = 0
    MaxRestarts = 0
    MaxFailures = 0
    Kinds = {"clean", "manual", "invalid"}
    Commands = {"merge", "apply", "done"}
    Roles = {"author", "admin"}
    AuthorRole = "lead"
    NoDoc = NoDoc
INVARIANTS
    TypeOK
    CompletedOnlyIfMerged
    LiveOnlyFromMergeCommit
    BotNeedsEvidence
    LiveNeedsValidation
    CompletedIsAccountedFor
PROPERTY
    ImplementsMergeThenApply
CHECK_DEADLOCK FALSE
