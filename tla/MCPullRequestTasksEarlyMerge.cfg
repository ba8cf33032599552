\* A pull request that is merged while its first tasks are running; no faults.
SPECIFICATION FairSpec
CONSTANTS
    MaxHead = 1
    MaxEvents = 1
    MaxBusy = 3
    MaxLost = 0
    MaxRestarts = 0
    MaxFailures = 0
    Kinds = {"clean"}
    Commands = {"done"}
    Roles = {"admin"}
    AuthorRole = "lead"
    NoDoc = NoDoc
PROPERTY
    MergeIsApplied
CHECK_DEADLOCK FALSE
