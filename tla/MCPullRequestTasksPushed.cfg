\* The branch is pushed to while the bot works; no faults.
SPECIFICATION Spec
CONSTANTS
    MaxHead = 2
    MaxEvents = 2
    MaxBusy = 1
    MaxLost = 0
    MaxRestarts = 0
    MaxFailures = 0
    Kinds = {"clean", "invalid"}
    Commands = {"merge"}
    Roles = {"author"}
    AuthorRole = "lead"
    NoDoc = NoDoc
INVARIANT
    BotMergesOnlyEligible
CHECK_DEADLOCK FALSE
