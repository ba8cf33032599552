\* A check whose plan is aborted.
SPECIFICATION Spec
CONSTANTS
    Versions = {v1, v2}
    Hour = 2
    MaxTasks = 1
    MaxInFlight = 2
    MaxChanges = 0
    MaxFaults = 1
    MaxClock = 2
CHECK_DEADLOCK FALSE
INVARIANTS
    InSyncIsTrue
