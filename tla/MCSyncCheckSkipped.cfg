\* Three commits, each an hour or less after the one before.
SPECIFICATION Spec
CONSTANTS
    Versions = {v1, v2}
    Hour = 2
    MaxTasks = 3
    MaxInFlight = 3
    MaxChanges = 0
    MaxFaults = 0
    MaxClock = 3
CHECK_DEADLOCK FALSE
PROPERTIES
    SkippedIfChecked
