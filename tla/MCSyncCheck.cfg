\* Three checks of one pull request, two at a time, a change, a fault.
SPECIFICATION Spec
CONSTANTS
    Versions = {v1, v2}
    Hour = 1
    MaxTasks = 3
    MaxInFlight = 2
    MaxChanges = 1
    MaxFaults = 1
    MaxClock = 1
INVARIANTS
    CalmCheckIsTrue
PROPERTIES
    EveryCommitIsDecided
CHECK_DEADLOCK FALSE
