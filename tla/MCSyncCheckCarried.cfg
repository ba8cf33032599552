\* A pull request whose second commit follows a check that found differences.
SPECIFICATION Spec
CONSTANTS
    Versions = {v1, v2}
    Hour = 2
    MaxTasks = 2
    MaxInFlight = 2
    MaxChanges = 0
    MaxFaults = 0
    MaxClock = 2
CHECK_DEADLOCK FALSE
PROPERTIES
    CarriedOverIsTheSame
