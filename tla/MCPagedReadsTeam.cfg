\* The repositories of a team, of which there are up to three pages.
SPECIFICATION Spec
CONSTANTS
    MaxItem = 5
    Hows = {"team"}
    PageSize = 2
    Attempts = 2
    Lifetime = 3
    Buffer = 1
    MaxDuration = 1
    MaxTime = 1
    MaxReads = 1
    MaxChanges = 0
    MaxFaults = 1
PROPERTIES
    PermissionsAreRead
CHECK_DEADLOCK FALSE
