\* Two files, two valid contents and an invalid one, and three operations.
SPECIFICATION Spec
CONSTANTS
    Files = {config, readme}
    Config = config
    Contents = {v1, v2, bad}
    Valid = {v1, v2}
    Absent = absent
    Kinds = {"fetch", "push", "review", "open", "delete", "sync"}
    MaxRuns = 3
    MaxChanges = 2
    MaxFaults = 1
INVARIANTS
    ReportedIsTrue
    ReviewedIsValid
CHECK_DEADLOCK FALSE
