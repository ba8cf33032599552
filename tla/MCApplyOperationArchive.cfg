\* Repositories that get archived, nothing fails.
SPECIFICATION Spec
CONSTANTS
    Names = {"a", "b"}
    Order <- MCOrder
    Texts = {1, 2}
    Absent = Absent
    InitialLive <- MCLive
    Configs <- MCConfigs
    DeleteFlags = {TRUE, FALSE}
    MaxRuns = 1
    MaxDrifts = 0
    MaxFailures = 0
INVARIANT
    ArchivedAsConfigured
CHECK_DEADLOCK FALSE
