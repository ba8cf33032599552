\* Repositories whose old names are taken again, nothing fails.
SPECIFICATION Spec
CONSTANTS
    Names = {"a", "b"}
    Order <- MCOrder
    Texts = {1, 2}
    Absent = Absent
    InitialLive <- MCLive
    Configs <- MCConfigs
    DeleteFlags = {TRUE, FALSE}
    MaxRuns = 1
    MaxDrifts = 0
    MaxFailures = 0
PROPERTY
    ConfiguredIsNotDeleted
CHECK_DEADLOCK FALSE
