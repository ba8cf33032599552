\* Two repositories; requests fail, answers get lost, the web UI is used.
SPECIFICATION Spec
CONSTANTS
    Names = {"a", "b"}
    Order <- MCOrder
    Texts = {1, 2}
    Absent = Absent
    InitialLive <- MCLive
    Configs <- MCConfigs
    DeleteFlags = {TRUE, FALSE}
    MaxRuns = 2
    MaxDrifts = 1
    MaxFailures = 1
INVARIANTS
    TypeOK
    CleanRunSettles
    FailuresAreIsolated
    ChildrenBeforeArchiving
PROPERTY
    NothingVanishes
CHECK_DEADLOCK FALSE
