\* The blueprint is given another name and another configuration at once.
SPECIFICATION Spec
CONSTANTS
    Labels = {"a", "b"}
    Files = {"v1", "v2"}
    Modes = {TRUE}
    MaxPRs = 2
    MaxEvents = 1
    MaxFaults = 0
    MaxBusy = 0
    None = None
INVARIANT
    ConfigurationIsFetched
CHECK_DEADLOCK FALSE
