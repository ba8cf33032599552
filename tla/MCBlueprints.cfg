\* Users, tasks, rounds and faults that overlap.
SPECIFICATION FairSpec
CONSTANTS
    Labels = {"a"}
    Files = {"v1"}
    Modes = {TRUE, FALSE}
    MaxPRs = 5
    MaxEvents = 3
    MaxFaults = 1
    MaxBusy = 1
    None = None
INVARIANTS
    TypeOK
    DismissalStands
    StatusIsTrue
PROPERTIES
    RecheckHappens
    RemediationIsPrepared
CHECK_DEADLOCK FALSE
