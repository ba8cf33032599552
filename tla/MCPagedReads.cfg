\* Up to three pages of two items, read by number, by cursor, or as the actors of a rule.
SPECIFICATION Spec
CONSTANTS
    MaxItem = 5
    Hows = {"rest", "graphql", "actors"}
    PageSize = 2
    Attempts = 2
    Lifetime = 3
    Buffer = 1
    MaxDuration = 1
    MaxTime = 3
    MaxReads = 2
    MaxChanges = 1
    MaxFaults = 2
INVARIANTS
    ReadsAreExact
    FailuresHaveACause
PROPERTIES
    ReadsEnd
CHECK_DEADLOCK FALSE
