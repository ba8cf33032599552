\* Merge commits with two parents, nothing fails.
SPECIFICATION Spec
CONSTANTS
    Prs = {p1, p2}
    Settings = {a, b}
    Values = {0, 1}
    Keep = Keep
    Methods = {"merge"}
    MaxRetries = 0
    MaxFailures = 0
INVARIANT 
    EveryMergeIsApplied
CHECK_DEADLOCK FALSE
