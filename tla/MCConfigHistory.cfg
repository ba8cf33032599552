\* Overlapping, failing and repeated applies; merges with one parent commit.
SPECIFICATION Spec
CONSTANTS
    Prs = {p1, p2}
    Settings = {a, b}
    Values = {0, 1}
    Keep = Keep
    Methods = {"squash"}
    MaxRetries = 1
    MaxFailures = 1
INVARIANTS
    CompletedWasWritten
    UncontestedIsInSync
    OrderlyIsInSync
PROPERTY
    ImplementsLiveFollowsHistory
CHECK_DEADLOCK FALSE
