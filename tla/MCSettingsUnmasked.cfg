\* The apply of a merge that switches on what other settings depend on.
SPECIFICATION SetSpec
CONSTANTS
    Cases <- MCCases
    MaxRuns = 1
    MaxFailures = 0
INVARIANTS
    MergeIsApplied
CHECK_DEADLOCK FALSE
