\* All groups of settings; up to three runs, a request fails.
SPECIFICATION SetSpec
CONSTANTS
    Cases <- MCCases
    MaxRuns = 3
    MaxFailures = 1
INVARIANTS
    SettlesAtOnce
    SettlesInTwo
    ValidIsAccepted
CHECK_DEADLOCK FALSE
