\* All groups of objects; up to three runs, one failure, one change by others.
SPECIFICATION RefSpec
CONSTANTS
    Teams = {"red", "blue"}
    Users = {"kim", "bot"}
    Apps = {"app"}
    Creator = "bot"
    Cases <- MCCases
    MaxApplies = 3
    MaxFailures = 1
    MaxOthers = 1
INVARIANTS
    SettlesInTwo
    ThirdRunIsEmpty
PROPERTIES
    NobodyLosesInBetween
CHECK_DEADLOCK FALSE
