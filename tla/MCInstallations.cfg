\* Two organizations.
SPECIFICATION AppSpec
CONSTANTS
    Orgs = {"a", "b"}
    Kinds = {"config", "policies"}
    Registries <- MCRegistries
    MaxTransitions = 3
    MaxPushes = 1
    MaxVersions = 2
    MaxInits = 1
    MaxOverlaps = 1
    MaxFailures = 1
INVARIANTS
    InitRepairs
    EventsSuffice
CHECK_DEADLOCK FALSE
