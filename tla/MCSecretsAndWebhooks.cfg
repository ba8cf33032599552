\* Webhooks, secrets or variables: two applies or imports, one merge, one change by others,
\* one failure; GitHub lists two objects at a time.
SPECIFICATION Spec
CONSTANTS
    Kinds = {"webhook", "secret", "variable"}
    Words <- MCWords
    Data = {"d", "e"}
    Lives <- MCLives
    Configs <- MCConfigs
    References = {"pass"}
    Literals = {"text", "old", "a:b:c"}
    Credentials = {"new", "n:e:w"}
    Colons = {"a:b:c", "n:e:w"}
    PageSize = 2
    MaxRuns = 2
    MaxEdits = 1
    MaxOthers = 1
    MaxFailures = 1
INVARIANTS
    SecretsAreSecret
    CleanRunSettles
CHECK_DEADLOCK FALSE
