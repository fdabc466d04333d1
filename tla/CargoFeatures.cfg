SPECIFICATION Spec
CONSTANTS
    VERSIONS <- MCVersions
    FLOOR_ORDINAL = 100
    Arch = {x86_64}
    Surface = {user}
    Default = Default
    Legacy = Legacy
    Dependents = {d1, d2}
    Requests <- MCRequests
INVARIANTS TypeOK OneLevel NewestRequested
CHECK_DEADLOCK FALSE
