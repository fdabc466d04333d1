SPECIFICATION Spec
CONSTANTS
    Names <- MCNames
    Units <- MCUnits
INVARIANTS
    TypeOK ClosedWhenDone OpaqueOnlyUndefined Minimal OrderDecidesNothing
    UnresolvedSeedsDangle
PROPERTIES Terminates Progresses
CHECK_DEADLOCK FALSE
