SPECIFICATION Spec
CONSTANTS
    Names <- MCNames
    Units <- MCUnits
INVARIANT NoDanglingReference
CHECK_DEADLOCK FALSE
