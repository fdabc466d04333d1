SPECIFICATION Spec
CONSTANTS
    Prim <- MCPrim
    Unpacked <- None
    Units <- MCUnits
INVARIANTS TypeOK Faithful VerbatimUnlessOverAligned
PROPERTY Settles
CHECK_DEADLOCK FALSE
