SPECIFICATION Spec
CONSTANTS
    Prim <- MCPrim
    Unpacked <- None
    Units <- Covered
INVARIANT MisjudgementsAreCaught
CHECK_DEADLOCK FALSE
