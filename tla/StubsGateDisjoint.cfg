SPECIFICATION Spec
CONSTANTS
    VERSIONS = {61, 100, 107, 114}
    FLOOR_ORDINAL = 100
    x86 = x86
    x86_64 = x86_64
    user = user
    Arch = {x86, x86_64}
    Surface = {user}
    Unparsable = Unparsable
    Names <- MCNames
    Prims <- MCPrims
    Keys <- MCKeys
    Renderings <- MCRenderings
    Closures <- StubClosures
    Capturable <- StubCells
    arch_order <- MCArchOrder
INVARIANT StubsGateDisjoint
CHECK_DEADLOCK FALSE
