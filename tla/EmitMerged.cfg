SPECIFICATION Spec
CONSTANTS
    VERSIONS = {61, 100, 107, 114}
    FLOOR_ORDINAL = 100
    x86 = x86
    x86_64 = x86_64
    user = user
    Arch = {x86, x86_64}
    Surface = {user}
    Unparsable = Unparsable
    Names <- MCNames
    Prims <- MCPrims
    Keys <- MCKeys
    Renderings <- MCRenderings
    Closures <- UserClosures
    Capturable <- UserCells
    arch_order <- MCArchOrder
INVARIANTS TypeOK OneDefinitionPerName MentionsResolve RefusedForAGap
    ExactStubsAreDisjoint AbiOfTheFirst
PROPERTY ImplementsGatedCrate
CHECK_DEADLOCK FALSE
