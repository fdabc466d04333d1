SPECIFICATION Spec
CONSTANTS
    VERSIONS = {100, 107, 114}
    FLOOR_ORDINAL = 100
    x86_64 = x86_64
    user = user
    Arch = {x86_64}
    Surface = {user}
    Unparsable = Unparsable
    Names <- MCNames
    Prims = {}
    Dumps <- MCDumps
    Keys <- MCKeys
    Renderings <- MCRenderings
    Closures <- MCClosures
    Capturable <- Cells
    arch_order <- MCArchOrder
INVARIANTS OneDefinitionPerName MentionsResolve DanglesOnlyThroughEnums
CHECK_DEADLOCK FALSE
