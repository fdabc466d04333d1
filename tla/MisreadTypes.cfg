SPECIFICATION Spec
CONSTANTS
    Units <- TypeDumps
    Locations <- MCLocations
    Parsed <- parsed
    AnonLocs <- anon_locs
    Linked <- linked_loc
    Refs <- named_refs
    HasAnon <- has_anon
    Bare <- bare_name
    Result <- result
INVARIANT MisreadingsAreUnknown
CHECK_DEADLOCK FALSE
