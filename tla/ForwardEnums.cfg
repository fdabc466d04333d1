SPECIFICATION Spec
CONSTANTS
    Units <- ForwardEnums
    Locations <- MCLocations
    Parsed <- parsed
    AnonLocs <- anon_locs
    Linked <- linked_loc
    Refs <- named_refs
    HasAnon <- has_anon
    Bare <- bare_name
    Result <- result
INVARIANT IndexedEnumsAreComplete
CHECK_DEADLOCK FALSE
