SPECIFICATION Spec
CONSTANTS
    Units <- AllUnits
    Locations <- MCLocations
    Parsed <- parsed
    AnonLocs <- anon_locs
    Linked <- linked_loc
    Refs <- named_refs
    HasAnon <- has_anon
    Bare <- bare_name
    Result <- result
INVARIANTS
    TypeOK
    AnonymousFieldsAreOwn
    OneRecordPerName
    TypesReadBack
    IndexFindsRecords
    LinkageNamesFound
    ServesClosure
CHECK_DEADLOCK FALSE
