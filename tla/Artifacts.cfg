SPECIFICATION Spec
CONSTANTS
    NumCells = 2
    MaxUpdates = 1
    MaxCommands = 3
INVARIANTS
    TypeOK
    CrateHasEveryListedCell
    UnitsAreOfTheHeaders
    TableBesideBindings
CHECK_DEADLOCK FALSE
