SPECIFICATION Spec
CHECK_DEADLOCK TRUE
CONSTANTS
    Ids = {1, 2}
    InterIn = {2}
    Spare = 3
    MaxNew = 4
    Modes <- AnyThenAscii
    Faults = {"memory", "load", "log", "open", "kill"}
    NoTable = NoTable
INVARIANTS TypeOK SavedIsTable DeletedGone
PROPERTIES RemovesOnlyDeleted SaveImplementsTable
