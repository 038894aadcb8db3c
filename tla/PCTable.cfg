SPECIFICATION Spec
CHECK_DEADLOCK TRUE
CONSTANTS
    Ids = {1, 2}
    Names <- Files
    InterIn = {1}
    MaxFiles = 2
INVARIANTS TypeOK AtMostOneLive
PROPERTIES DeleteIsFinal
