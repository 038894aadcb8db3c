SPECIFICATION Spec
CONSTANTS
    Files <- TwoSets
    Single = {}
    Footed = {}
    StartTimes = {0, 4, 7}
    MaxOpenFiles = 2
    MaxStreams = 2
    MaxRead = 1
    Ops = {"open", "get", "header", "start", "close"}
    Faults = {"fopen"}
INVARIANTS TypeOK StreamsAgree
PROPERTIES ImplementsStream
CHECK_DEADLOCK FALSE
