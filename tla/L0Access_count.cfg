SPECIFICATION Spec
CONSTANTS
    Files <- TwoKinds
    Single = {"B"}
    Footed = {"A"}
    StartTimes = {3, 4, 6, 9}
    MaxOpenFiles = 1
    MaxStreams = 4
    MaxRead = 1
    Ops = {"open", "get", "header", "count", "close", "excess"}
    Faults = {"fopen"}
PROPERTIES CountsSkipped
CHECK_DEADLOCK FALSE
