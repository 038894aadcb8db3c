SPECIFICATION Spec
CHECK_DEADLOCK FALSE
CONSTANTS
    Requests <- SomeRequests
    MaxJobs = 2
INVARIANTS TypeOK CasHasProduct GivenAreUsed
