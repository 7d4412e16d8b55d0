SPECIFICATION FairSpec
CONSTANTS
    FileSizeMin = 1
    FileSizeMax = 3
    Inputs <- TestInputs
    Deployments <- Started
    Starter = starter
    Stoppers = {p, q}
    Subscribers = {1, 2}
    Inbox = 2
INVARIANTS
    TypeOK
    ValidateExact
    ValidateTwice
    RefusedLeavesNothing
    RegisteredRuns
    StoppedIsDown
    LoggerLast
PROPERTIES
    CallsReturn
CHECK_DEADLOCK FALSE
