SPECIFICATION FairSpec
CONSTANTS
    FileSizeMin = 1
    FileSizeMax = 3
    Inputs <- Started
    Deployments <- Started
    Starter = starter
    Stoppers = {p, q}
    Subscribers = {1}
    Inbox = 1
PROPERTIES
    StopCompletes
CHECK_DEADLOCK FALSE
