SPECIFICATION FairSpec
CONSTANTS
    Workers = {w1}
    MaxCalls = 4
    MaxCrashes = 0
PROPERTY ImplementsService
PROPERTY StopCompletes
CHECK_DEADLOCK FALSE
