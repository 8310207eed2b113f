SPECIFICATION FairSpec
CONSTANTS
    Jobs = {j1}
    r1 = r1
    r2 = r2
    Requests = {r1, r2}
    Ops <- MCOps
    Slots = 1
    Attempts = 2
    MaxStalled = 1
    Wakeups = 2
    HistoryLength = 1
    CriticalAt = 2  OverloadedAt = 5  BacklogAt = 1  AlarmAt = 0  ScaleAt = 1
    BulkConcurrency = 1  IndexingConcurrency = 5
    MemoryUse = {50}
    MaxExtra = 0
    MaxTroubles = 1
PROPERTIES IdleIsTrue ActivationServes
CHECK_DEADLOCK FALSE
