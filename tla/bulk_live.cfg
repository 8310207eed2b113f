SPECIFICATION LiveSpec
CONSTANTS
    Docs = {d1}
    Requests = {r1, r2}
    Ops = {"batch", "drop", "create", "rebuild", "reset", "clean", "pause", "resume", "start", "recount", "rebuild_all"}
    BatchSize = 1
    SubBatchSize = 1
    MaxFaults = 0
    MaxCrashes = 1
CHECK_DEADLOCK FALSE
INVARIANT RemovedIsNotProcessed
PROPERTIES EveryBatchEnds CountConverges
