SPECIFICATION Spec
CONSTANTS
    Docs = {d1, d2}
    Requests = {r1, r2}
    Ops = {"upload", "put", "erase"}
    BatchSize = 2
    SubBatchSize = 1
    MaxFaults = 1
    MaxCrashes = 1
CHECK_DEADLOCK FALSE
SYMMETRY Symmetry
INVARIANTS StoredUnlessReported NoBlankRows
