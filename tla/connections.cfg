SPECIFICATION MCSpec
CONSTANTS
    Conns = {c1, c2, c3}
    Requests = {r1, r2}
    Docs = {d1, d2}
    Ops = {"store", "query", "drop"}
    MaxFaults = 2
    Procs = {p1, p2}
    Rows = {d1}
    MaxStops = 2
    Clients = {u1, u2, u3}
    Samples <- Uploaded
    Found <- FoundIn
    Attempts = 2
    MaxTroubles = 1
CHECK_DEADLOCK FALSE
INVARIANTS StoreIsAtomic NothingHeld ServingMeansReady StartKeepsDocuments MappedFieldsWeigh
PROPERTY RequestsEnd
