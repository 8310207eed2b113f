SPECIFICATION MCSpec
CONSTANTS
    Docs = {1, 2}
    Versions = {"named", "told", "unset"}
    Contents <- MCContents
    Jobs = {j1}
    MaxTroubles = 1
    MaxWrites = 1
    Clients = {c1, c2}
    Size = 1
    Shape <- MCShape
INVARIANTS SuccessMeansFollowed WalkIsComplete StatementsAsWritten
PROPERTIES FailsForMissingTable JobsEnd
CHECK_DEADLOCK FALSE
