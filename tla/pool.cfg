SPECIFICATION FairSpec
CONSTANTS
    Workers = {w1, w2}
    MaxCalls = 3
    MaxCrashes = 1
INVARIANT AnsweredFromPast
INVARIANT FirstThreadHasOneJob
PROPERTY Drains
\* The system stops when calls, crashes and shutdown are over.
CHECK_DEADLOCK FALSE
