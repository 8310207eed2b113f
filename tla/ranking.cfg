SPECIFICATION FairRankSpec
CONSTANTS
    full = full  part = part  words = words  typo = typo  else = else  huge = huge  bad = bad
    Docs <- MCDocs
    Business <- MCBusiness
    Plans <- MCPlans
    Size = 3
    Threshold = 3
    UseWorkers = TRUE
    HighScore = 5
    Chunk = 2
    Sequential = 2
    Unreadable = Unreadable
INVARIANTS NothingLost ContainingFirst ThreadsFailSilently
PROPERTIES RankingEnds
CHECK_DEADLOCK FALSE
