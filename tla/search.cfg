SPECIFICATION FairSpec
CONSTANTS
    r1 = r1  r2 = r2  d1 = d1  d2 = d2  d3 = d3
    bak = bak  bank = bank  bake = bake
    all = all  open = open
    Requests <- MCRequests
    Docs <- MCDocs
    Texts <- MCTexts
    Filters <- MCFilters
    Queries <- MCQueries
    Match <- MCMatch
    Loose <- MCLoose
    Passes <- MCPasses
    Correction <- MCCorrection
    Simplified <- MCSimplified
    Size = 1
    Cap = 2
    MaxFaults = 2
    MaxWrites = 1
INVARIANTS CacheHoldsSearches AnswersAreRelated OriginalFirst
PROPERTIES EntriesHeal SearchesEnd
