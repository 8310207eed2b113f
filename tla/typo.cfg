SPECIFICATION FairSpec
CONSTANTS
    a = a  b = b
    Reader = Reader  Shadow = Shadow
    Indexes = {a, b}
    NFields = 2
    Terms <- MCTerms
    Corpora <- MCCorpora
    Files <- MCFiles
    Changes <- MCChanges
    Clients = {c1}  Admins = {d1}
    Queries <- MCQueries
    Mapped <- MCMapped
    English <- MCTerms
    KnownTypos <- MCKnownTypos
    StopWords <- MCStopWords
    LanguageWords = {}
    Similar <- MCSimilar
    MaxName = 4
    MaxTroubles = 1
INVARIANTS CorrectionsExist
PROPERTIES  RebuildServes
CHECK_DEADLOCK FALSE
