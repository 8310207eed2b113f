SPECIFICATION QuerySpec
CONSTANTS
    Marks <- MCMarks
    Lower <- MCLower
    Stopwords <- MCStopwords
    Quote = "''"  Star = "*"  Question = "?"  Comma = ","  Minus = "-"
    Inside <- MCInside
    Inflections <- MCInflections
    Amount <- MCAmount
    Measured <- MCMeasured
    BusinessTypes <- MCBusinessTypes
    Synonyms <- MCSynonyms
    AllFields = "_all"
    Plain <- MCPlain
    Places <- MCPlaces
    Distance <- MCDistance
    RawQueries <- MCRawQueries
    Users <- MCUsers
    HitLists <- MCHitLists
INVARIANTS AskedEverywhere ExpansionKeepsQuery LocationsAgree
