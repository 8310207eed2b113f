-------------------------- MODULE QueryUnderstanding --------------------------
(***************************************************************************)
(* What the search code makes of a query before it searches: structured    *)
(* queries (QueryProcessorService), entities, places, intent, synonyms,    *)
(* the endpoints of IntelligentSearchController, and what SearchService    *)
(* does with the place: a simpler query and the geographic filter.         *)
(* Texts are those of TextAnalysis.                                        *)
(***************************************************************************)
EXTENDS TextAnalysis

CONSTANTS
    Quote, Star, Question, Comma, Minus,    \* marks
    Inside,         \* <<part, word>>: part occurs in the word, and is another
    Inflections,    \* target -> its plural and its singular, as matchesWord
                    \* makes them
    Amount,         \* the words that are numbers -> their values
    Measured,       \* the words that are a number and a unit -> the two
    BusinessTypes,  \* sequence of <<type, its synonyms>>
    Synonyms,       \* term -> sequence of its synonyms
    AllFields,      \* _all, the field of a query that names none
    Plain,          \* field names with a boost -> without it
    Places,         \* names of known cities and areas -> where they are
    Distance,       \* <<where, where>> -> metres
    RawQueries,     \* requests: [form, text, field, fields]
    Users,          \* coordinates of a user, or <<>>
    HitLists        \* hits to filter: sequences of [id, where, name]

Nowhere == "nowhere"
NoField == "no field"

ASSUME MarksAssumption ==
    /\ {Quote, Star, Question, Comma, Minus} \subseteq Marks /\ Marks \subseteq STRING
    /\ Blank \notin Marks
ASSUME TablesAssumption ==
    /\ BusinessTypes \in Seq(Seq(STRING) \X Seq(Seq(STRING)))
    /\ \A term \in DOMAIN Synonyms : Synonyms[term] \in Seq(Seq(STRING))
ASSUME RawAssumption ==
    \A q \in RawQueries :
        /\ q.text \in Seq(STRING)
        /\ q.fields \in Seq(STRING) /\ q.fields # <<>>

VARIABLES
    at,         \* "idle", "working" or "done"
    kind,       \* the endpoint, "search" or "parse"
    raw,        \* the request
    user,       \* the coordinates that came with it
    found       \* what is known of it: a record that grows field by field
queryVars == <<at, kind, raw, user, found>>

Has(field) == field \in DOMAIN found
Learn(field, value) ==
    /\ found' = [f \in DOMAIN found \cup {field} |->
                    IF f = field THEN value ELSE found[f]]
    /\ UNCHANGED <<at, kind, raw, user>>
-----------------------------------------------------------------------------
\* Structured queries.

\* normalizeQuery: in lower case, with one blank for each run of them.
Normalize(text) == JoinTokens(Tokens(InLower(text)))

\* extractQueryText; terms of another query are not looked at.
QueryText(q) == IF q.form \in {"string", "match", "term"} THEN q.text ELSE <<>>

\* SearchService.getQueryText.
SearchText(q) ==
    IF q.form \in {"string", "match", "wildcard"} THEN q.text ELSE <<>>

Strip(field) == IF field \in DOMAIN Plain THEN Plain[field] ELSE field
StripAll(fields) == [i \in DOMAIN fields |-> Strip(fields[i])]

\* extractQueryTextAndFields, the fields of a match or a term query.
FieldsOf(q) == IF q.field # NoField THEN <<Strip(q.field)>> ELSE StripAll(q.fields)

\* extractPhrases: what stands between a quote and the next one.
ExtractPhrases(text) ==
    LET quotes == Chosen([i \in DOMAIN text |-> i], {i \in DOMAIN text : text[i] = Quote})
        inner == [k \in 1 .. Len(quotes) \div 2 |->
                     Trim(SubSeq(text, quotes[2 * k - 1] + 1, quotes[2 * k] - 1))]
    IN  Chosen(inner, {k \in DOMAIN inner : inner[k] # <<>>})

\* part begins at place i of the text.
Stands(text, i, part) ==
    i + Len(part) - 1 <= Len(text) /\ SubSeq(text, i, i + Len(part) - 1) = part

\* The first place i of the text where In(i), 0 if there is none.
FirstWhere(text, In(_)) ==
    LET S == {i \in DOMAIN text : In(i)} IN IF S = {} THEN 0 ELSE Min(S)

\* A phrase is taken out as it was written: one with capitals stays in a text
\* in lower case.
TakeOut(text, phrase) ==
    LET quoted == <<Quote>> \o phrase \o <<Quote>>
        i == FirstWhere(text, LAMBDA k : Stands(text, k, quoted))
    IN  IF i = 0 THEN text
        ELSE SubSeq(text, 1, i - 1) \o SubSeq(text, i + Len(quoted), Len(text))
Remaining(text, phrases) ==
    LET left[n \in 0 .. Len(phrases)] ==
            IF n = 0 THEN text ELSE TakeOut(left[n - 1], phrases[n])
    IN  left[Len(phrases)]

\* createTermQuery: the first term of the value, or the value.
TermQuery(field, value) ==
    LET terms == StandardAnalyzer(value)
    IN  [type |-> "term", field |-> field,
         terms |-> <<IF terms # <<>> THEN terms[1] ELSE InLower(value)>>]

\* Mutant: a phrase is one term.
WholePhrase(field, phrase) ==
    [type |-> "phrase", field |-> field, terms |-> <<InLower(phrase)>>]

PhraseQuery(field, phrase) ==
    LET terms == StandardAnalyzer(phrase)
    IN  [type |-> "phrase", field |-> field,
         terms |-> IF terms # <<>> THEN terms ELSE <<phrase>>]

\* The clauses of a query are a set: their order does not matter to it.
MatchAll == [type |-> "match_all", clauses |-> {}]
Single(clause) == [type |-> "single", clauses |-> {clause}]
Or(clauses) == [type |-> "or", clauses |-> clauses]
WildcardQuery(field, value) ==
    Single([type |-> "wildcard", field |-> field, terms |-> <<value>>])

\* parseRegularStringQuery.
ParseRegular(text, fields) ==
    LET phrases == ExtractPhrases(text)
        terms == Tokens(Remaining(Normalize(text), phrases))
    IN  IF Len(terms) > 1 \/ phrases # <<>> \/ Len(fields) > 1
        THEN Or({TermQuery(f, t) : f \in ToSet(fields), t \in ToSet(terms)}
                \cup {PhraseQuery(f, p) : f \in ToSet(fields), p \in ToSet(phrases)})
        ELSE IF terms # <<>> THEN Single(TermQuery(fields[1], terms[1]))
        ELSE Or({})

IsWildcard(text) == {Star, Question} \cap ToSet(text) # {}
AsksForAll(text) == Trim(text) \in {<<>>, <<Star>>}

\* parseStringQuery: * alone is no wildcard; fields keep their boosts.
ParseString(q) ==
    IF AsksForAll(q.text) THEN MatchAll
    ELSE IF IsWildcard(q.text) THEN WildcardQuery(q.fields[1], q.text)
    ELSE ParseRegular(q.text, q.fields)

\* parseMatchQuery: * alone is a wildcard; only the first field is searched.
ParseMatch(q) ==
    LET field == FieldsOf(q)[1]
        terms == StandardAnalyzer(q.text)
    IN  IF IsWildcard(q.text)
        THEN WildcardQuery(IF q.field # NoField THEN q.field
                           ELSE IF field # "content" THEN field ELSE AllFields, q.text)
        ELSE IF AsksForAll(q.text) THEN MatchAll
        ELSE IF Len(terms) > 1
        THEN [type |-> "and",
              clauses |-> {[type |-> "term", field |-> field, terms |-> <<t>>] : t \in ToSet(terms)}]
        ELSE Single(TermQuery(field, IF terms # <<>> THEN terms[1] ELSE q.text))

\* parseQuery, for the forms a query has: a string; match with or without a
\* field; term; wildcard as a string, as {field, value} or as {field: {value}};
\* match_all, and what is none of them.
Parse(q) ==
    CASE q.form = "string" -> ParseString(q)
      [] q.form = "match" -> ParseMatch(q)
      [] q.form = "term" -> ParseRegular(q.text, FieldsOf(q))
      [] q.form = "wildcard text" -> WildcardQuery(AllFields, q.text)
      [] q.form = "wildcard" ->
            WildcardQuery(IF q.field # NoField THEN q.field ELSE q.fields[1], q.text)
      [] q.form = "field wildcard" -> WildcardQuery(q.field, q.text)
      [] OTHER -> MatchAll
-----------------------------------------------------------------------------
\* Entities, places and intent, all of the normalized text.

\* text.includes(part); a part of one word may be within a word.
Occurs(part, text) ==
    \/ \E i \in DOMAIN text : Stands(text, i, part)
    \/ Len(part) = 1 /\ \E i \in DOMAIN text : <<part[1], text[i]>> \in Inside

\* matchesWord: a word of the query is the target, its plural or its singular.
MatchesWord(text, target) ==
    \E t \in ToSet(Tokens(text)) :
        t = target \/ (target \in DOMAIN Inflections /\ t \in Inflections[target])

ExtractBusinessTypes(text) ==
    LET Named(entry) == \/ MatchesWord(text, entry[1])
                        \/ \E s \in ToSet(entry[2]) : MatchesWord(text, s)
        types == [k \in DOMAIN BusinessTypes |-> BusinessTypes[k][1]]
    IN  Chosen(types, {k \in DOMAIN BusinessTypes : Named(BusinessTypes[k])})

LocationKeywords ==
    << <<"near">>, <<"close", Blank, "to">>, <<"around">>, <<"in">>, <<"at">>, <<"within">>,
       <<"nearby">>, <<"me">>, <<"here">>, <<"this", Blank, "area">>, <<"local">>,
       <<"downtown">>, <<"uptown">> >>
ServiceKeywords ==
    << <<"delivery">>, <<"takeout">>, <<"pickup">>, <<"24", "/", "7">>, <<"emergency">>,
       <<"urgent">>, <<"online">>, <<"appointment">>, <<"booking">>, <<"reservation">>,
       <<"walk", "-", "in">>, <<"drive", "-", "thru">>, <<"curbside">>,
       <<"home", Blank, "service">>, <<"mobile">> >>
Modifiers ==
    << "best", "cheap", "expensive", "popular", "new", "old", "famous", "top", "rated",
       "recommended", "affordable", "luxury", "budget", "quick", "fast", "slow", "quiet",
       "busy", "crowded" >>

Near == {<<"near">>, <<"close", Blank, "to">>, <<"around">>}

\* /\b(near|close to|around)\s+me\b/: where it stands, and the words.
OfUser(text) ==
    FirstWhere(text, LAMBDA i : \E n \in Near : Stands(text, i, n \o <<Blank, "me">>))
NearMe(text) ==
    LET i == OfUser(text)
    IN  (CHOOSE n \in Near : Stands(text, i, n \o <<Blank, "me">>)) \o <<Blank, "me">>

\* /\b(in|at|...)\s+([a-zA-Z\s]+)\b/: where it stands, and the words after the
\* preposition, up to a number, a mark or the end.
Letters(a) == a = Blank \/ (IsWord(a) /\ a \notin DOMAIN Amount \cup DOMAIN Measured)
OfPlace(text, Prepositions) ==
    FirstWhere(text, LAMBDA i : /\ text[i] \in Prepositions
                                /\ i + 2 <= Len(text) /\ text[i + 1] = Blank
                                /\ IsWord(text[i + 2]) /\ Letters(text[i + 2]))
Named(text, Prepositions) ==
    LET i == OfPlace(text, Prepositions)
        ends == {j \in i + 2 .. Len(text) : ~Letters(text[j])}
        end == IF ends = {} THEN Len(text) ELSE Min(ends) - 1
    IN  IF i = 0 THEN <<>> ELSE Trim(SubSeq(text, i + 2, end))

\* extractLocationReferences: keywords anywhere, and a match of each pattern.
ExtractLocationReferences(text) ==
    LET place == OfPlace(text, {"in", "at"})
        town == FirstWhere(text, LAMBDA i : text[i] \in {"downtown", "uptown", "midtown"})
        keywords == {k \in DOMAIN LocationKeywords : Occurs(LocationKeywords[k], text)}
    IN  Chosen(LocationKeywords, keywords)
        \o (IF OfUser(text) = 0 THEN <<>> ELSE <<NearMe(text)>>)
        \o (IF place = 0 THEN <<>>
            ELSE << <<text[place], Blank>> \o Named(text, {"in", "at"}) >>)
        \o (IF town = 0 THEN <<>> ELSE << <<text[town]>> >>)

ExtractEntities(query) ==
    LET text == Normalize(query) IN
    [businessTypes |-> ExtractBusinessTypes(text),
     locations |-> ExtractLocationReferences(text),
     services |-> Chosen(ServiceKeywords,
                         {k \in DOMAIN ServiceKeywords : Occurs(ServiceKeywords[k], text)}),
     modifiers |-> Chosen(Modifiers,
                          {k \in DOMAIN Modifiers : <<Modifiers[k]>> \in ToSet(Tokens(text))})]

DefaultRadius == 5000
Metres(unit, n) ==
    CASE unit = "km" -> 1000 * n
      [] unit \in {"mile", "miles"} -> (160934 * n) \div 100
      [] unit \in {"meter", "meters"} -> n

\* A number and what follows it, after a blank or in one word.
Measure(text, i) ==
    IF text[i] \in DOMAIN Measured THEN Measured[text[i]]
    ELSE <<text[i], IF i + 2 <= Len(text) /\ text[i + 1] = Blank THEN text[i + 2] ELSE Blank>>

\* extractRadius: "within <number> <unit>".
ExtractRadius(text) ==
    LET In(i) == /\ text[i] = "within" /\ i + 2 <= Len(text) /\ text[i + 1] = Blank
                 /\ Measure(text, i + 2)[1] \in DOMAIN Amount
                 /\ Measure(text, i + 2)[2] \in {"km", "mile", "miles", "meter", "meters"}
        i == FirstWhere(text, In)
        within == Measure(text, i + 2)
    IN  IF i = 0 THEN DefaultRadius ELSE Metres(within[2], Amount[within[1]])

\* Where the text goes on: without a blank at i, after the comma that follows
\* the number at i, and without a minus sign at i.
PastBlank(text, i) == IF i <= Len(text) /\ text[i] = Blank THEN i + 1 ELSE i
PastComma(text, i) == PastBlank(text, PastBlank(text, i + 1) + 1)
PastMinus(text, i) == IF i < Len(text) /\ text[i] = Minus THEN i + 1 ELSE i

\* A number, a comma and a number.
IsPair(text, i) ==
    /\ text[i] \in DOMAIN Amount
    /\ PastBlank(text, i + 1) < Len(text)
    /\ text[PastBlank(text, i + 1)] = Comma
    /\ PastMinus(text, PastComma(text, i)) <= Len(text)
    /\ text[PastMinus(text, PastComma(text, i))] \in DOMAIN Amount

\* extractCoordinates, of whole numbers: a minus sign before the first one is
\* lost, unless a word stands right before it.
ExtractCoordinates(text) ==
    LET i == FirstWhere(text, LAMBDA p : IsPair(text, p))
        lat == IF i > 2 /\ text[i - 1] = Minus /\ IsWord(text[i - 2])
               THEN -Amount[text[i]] ELSE Amount[text[i]]
        j == PastComma(text, i)
        lng == IF text[j] = Minus THEN -Amount[text[j + 1]] ELSE Amount[text[j]]
    IN  IF i # 0 /\ lat \in -90 .. 90 /\ lng \in -180 .. 180 THEN <<lat, lng>> ELSE <<>>

NoLocation == [type |-> "none", name |-> <<>>, coordinates |-> <<>>, radius |-> 0]

\* Mutant: a place with a name goes before the user's.
NamedFirst(query, from) ==
    LET text == Normalize(query)
        located == [NoLocation EXCEPT !.radius = ExtractRadius(text)]
        name == Named(text, {"in", "at", "within"})
        coordinates == ExtractCoordinates(text)
    IN  CASE name # <<>> -> [located EXCEPT !.type = "named_location", !.name = name]
          [] name = <<>> /\ OfUser(text) # 0 ->
                [located EXCEPT !.type = "user_location", !.coordinates = from]
          [] name = <<>> /\ OfUser(text) = 0 /\ coordinates # <<>> ->
                [located EXCEPT !.type = "coordinates", !.coordinates = coordinates]
          [] OTHER -> NoLocation

\* processLocationQuery: the user's place, with the coordinates from the
\* request if there are any, a place with a name, or coordinates.
ProcessLocationQuery(query, from) ==
    LET text == Normalize(query)
        located == [NoLocation EXCEPT !.radius = ExtractRadius(text)]
        name == Named(text, {"in", "at", "within"})
        coordinates == ExtractCoordinates(text)
    IN  CASE OfUser(text) # 0 ->
                [located EXCEPT !.type = "user_location", !.coordinates = from]
          [] OfUser(text) = 0 /\ name # <<>> ->
                [located EXCEPT !.type = "named_location", !.name = name]
          [] OfUser(text) = 0 /\ name = <<>> /\ coordinates # <<>> ->
                [located EXCEPT !.type = "coordinates", !.coordinates = coordinates]
          [] OTHER -> NoLocation

Transactional ==
    {<<"order">>, <<"buy">>, <<"book">>, <<"reserve">>, <<"appointment">>, <<"delivery">>}
Navigational ==
    {<<"where">>, <<"location">>, <<"address">>, <<"directions">>, <<"near">>,
     <<"close", Blank, "to">>}
ClassifyIntent(query) ==
    LET text == InLower(query) IN
    CASE \E k \in Transactional : Occurs(k, text) -> "transactional"
      [] ~(\E k \in Transactional : Occurs(k, text))
         /\ (\E k \in Navigational : Occurs(k, text)) -> "navigational"
      [] OTHER -> "informational"
-----------------------------------------------------------------------------
\* Expansion.

Distinct(tokens) ==
    LET new[n \in 0 .. Len(tokens)] ==
            IF n = 0 THEN <<>>
            ELSE IF tokens[n] \in ToSet(new[n - 1]) THEN new[n - 1]
            ELSE Append(new[n - 1], tokens[n])
    IN  new[Len(tokens)]

SynonymsOf(term) == IF term \in DOMAIN Synonyms THEN Synonyms[term] ELSE <<>>
FirstOf(seq, n) == SubSeq(seq, 1, IF n < Len(seq) THEN n ELSE Len(seq))

\* Mutant: the synonyms stand first.
ExpandBefore(query, types, services) ==
    LET ofType == IF types = <<>> THEN <<>> ELSE FirstOf(SynonymsOf(types[1]), 2)
        ofService == IF services = <<>> \/ services[1] \in ToSet(types) THEN <<>>
                     ELSE FirstOf(SynonymsOf(services[1]), 1)
    IN  JoinTokens(Distinct(Tokens(JoinTokens(ofType \o ofService \o <<query>>))))

\* expandQuery: two synonyms of the first type, one of the first service.
ExpandQuery(query, types, services) ==
    LET ofType == IF types = <<>> THEN <<>> ELSE FirstOf(SynonymsOf(types[1]), 2)
        ofService == IF services = <<>> \/ services[1] \in ToSet(types) THEN <<>>
                     ELSE FirstOf(SynonymsOf(services[1]), 1)
    IN  JoinTokens(Distinct(Tokens(JoinTokens(<<query>> \o ofType \o ofService))))
-----------------------------------------------------------------------------
\* What SearchService makes of it.

\* buildSimplifiedQuery: the first type.  (It looks for the place in a field
\* the location has not.)
SimplifiedQuery(query, types) == IF types = <<>> THEN query ELSE Trim(types[1])

\* getLocationCoordinates.
WhereIs(name) == IF name \in DOMAIN Places THEN Places[name] ELSE Nowhere

\* filterByLocation, for a hit and a filter: how well it fits, in thousandths,
\* and whether it is in the radius.  A filter without one of the types, and
\* what has no coordinates, fits with 0.
Judged(hit, filter) ==
    LET centre == IF filter.type = "coordinates" THEN filter.where ELSE WhereIs(filter.name)
        far == Distance[<<centre, hit.where>>]
        radius == IF filter.radius # 0 THEN filter.radius ELSE DefaultRadius
        score == IF far >= radius THEN 0 ELSE 1000 - (1000 * far) \div radius
    IN  CASE filter.type \in {"coordinates", "city", "area"}
             /\ centre # Nowhere /\ hit.where # Nowhere ->
                [score |-> score, inRadius |-> far <= radius]
          [] filter.type \in {"city", "area"}
             /\ centre = Nowhere /\ hit.where # Nowhere /\ hit.name = filter.name ->
                [score |-> 1000, inRadius |-> TRUE]
          [] filter.type = "none" -> [score |-> 500, inRadius |-> TRUE]
          [] OTHER -> [score |-> 0, inRadius |-> TRUE]

\* sortByLocationRelevance: a stable sort, so that equal ones keep their order.
FilterByLocation(hits, filter) ==
    LET judged == [i \in DOMAIN hits |-> Judged(hits[i], filter)]
        within == SelectSeq([i \in DOMAIN hits |-> i], LAMBDA i : judged[i].inRadius)
        sorted == SortSeq(within, LAMBDA i, j : \/ judged[i].score > judged[j].score
                                                \/ /\ judged[i].score = judged[j].score
                                                   /\ i < j)
    IN  [k \in DOMAIN sorted |-> hits[sorted[k]]]

\* The filter that search passes is the location itself: it has a radius, but
\* no locationType and no city.
FilterOf(location) ==
    [type |-> "undefined", where |-> Nowhere, name |-> <<>>, radius |-> location.radius]
-----------------------------------------------------------------------------
QueryInit ==
    /\ at = "idle"
    /\ kind = "parse"
    /\ raw \in RawQueries
    /\ user = <<>>
    /\ found = <<>>

\* IntelligentSearchController's requests have a text and perhaps a user's
\* coordinates; SearchService's and the parser's have any form.
Kinds == {"parse", "process", "entities", "location", "expand", "search"}
Ask(k, q, from) ==
    /\ at = "idle"
    /\ k \in {"process", "entities", "location", "expand"} => q.form = "string"
    /\ from # <<>> => k \in {"process", "location"}
    /\ at' = "working"
    /\ kind' = k
    /\ raw' = q
    /\ user' = from
    /\ found' = <<>>

Query == IF kind = "search" THEN SearchText(raw) ELSE QueryText(raw)
Working(kinds) == at = "working" /\ kind \in kinds

\* processQuery.
ProcessQuery ==
    /\ Working({"parse"})
    /\ ~Has("parsed")
    /\ Learn("parsed", Parse(raw))

\* The three services of processIntelligentQuery run as they are scheduled; in
\* SearchService one after the other.
Entities ==
    /\ Working({"process", "entities", "expand", "search"})
    /\ ~Has("entities")
    /\ Learn("entities", ExtractEntities(Query))

Location ==
    /\ Working({"process", "location", "search"})
    /\ ~Has("location")
    /\ kind = "search" => Has("entities")
    /\ Learn("location", ProcessLocationQuery(Query, user))

Intent ==
    /\ Working({"process"})
    /\ ~Has("intent")
    /\ Learn("intent", ClassifyIntent(Query))

\* SearchService asks for no synonyms.
Expand ==
    /\ Working({"process", "expand", "search"})
    /\ ~Has("expanded")
    /\ Has("entities")
    /\ kind = "process" => Has("location") /\ Has("intent")
    /\ kind = "search" => Has("location")
    /\ Learn("expanded",
             IF kind = "search" THEN ExpandQuery(Query, <<>>, <<>>)
             ELSE ExpandQuery(Query, found.entities.businessTypes, found.entities.services))

\* The fallback's query, when a search has found nothing.
SimplifyQuery ==
    /\ Working({"search"})
    /\ Has("expanded") /\ ~Has("simplified") /\ ~Has("hits")
    /\ Learn("simplified", SimplifiedQuery(Query, found.entities.businessTypes))

\* The ranked hits of a query with a place are filtered.
Filter(hits) ==
    /\ Working({"search"})
    /\ Has("expanded") /\ ~Has("hits")
    /\ Learn("hits", [of |-> hits,
                      kept |-> IF found.location.type = "none" THEN hits
                               ELSE FilterByLocation(hits, FilterOf(found.location))])

Complete ==
    CASE kind = "parse" -> Has("parsed")
      [] kind = "entities" -> Has("entities")
      [] kind = "location" -> Has("location")
      [] kind \in {"process", "expand"} -> Has("expanded")
      [] kind = "search" -> Has("hits")

Respond ==
    /\ at = "working"
    /\ Complete
    /\ at' = "done"
    /\ UNCHANGED <<kind, raw, user, found>>

Leave ==
    /\ at = "done"
    /\ at' = "idle"
    /\ UNCHANGED <<kind, raw, user, found>>

QueryNext ==
    \/ \E k \in Kinds, q \in RawQueries, from \in Users : Ask(k, q, from)
    \/ ProcessQuery \/ Entities \/ Location \/ Intent \/ Expand \/ SimplifyQuery
    \/ \E hits \in HitLists : Filter(hits)
    \/ Respond \/ Leave

QuerySpec == QueryInit /\ [][QueryNext]_queryVars
-----------------------------------------------------------------------------
\* A word of the query that stands by itself and is no stop word is asked for
\* in every field, as a term or in a phrase, whatever is quoted or
\* capitalised around it; and whatever a clause asks for is in the query, if a
\* blank stands beside each quote within it.  (Without one, what stands around
\* a phrase that is taken out becomes one word.)
Alone(text) ==
    {i \in DOMAIN text : /\ IsWord(text[i])
                         /\ i = 1 \/ text[i - 1] = Blank
                         /\ i = Len(text) \/ text[i + 1] = Blank}
QuotesApart(text) ==
    \A i \in 2 .. Len(text) - 1 : text[i] = Quote => Blank \in {text[i - 1], text[i + 1]}
AskedEverywhere ==
    Has("parsed") /\ raw.form \in {"string", "term"}
    /\ found.parsed.type # "match_all" /\ ~(raw.form = "string" /\ IsWildcard(raw.text)) =>
        LET text == InLower(raw.text)
            clauses == found.parsed.clauses
            fields == ToSet(IF raw.form = "string" THEN raw.fields ELSE FieldsOf(raw))
        IN  /\ \A f \in fields, i \in Alone(text) :
                text[i] \notin Stopwords =>
                    \E c \in clauses : c.field = f /\ <<text[i]>> \in ToSet(c.terms)
            /\ \A c \in clauses :
                /\ c.field \in fields
                /\ QuotesApart(raw.text) =>
                    \A t \in ToSet(c.terms) : Occurs(Normalize(t), Normalize(text))

\* The expanded query begins with the words of the query, each once, and goes
\* on with synonyms of one type and one service that were found in it: no word
\* of the query is lost or moved by what is added.
ExpansionKeepsQuery ==
    Has("expanded") =>
        LET own == Distinct(Tokens(Query))
            all == Tokens(found.expanded)
            added == ToSet(SubSeq(all, Len(own) + 1, Len(all)))
            causes == ToSet(found.entities.businessTypes) \cup ToSet(found.entities.services)
        IN  /\ FirstOf(all, Len(own)) = own
            /\ added \cap ToSet(own) = {}
            /\ kind = "search" => added = {}
            /\ \E type \in causes \cup {<<>>}, service \in causes \cup {<<>>} :
                added \subseteq UNION {ToSet(Tokens(s)) :
                                        s \in ToSet(SynonymsOf(type) \o SynonymsOf(service))}

\* Two services look for places on their own.  What one takes for the user's
\* place or a place with a name the other one notices: a query about the
\* user's place is never taken for one about another place.
LocationsAgree ==
    Has("entities") /\ Has("location") =>
        LET places == ToSet(found.entities.locations)
            mine == \E n \in Near : n \o <<Blank, "me">> \in places
        IN  /\ mine <=> found.location.type = "user_location"
            /\ found.location.type = "named_location" =>
                places \cap {<<"in">>, <<"at">>, <<"within">>} # {}
            /\ found.location.type \in {"none", "coordinates"} =>
                Named(Normalize(Query), {"in", "at"}) = <<>>
===============================================================================
