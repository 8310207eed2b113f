----------------------------- MODULE SearchEngine -----------------------------
(***************************************************************************)
(* PostgreSQLSearchEngine.search as a client sees it that walks the pages  *)
(* of a result: what the engine remembers of the columns, the SQL of the   *)
(* rows and of their count, which it runs side by side, and the pages.     *)
(* The table changes under it: documents are written, and the optimization *)
(* scripts change the columns.                                             *)
(***************************************************************************)
EXTENDS DatabaseOptimization, SequencesExt

CONSTANTS
    Clients,
    Size,           \* rows of a page
    Shape           \* content -> [name, rank, word, shown, hidden, alike, part]:
                    \* the order of its name; 3 when the name is the query, 2
                    \* when it begins with it, else 1; whether the search vector
                    \* matches; is_active and is_verified and not is_blocked; one
                    \* of them says no; trigram similarity; contains the query

ASSUME EngineAssumption ==
    /\ Size \in Nat \ {0}
    /\ \A v \in Versions : Shape[v].hidden => ~Shape[v].shown

VARIABLES
    known,      \* hasNameLowerColumn, hasCategoryLowerColumn: "unknown",
                \* "yes" or "no"
    template,   \* the entry of queryTemplateCache
    req         \* client -> its walk
vars == <<optVars, known, template, req>>

Nobody == [at |-> "idle", kind |-> "all", from |-> 0, lower |-> FALSE,
           rows |-> <<>>, total |-> 0, data |-> FALSE, count |-> FALSE,
           seen |-> <<>>, quiet |-> TRUE]

Init == OptInit /\ known = "unknown" /\ template = "unknown"
     /\ req = [r \in Clients |-> Nobody]
-----------------------------------------------------------------------------
Stored == {d \in Docs : content[d] # Null}
Is(d) == Shape[content[d]]
Lower(d) == derived["lower"][d]
Vector(d) == derived["vector"][d]
Shown == {d \in Stored : Is(d).shown}
ByWord == {d \in Shown : Vector(d) # Null /\ Shape[Vector(d)].word}

\* The rows of buildOptimizedSingleQuery and buildWildcardQuery.
DataRows(kind, lower) ==
    CASE kind = "all" -> Shown
      [] kind = "text" -> ByWord \cup
            (IF lower THEN {} ELSE {d \in Shown : Is(d).rank > 1})
      [] kind = "wildcard" -> {d \in Stored : ~Is(d).hidden /\ Is(d).alike}

\* Mutant: the flags of the rows are not asked for.
CountAll(kind, lower) == IF kind = "all" THEN Stored ELSE DataRows(kind, lower)

\* The rows of buildCountQuery.
CountRows(kind, lower) ==
    CASE kind = "all" -> Shown
      [] kind = "text" -> ByWord \cup
            (IF lower THEN {d \in Shown : Lower(d) # Null /\ Shape[Lower(d)].rank > 1}
                      ELSE {d \in Shown : Is(d).rank > 1})
      [] kind = "wildcard" -> {d \in Shown :
            IF lower THEN Lower(d) # Null /\ Shape[Lower(d)].part ELSE Is(d).part}

\* ORDER BY: document_id, or the rank and the name, where equal ones come in
\* any order; the rank of a wildcard query is a similarity.
Named(d, lower) == IF lower THEN Lower(d) ELSE content[d]
RankOf(d, lower) == IF Named(d, lower) = Null THEN 1 ELSE Shape[Named(d, lower)].rank
NameOf(d, lower) == IF Named(d, lower) = Null THEN 0 ELSE Shape[Named(d, lower)].name
Before(d, e, kind, lower) ==
    CASE kind = "all" -> d < e
      [] kind = "text" ->
            \/ RankOf(d, lower) > RankOf(e, lower)
            \/ RankOf(d, lower) = RankOf(e, lower) /\ NameOf(d, lower) < NameOf(e, lower)
      [] kind = "wildcard" -> FALSE
Orders(kind, lower) ==
    {s \in SetToSeqs(DataRows(kind, lower)) :
        \A i, j \in DOMAIN s : Before(s[i], s[j], kind, lower) => i < j}

\* A statement fails when it names a missing column.
Executes(kind, lower) ==
    "vector" \in columns /\ (lower /\ kind # "all" => "lower" \in columns)
-----------------------------------------------------------------------------
\* A query is a text or an object of some form with a text in it; a form the
\* engine does not know has none, and no text asks for all documents.
Queries == [form : {"string", "match", "match_all", "wildcard", "term", "bool"},
            text : {"", "*", "word", "pattern*"}]
extractSearchTerm(q) ==
    IF q.form = "match_all" THEN "*" ELSE IF q.form = "bool" THEN "" ELSE q.text
KindOf(term) ==
    IF term \in {"", "*"} THEN "all" ELSE IF term = "word" THEN "text" ELSE "wildcard"

\* A client asks for the first page, or for the next one.
Search(r, q) ==
    /\ req[r].at = "idle"
    /\ req' = [req EXCEPT ![r] =
          [Nobody EXCEPT !.at = "build", !.kind = KindOf(extractSearchTerm(q))]]
    /\ UNCHANGED <<optVars, known, template>>

NextPage(r) ==
    /\ req[r].at = "page"
    /\ req' = [req EXCEPT ![r].at = "build", ![r].from = @ + Size,
                          ![r].data = FALSE, ![r].count = FALSE]
    /\ UNCHANGED <<optVars, known, template>>

\* The SQL is built for what is remembered of the columns: by the index, or by
\* the engine, or else the catalog is asked.
Build(r) ==
    /\ req[r].at = "build"
    /\ IF template # "unknown" \/ known # "unknown"
       THEN LET k == IF template # "unknown" THEN template ELSE known IN
            /\ template' = k
            /\ req' = [req EXCEPT ![r].at = "run", ![r].lower = k = "yes"]
       ELSE /\ req' = [req EXCEPT ![r].at = "columns"]
            /\ UNCHANGED template
    /\ UNCHANGED <<optVars, known>>

\* A walk goes on with what is remembered by then.
Remembers(r, k) ==
    /\ known' = k /\ template' = k
    /\ req' = [c \in Clients |->
          IF c = r THEN [req[r] EXCEPT !.at = "run", !.lower = k = "yes"]
          ELSE IF template \in {"unknown", k} \/ req[c].at = "idle" THEN req[c]
          ELSE [req[c] EXCEPT !.quiet = FALSE, !.seen = <<>>]]

\* Mutant: columns that can not be asked for are taken to be there.
TrustingCheck(r) ==
    /\ req[r].at = "columns"
    /\ \E k \in {"yes", "no"} :
        /\ \/ Fine /\ k = (IF "lower" \in columns THEN "yes" ELSE "no")
           \/ Trouble /\ k = "yes"
        /\ Remembers(r, k)
    /\ UNCHANGED <<table, job, raced, wiped, writes>>

\* checkOptimizedColumnsExist: what the catalog says, and "no" when it says
\* nothing, for good: but whoever asked at the same time may be told otherwise,
\* and what the last one was told is what all go on with.
CheckColumns(r) ==
    /\ req[r].at = "columns"
    /\ \E k \in {"yes", "no"} :
        /\ \/ Fine /\ k = (IF "lower" \in columns THEN "yes" ELSE "no")
           \/ Trouble /\ k = "no"
        /\ Remembers(r, k)
    /\ UNCHANGED <<table, job, raced, wiped, writes>>

Fail(r) == req' = [req EXCEPT ![r] = [Nobody EXCEPT !.at = "failed"]]

\* The two statements of search run side by side; one that fails fails the
\* search.
QueryData(r) ==
    /\ req[r].at = "run" /\ ~req[r].data
    /\ LET kind == req[r].kind  lower == req[r].lower /\ kind # "wildcard" IN
        \/ /\ Executes(kind, lower) /\ Fine
           /\ \E s \in Orders(kind, lower) :
                req' = [req EXCEPT ![r].data = TRUE,
                          ![r].rows = SubSeq(s, req[r].from + 1,
                                             Min({req[r].from + Size, Len(s)}))]
        \/ ~Executes(kind, lower) /\ Fail(r) /\ Fine
        \/ Fail(r) /\ Trouble
    /\ UNCHANGED <<table, job, raced, wiped, writes, known, template>>

QueryCount(r) ==
    /\ req[r].at = "run" /\ ~req[r].count
    /\ LET kind == req[r].kind  lower == req[r].lower IN
        \/ /\ Executes(kind, lower) /\ Fine
           /\ req' = [req EXCEPT ![r].count = TRUE,
                        ![r].total = Cardinality(CountRows(kind, lower))]
        \/ ~Executes(kind, lower) /\ Fail(r) /\ Fine
        \/ Fail(r) /\ Trouble
    /\ UNCHANGED <<table, job, raced, wiped, writes, known, template>>

\* The page: hasNext is from + size < total.
Answer(r) ==
    /\ req[r].at = "run" /\ req[r].data /\ req[r].count
    /\ req' = [req EXCEPT
                 ![r].seen = IF req[r].quiet THEN @ \o req[r].rows ELSE <<>>,
                 ![r].at = IF req[r].from + Size < req[r].total THEN "page" ELSE "end"]
    /\ UNCHANGED <<optVars, known, template>>

Leave(r) ==
    /\ req[r].at \in {"page", "end", "failed"}
    /\ req' = [req EXCEPT ![r] = Nobody]
    /\ UNCHANGED <<optVars, known, template>>

\* Whatever changes the table ends the quiet of the walks.
Disturbed ==
    IF table' = table THEN UNCHANGED req
    ELSE req' = [r \in Clients |-> IF req[r].at = "idle" THEN req[r]
                                   ELSE [req[r] EXCEPT !.quiet = FALSE, !.seen = <<>>]]

Table == OptNext /\ Disturbed /\ UNCHANGED <<known, template>>

Crash ==
    /\ Trouble
    /\ JobsCrash
    /\ known' = "unknown" /\ template' = "unknown"
    /\ req' = [r \in Clients |-> Nobody]
    /\ UNCHANGED <<table, raced, wiped, writes>>

Client(r) ==
    \/ \E q \in Queries : Search(r, q)
    \/ NextPage(r) \/ Build(r) \/ CheckColumns(r) \/ QueryData(r) \/ QueryCount(r)
    \/ Answer(r) \/ Leave(r)

Next == Table \/ Crash \/ \E r \in Clients : Client(r)

Spec == Init /\ [][Next]_vars

Runner(j) == Process(j) /\ Disturbed /\ UNCHANGED <<known, template>>

\* Bull gives a waiting job to a processor, which goes on when the database
\* answers or fails.
FairSpec == Spec /\ \A j \in Jobs : WF_vars(Runner(j))
-----------------------------------------------------------------------------
\* A client that walks the pages of all documents, or of a text whose hits
\* have different names, while neither the table nor what is remembered of its
\* columns changes, gets every row once, and for all documents as many as the
\* total says (LIMIT and OFFSET of the statement against the pagination of the
\* other one, postgresql-search-engine.ts:138, :174).
WalkIsComplete ==
    \A r \in Clients :
        LET rows == DataRows(req[r].kind, req[r].lower)
            untied == \A d, e \in rows : d # e => Before(d, e, "text", req[r].lower)
                                            \/ Before(e, d, "text", req[r].lower)
        IN  /\ req[r].at = "end" /\ req[r].quiet
            /\ req[r].kind = "all" \/ (req[r].kind = "text" /\ untied)
            => /\ ToSet(req[r].seen) = rows
               /\ Cardinality(rows) = Len(req[r].seen)
               /\ req[r].kind = "all" => req[r].total = Cardinality(rows)

\* Without a failing round trip, a search fails only on a database that has not
\* had the first script, or for lower-case columns that the engine saw before
\* the schema was made anew: the engine never takes columns for granted
\* (checkOptimizedColumnsExist, postgresql-search-engine.ts:1000).
FailsForMissingTable ==
    [][\A r \in Clients :
        req[r].at = "run" /\ req'[r].at = "failed" /\ troubles' = troubles
            => "vector" \notin columns \/ wiped]_vars
===============================================================================
