-------------------------------- MODULE Search --------------------------------
(***************************************************************************)
(* SearchService.search: the stages a request goes through, the searches   *)
(* it runs in PostgreSQL, and the results it shares with other requests    *)
(* through Redis.                                                          *)
(*                                                                         *)
(* A text is what a request asks for; Match says which documents the       *)
(* full-text search finds for it, Loose which ones the ILIKE query of the  *)
(* fallback finds.  The order of hits is left out: a search that is cut at *)
(* n hits may keep any n.  All requests are for one index and its first    *)
(* page; hashes of different texts differ.                                 *)
(***************************************************************************)
EXTENDS Integers, FiniteSets, Sequences

CONSTANTS
    Requests,       \* clients, each with one request at a time
    Docs, Texts, Filters,
    Queries,        \* client -> the pairs <<text, filter>> it asks for
    Match,          \* documents the engine finds for a text
    Loose,          \* documents the fallback query finds for a text
    Passes,         \* documents that satisfy a filter
    Correction,     \* text -> what typo tolerance makes of it
    Simplified,     \* text -> the query of its business types, if it has any
    Size,           \* hits a client asks for
    Cap,            \* hits a search fetches at most (75 in the code)
    MaxFaults,      \* failures and timeouts in a run
    MaxWrites       \* documents stored or deleted in a run

\* A correction has the corrected query and the suggestions that score above
\* 1500, best first; a text the dictionary finds correct has none.
NoText == <<>>
NoCorrection == [to |-> NoText, high |-> <<>>]
Corrections == [to : Texts, high : Seq(Texts)]

ASSUME QueriesAssumption == Queries \in [Requests -> SUBSET (Texts \X Filters)]
ASSUME MatchAssumption ==
    /\ Match \in [Texts -> SUBSET Docs]
    /\ Loose \in [Texts -> SUBSET Docs]
    /\ Passes \in [Filters -> SUBSET Docs]
ASSUME CorrectionAssumption ==
    /\ Correction \in [Texts -> Corrections \cup {NoCorrection}]
    /\ Simplified \in [Texts -> Texts \cup {NoText}]
    /\ NoText \notin Texts
ASSUME BoundsAssumption ==
    /\ Size \in Nat \ {0} /\ Cap \in Nat \ {0}
    /\ MaxFaults \in Nat /\ MaxWrites \in Nat

VARIABLES
    table,      \* the documents of the index
    cache,      \* text -> the hits Redis keeps for it
    req,        \* the state of each client's request; its field clean says (for
                \* a property) that documents of its filter have matched its text
                \* since it began, and that it has met no failure and no entry
    faults,
    writes
vars == <<table, cache, req, faults, writes>>

NoEntry == {"none"}

Idle == [at |-> "idle", text |-> NoText, filter |-> <<>>, asked |-> NoText,
         corr |-> NoCorrection, jobs |-> <<>>, found |-> <<>>, hits |-> {},
         clean |-> FALSE]

\* The hits a search may return out of S when it is cut at n.
Cut(S, n) == {T \in SUBSET S : /\ Cardinality(T) <= n
                               /\ Cardinality(T) = n \/ T = S}

Window == IF 3 * Size < Cap THEN 3 * Size ELSE Cap

\* What the engine finds in the table now.
Finds(text, filter) == Match[text] \cap Passes[filter] \cap table

\* Mutant: the key names the index only.
KeyOfIndex(text) == CHOOSE t \in Texts : TRUE

\* RedisCacheService.generateKey: the filter is no part of the key.
Key(text) == text

TopSuggestions(corr) == {corr.high[i] : i \in DOMAIN corr.high \cap {1, 2}}

\* The results found, with S for t.
Extend(found, t, S) ==
    [u \in DOMAIN found \cup {t} |-> IF u = t THEN S ELSE found[u]]

Fault == faults < MaxFaults /\ faults' = faults + 1
NoFault == UNCHANGED faults

At(r, stage) == req[r].at = stage
Running(r) == req[r].at \notin {"idle", "answered", "failed"}

\* A request's new state, its other fields unchanged.
Step(r, new) == req' = [req EXCEPT ![r] = new]

\* The request is answered with S.
Answer(q, S) ==
    [q EXCEPT !.at = "answered", !.hits = S, !.asked = NoText,
              !.corr = NoCorrection, !.jobs = <<>>, !.found = <<>>]

\* The searches of the stage gave S, which is to be kept or ranked.
Settle(q, stage, S) ==
    [q EXCEPT !.at = stage, !.hits = S, !.jobs = <<>>, !.found = <<>>]

\* The request runs executeSearch for one text.
Execute(q, stage, text) ==
    [q EXCEPT !.at = stage, !.asked = text,
              !.jobs = [t \in {text} |-> "engine"], !.found = <<>>]
-----------------------------------------------------------------------------
Init ==
    /\ table \in SUBSET Docs
    /\ cache = [t \in Texts |-> NoEntry]
    /\ req = [r \in Requests |-> Idle]
    /\ faults = 0
    /\ writes = 0

\* A client sends a request; the dictionary is asked about its text.
Begin(r) ==
    /\ ~Running(r)
    /\ \E query \in Queries[r] :
        Step(r, [Idle EXCEPT !.at = "lookup", !.text = query[1],
                             !.filter = query[2],
                             !.clean = Finds(query[1], query[2]) # {}])
    /\ UNCHANGED <<table, cache, faults, writes>>

\* The cache has the text: its entry is the answer, as it is.
Hit(r) ==
    /\ At(r, "lookup")
    /\ cache[Key(req[r].text)] # NoEntry
    /\ Step(r, [Answer(req[r], cache[Key(req[r].text)]) EXCEPT !.clean = FALSE])
    /\ UNCHANGED <<table, cache, faults, writes>>

\* It has not, or Redis fails: the text is searched.
Miss(r) ==
    /\ At(r, "lookup")
    /\ \/ cache[Key(req[r].text)] = NoEntry /\ NoFault
       \/ Fault
    /\ Step(r, Execute(req[r], "original", req[r].text))
    /\ UNCHANGED <<table, cache, writes>>
-----------------------------------------------------------------------------
\* executeSearch: the full-text search, then the fallback, then no hits.
Searching(r, t, job) ==
    /\ t \in DOMAIN req[r].jobs
    /\ req[r].jobs[t] = job
    /\ \A u \in DOMAIN req[r].jobs : req[r].jobs[u] # "peek"

\* The state of a request whose search for t has found S.  One of several
\* suggestions that finds nothing has its result cached (Keep).
Found(q, t, S) ==
    [q EXCEPT !.jobs[t] = IF q.at = "parallel" /\ S = {} THEN "keep" ELSE "done",
              !.found = Extend(q.found, t, S)]

EngineAnswers(r, t) ==
    /\ Searching(r, t, "engine")
    /\ \E S \in Cut(Finds(t, req[r].filter), Window) : Step(r, Found(req[r], t, S))
    /\ UNCHANGED <<table, cache, faults, writes>>

EngineFails(r, t) ==
    /\ Searching(r, t, "engine")
    /\ Fault
    /\ Step(r, [req[r] EXCEPT !.jobs[t] = "fallback", !.clean = FALSE])
    /\ UNCHANGED <<table, cache, writes>>

\* ultraFastFallbackSearch: neither the filter nor the window applies.
FallbackAnswers(r, t) ==
    /\ Searching(r, t, "fallback")
    /\ \E S \in Cut(Loose[t] \cap table, Size) : Step(r, Found(req[r], t, S))
    /\ UNCHANGED <<table, cache, faults, writes>>

FallbackFails(r, t) ==
    /\ Searching(r, t, "fallback")
    /\ Fault
    /\ Step(r, Found(req[r], t, {}))
    /\ UNCHANGED <<table, cache, writes>>

\* Mutant: a suggestion without an answer is waited for.
JobsHaveResults(r) == \A t \in DOMAIN req[r].jobs : t \in DOMAIN req[r].found

\* The searches of the stage have ended.
JobsDone(r) == \A t \in DOMAIN req[r].jobs : req[r].jobs[t] = "done"
-----------------------------------------------------------------------------
\* Mutant: a correction takes over although the text has hits.
CorrectAnyway(r) ==
    /\ At(r, "original")
    /\ JobsDone(r)
    /\ LET q == req[r] IN
        \/ /\ Correction[q.text] # NoCorrection
           /\ Step(r, Execute([q EXCEPT !.corr = Correction[q.text]],
                              "corrected", Correction[q.text].to))
        \/ /\ Correction[q.text] = NoCorrection
           /\ Step(r, Settle(q, "store", q.found[q.text]))
    /\ UNCHANGED <<table, cache, faults, writes>>

\* Promise.allSettled of the text's search, typo tolerance and the extraction
\* of entities: the search has hits, or a correction takes over, or nothing
\* is found.
Original(r) ==
    /\ At(r, "original")
    /\ JobsDone(r)
    /\ LET q == req[r]
           hits == q.found[q.text]
       IN \/ /\ hits # {}
             /\ Step(r, Settle(q, "store", hits))
             /\ NoFault
          \/ /\ hits = {}
             /\ Correction[q.text] # NoCorrection
             /\ Step(r, Execute([q EXCEPT !.corr = Correction[q.text]],
                                "corrected", Correction[q.text].to))
             /\ NoFault
          \/ /\ hits = {}
             /\ Correction[q.text] = NoCorrection /\ NoFault
             /\ Step(r, Settle(q, "store", {}))
          \/ /\ hits = {}
             /\ Correction[q.text] # NoCorrection /\ Fault
             /\ Step(r, [Settle(q, "store", {}) EXCEPT !.clean = FALSE])
    /\ UNCHANGED <<table, cache, writes>>

Corrected(r) ==
    /\ At(r, "corrected")
    /\ JobsDone(r)
    /\ Step(r, Settle(req[r], "store", req[r].found[req[r].asked]))
    /\ UNCHANGED <<table, cache, faults, writes>>

\* cacheSearchResult, then the two best suggestions when there are several.
\* The result is stored under the text the client typed, whichever was
\* searched; a failure of Redis is not noticed.
Store(r) ==
    /\ At(r, "store")
    /\ LET q == req[r] IN
        /\ \/ cache' = [cache EXCEPT ![Key(q.text)] = q.hits] /\ NoFault
           \/ Fault /\ UNCHANGED cache
        /\ Step(r, IF Len(q.corr.high) > 1
                   THEN [q EXCEPT !.at = "parallel", !.hits = {}, !.corr = NoCorrection,
                             !.jobs = [t \in TopSuggestions(q.corr) |-> "peek"]]
                   ELSE [q EXCEPT !.at = "rank"])
    /\ UNCHANGED <<table, writes>>

\* getCachedSearchResult for a suggestion: the entry is its result.
Peek(r, t) ==
    /\ At(r, "parallel")
    /\ t \in DOMAIN req[r].jobs
    /\ req[r].jobs[t] = "peek"
    /\ \/ /\ cache[Key(t)] # NoEntry /\ NoFault
          /\ Step(r, [req[r] EXCEPT !.jobs[t] = "done",
                                       !.found = Extend(@, t, cache[Key(t)])])
       \/ /\ cache[Key(t)] = NoEntry /\ NoFault
          /\ Step(r, [req[r] EXCEPT !.jobs[t] = "engine"])
       \/ /\ Fault
          /\ Step(r, [req[r] EXCEPT !.jobs[t] = "engine"])
    /\ UNCHANGED <<table, cache, writes>>

\* A suggestion's search has no answer within 500 ms: it counts for nothing.
Overdue(r, t) ==
    /\ At(r, "parallel")
    /\ Searching(r, t, "engine") \/ Searching(r, t, "fallback")
    /\ Fault
    /\ Step(r, [req[r] EXCEPT !.jobs[t] = "done", !.clean = FALSE])
    /\ UNCHANGED <<table, cache, writes>>

Keep(r, t) ==
    /\ Searching(r, t, "keep")
    /\ \/ cache' = [cache EXCEPT ![Key(t)] = {}] /\ NoFault
       \/ Fault /\ UNCHANGED cache
    /\ Step(r, [req[r] EXCEPT !.jobs[t] = "done"])
    /\ UNCHANGED <<table, writes>>

\* Mutant: the merged hits are cached as the text's.
MergeAndStore(r) ==
    /\ At(r, "parallel")
    /\ JobsDone(r)
    /\ \E S \in Cut(UNION {req[r].found[t] : t \in DOMAIN req[r].found}, Size) :
        /\ Step(r, Settle(req[r], "rank", S))
        /\ cache' = [cache EXCEPT ![Key(req[r].text)] = S]
    /\ UNCHANGED <<table, faults, writes>>

\* The suggestions' hits, without duplicates, replace what was found.
Merge(r) ==
    /\ At(r, "parallel")
    /\ JobsDone(r)
    /\ \E S \in Cut(UNION {req[r].found[t] : t \in DOMAIN req[r].found}, Size) :
        Step(r, Settle(req[r], "rank", S))
    /\ UNCHANGED <<table, cache, faults, writes>>
-----------------------------------------------------------------------------
\* Without hits the query of the text's business types is tried, when there
\* is another one.
Simpler(q) == Simplified[q.text] \notin {NoText, q.asked}

\* Ranking keeps the hits; the best Size of them are the answer.
Rank(r) ==
    /\ At(r, "rank")
    /\ LET q == req[r] IN
        \/ /\ q.hits = {} /\ Simpler(q) /\ NoFault
           /\ Step(r, [q EXCEPT !.at = "simplify"])
        \/ /\ q.hits = {} /\ Simpler(q) /\ Fault  \* no entities extracted
           /\ Step(r, Answer(q, {}))
        \/ /\ q.hits = {} => ~Simpler(q)
           /\ \E S \in Cut(q.hits, Size) : Step(r, Answer(q, S))
           /\ NoFault
    /\ UNCHANGED <<table, cache, writes>>

\* The engine is asked without executeSearch: its failure is the request's.
Simplify(r) ==
    /\ At(r, "simplify")
    /\ \/ /\ \E S \in Cut(Finds(Simplified[req[r].text], req[r].filter), Size) :
                Step(r, Answer(req[r], S))
          /\ NoFault
       \/ /\ Step(r, [Answer(req[r], {}) EXCEPT !.at = "failed"])
          /\ Fault
    /\ UNCHANGED <<table, cache, writes>>
-----------------------------------------------------------------------------
\* A document is stored or deleted: no code tells the cache.
Write(d) ==
    /\ writes < MaxWrites
    /\ writes' = writes + 1
    /\ table' = (table \ {d}) \cup ({d} \ table)
    /\ req' = [r \in Requests |-> [req[r] EXCEPT !.clean =
                  /\ @
                  /\ Match[req[r].text] \cap Passes[req[r].filter] \cap table' # {}]]
    /\ UNCHANGED <<cache, faults>>

\* Mutant: empty results are stored without a time-to-live.
ExpireHits(t) ==
    /\ cache[t] \notin {NoEntry, {}}
    /\ cache' = [cache EXCEPT ![t] = NoEntry]
    /\ UNCHANGED <<table, req, faults, writes>>

\* Redis drops an entry 300 s after it was set.
Expire(t) ==
    /\ cache[t] # NoEntry
    /\ cache' = [cache EXCEPT ![t] = NoEntry]
    /\ UNCHANGED <<table, req, faults, writes>>

Handle(r) ==
    \/ Hit(r) \/ Miss(r) \/ Original(r) \/ Corrected(r) \/ Store(r)
    \/ Merge(r) \/ Rank(r) \/ Simplify(r)
    \/ \E t \in Texts :
        \/ EngineAnswers(r, t) \/ EngineFails(r, t)
        \/ FallbackAnswers(r, t) \/ FallbackFails(r, t)
        \/ Peek(r, t) \/ Overdue(r, t) \/ Keep(r, t)

Next ==
    \/ \E r \in Requests : Begin(r) \/ Handle(r)
    \/ \E d \in Docs : Write(d)
    \/ \E t \in Texts : Expire(t)

Spec == Init /\ [][Next]_vars

\* Node runs every promise that is settled and every timer that is due;
\* Redis expires every key.
FairSpec ==
    /\ Spec
    /\ \A r \in Requests : WF_vars(Handle(r))
    /\ \A t \in Texts : WF_vars(Expire(t))
-----------------------------------------------------------------------------
Stages == {"idle", "lookup", "original", "corrected", "parallel", "store",
           "rank", "simplify", "answered", "failed"}
Jobs == {"peek", "engine", "fallback", "keep", "done"}

\* The state has its shape: a cached entry or a search's result is a set of
\* documents, and only the searches of a stage have results.
TypeOK ==
    /\ table \subseteq Docs
    /\ \A t \in Texts : cache[t] = NoEntry \/ cache[t] \subseteq Docs
    /\ DOMAIN cache = Texts
    /\ \A r \in Requests :
        /\ req[r].at \in Stages
        /\ req[r].text \in Texts \cup {NoText}
        /\ req[r].asked \in Texts \cup {NoText}
        /\ req[r].corr \in {Correction[t] : t \in Texts} \cup {NoCorrection}
        /\ DOMAIN req[r].jobs \subseteq Texts
        /\ \A t \in DOMAIN req[r].jobs : req[r].jobs[t] \in Jobs
        /\ DOMAIN req[r].found \subseteq DOMAIN req[r].jobs
        /\ \A t \in DOMAIN req[r].found : req[r].found[t] \subseteq Docs
        /\ req[r].hits \subseteq Docs
    /\ faults \in 0 .. MaxFaults
    /\ writes \in 0 .. MaxWrites

\* The documents one search for a text may return, and the texts whose
\* search may be kept for a text: its own and its correction's.
Hits(t) == Match[t] \cup Loose[t]
KeptFor(t) == {t} \cup ({Correction[t].to} \ {NoText})

\* S is what one search for t may have returned, the fallback's at most Size.
IsSearchOf(S, t) ==
    /\ S \subseteq Hits(t)
    /\ Cardinality(S) <= Window \/ Cardinality(S) <= Size

\* An entry of the cache is the result of one search, for its text or for the
\* text's correction: never of several, and never of what a request found in
\* the cache, so that no document outlives one time-to-live in it
\* (cacheSearchResult, search.service.ts:111, :153, :158, :232).
CacheHoldsSearches ==
    \A t \in Texts : cache[t] # NoEntry =>
        \E u \in KeptFor(t) : IsSearchOf(cache[t], u)

\* What a request for t may search or take from the cache: its text, the
\* correction, the suggestions, the query of its business types, and what is
\* kept for any of these.
Reach(t) ==
    {t} \cup ({Correction[t].to, Simplified[t]} \ {NoText})
        \cup TopSuggestions(Correction[t])
Related(t) == UNION {Hits(v) : v \in UNION {KeptFor(u) : u \in Reach(t)}}

\* An answered document has to do with the text typed: it was found for the
\* text, its correction, a suggestion, a suggestion's correction or the query
\* of the text's business types, whatever other requests keep in the cache.
AnswersAreRelated ==
    \A r \in Requests :
        At(r, "answered") => req[r].hits \subseteq Related(req[r].text)

\* While documents of the filter match the text as typed, an answer computed
\* without failures is of such documents and is not empty: no correction,
\* suggestion or simplified query replaces them ("NO TYPO CORRECTION NEEDED",
\* search.service.ts:112), and it is no longer than the client asked.
OriginalFirst ==
    \A r \in Requests :
        LET q == req[r] IN
        q.at = "answered" /\ q.clean =>
            /\ q.hits # {}
            /\ q.hits \subseteq Match[q.text] \cap Passes[q.filter]
            /\ Cardinality(q.hits) <= Size

\* What a search for the text, without failures, would keep now.
KeptNow(t) ==
    {S \in SUBSET Docs : \E f \in Filters :
        \/ S \in Cut(Finds(t, f), Window) /\ S # {}
        \/ /\ Finds(t, f) = {}
           /\ \E u \in KeptFor(t) : S \in Cut(Finds(u, f), Window)}

\* Failures and writes do not stay in the cache: after the last of them every
\* entry comes to be what a search finds, also one that a lost search left
\* empty (setex with a time-to-live, redis-cache.service.ts:88).
EntriesHeal ==
    <>[](\A t \in Texts : cache[t] # NoEntry => cache[t] \in KeptNow(t))

\* Every request is answered or fails: all searches have a time limit, their
\* failures turn into results, and the client waits for no other request.
SearchesEnd ==
    \A r \in Requests : At(r, "lookup") ~> ~Running(r)
=============================================================================
