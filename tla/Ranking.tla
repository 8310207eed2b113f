------------------------------- MODULE Ranking --------------------------------
(***************************************************************************)
(* From the hits of the searches to the answer: TieredRankingService ranks *)
(* a list on the main thread or in a worker thread with a time limit; the  *)
(* pipeline of SearchService.search ranks the lists of two suggestions as  *)
(* they arrive, merges them, and ranks what is left for the answer.        *)
(*                                                                         *)
(* A hit has a document and a score; scores of ranked hits are in tenths   *)
(* of a point, so that the parts of a final score are whole numbers.  The  *)
(* main thread's ranking reads nothing that changes while it awaits, so it *)
(* is one step.                                                            *)
(***************************************************************************)
EXTENDS Words

CONSTANTS
    Docs,
    Business,       \* doc -> name, confirmed, featured, health, rating, fresh
    Plans,          \* the requests: see PlanType
    Size,           \* results asked for
    Threshold,      \* hits from which a worker thread ranks (50 in the code)
    UseWorkers,     \* RANKING_USE_WORKER_THREADS
    HighScore,      \* a text score that makes a hit close (5.0 in the code)
    Chunk,          \* hits deduplicated at a time
    Sequential,     \* hits up to which a list is classified at once (10)
    Unreadable      \* a name that is no string: it has no toLowerCase

ASSUME BusinessAssumption ==
    \A d \in Docs : /\ Business[d].name = Unreadable \/ Business[d].name \in Seq(Seq(Nat))
                    /\ Business[d].confirmed \in BOOLEAN /\ Business[d].featured \in BOOLEAN
                    /\ Business[d].health \in Int /\ Business[d].rating \in Int
                    /\ Business[d].fresh \in {2, 4, 5, 6, 8, 10}
ASSUME RankingAssumption ==
    /\ Size \in Nat \ {0} /\ Threshold \in Nat \ {0}
    /\ UseWorkers \in BOOLEAN /\ HighScore \in Nat /\ Chunk \in Nat \ {0}
    /\ Sequential \in Nat \ {0}

Hit == [doc : Docs, score : Int]
Hits == Seq(Hit)
Distinct(list) == \A i, j \in DOMAIN list : list[i].doc = list[j].doc => i = j

\* A plan has one list, when one text was searched, or those of two
\* suggestions; a cached list is not ranked when it arrives, and the engine
\* counts more rows than it gives.  The final ranking is for the query: the
\* text that was asked or, when nothing was found for it, what typo tolerance
\* corrected it to, which is when there are suggestions.  The hits of a list
\* are rows of one index, where a document has one row.
ListType == [query : Seq(Seq(Nat)), hits : Hits, total : Nat, cached : BOOLEAN]
ASSUME PlanAssumption ==
    \A p \in Plans :
        /\ p.lists \in Seq(ListType) /\ Len(p.lists) \in {1, 2}
        /\ Len(p.lists) = 2 => p.typo = p.query /\ p.query # <<>>
        /\ \A i \in DOMAIN p.lists : Distinct(p.lists[i].hits)
        /\ p.located \in BOOLEAN

VARIABLES
    plan,       \* the request
    workerFile, \* whether the worker's file is found
    at,         \* "lists", "merge", "rank", "again", "answered", "failed", or
                \* "crashed" with the process
    hits,       \* searchResults, then the answer
    calls       \* call -> its arguments and how far it is
rankVars == <<plan, workerFile, at, hits, calls>>

Exact == 3
Close == 2
Other == 1
Name(d) == Business[d].name
Readable(list) == \A i \in DOMAIN list : Name(list[i].doc) # Unreadable
Deadly(list) == Len(list) > Sequential /\ ~Readable(list)

\* What hits are compared with; the tiers of all documents for all of these
\* are tabulated.
QueriesAsked == {p.query : p \in Plans} \cup UNION {{l.query : l \in ToSet(p.lists)} : p \in Plans}
TyposAsked == {p.typo : p \in Plans} \cup {NoTypo}
Named == {d \in Docs : Name(d) # Unreadable}

\* The hits at some places of a list, in a stable order: Before(a, b) when a
\* must come before b.
SortedAt(list, places, Before(_, _)) ==
    LET Earlier(i, j) == \/ Before(list[i], list[j])
                         \/ ~Before(list[j], list[i]) /\ i < j
        order == Listed(places, Earlier)
    IN  [k \in DOMAIN order |-> list[order[k]]]

Sorted(list, Before(_, _)) == SortedAt(list, DOMAIN list, Before)
-----------------------------------------------------------------------------
\* checkExactMatch: equal, a prefix or a part; or several words that all
\* begin a word of the name.
IsExact(name, query) ==
    \/ Includes(Letters(name), Letters(query))
    \/ /\ Len(query) >= 2
       /\ \A i \in DOMAIN query : \E j \in DOMAIN name : IsPrefix(query[i], name[j])

AllowedDistance(s) == Least(3, CeilDiv(Len(s), 3))
IsFuzzy(s, t) == QuickDistance(s, t) \in 1 .. AllowedDistance(t)

\* calculateSimpleSimilarity > 0.6: seven parts common letters, three parts
\* length.
IsSimilar(s, t) ==
    LET common == Cardinality(ToSet(s) \cap ToSet(t))
        letters == Cardinality(ToSet(s) \cup ToSet(t))
        short == Least(Len(s), Len(t))
        long == Most(Len(s), Len(t))
    IN  7 * common * long + 3 * short * letters > 6 * letters * long

\* Three fifths of the words of the query are within two edits of a word.
IsPartial(name, query) ==
    /\ Len(query) >= 2
    /\ 10 * Cardinality({i \in DOMAIN query : \E w \in ToSet(SplitWords(name)) :
                            QuickDistance(query[i], w) <= 2}) >= 6 * Len(query)

\* checkCloseMatch, but for the text score.
IsClose(name, query) ==
    \/ IsFuzzy(Letters(name), Letters(query))
    \/ Len(query) = 1 /\ \E w \in ToSet(SplitWords(name)) : IsFuzzy(w, query[1])
    \/ IsSimilar(Letters(name), Letters(query))
    \/ IsPartial(name, query)

\* classifyMatchQuality of the main thread, without and with a high text score.
MainTier(name, query, typo, high) ==
    IF IsExact(name, query) THEN Exact
    ELSE IF typo # NoTypo /\ IsExact(name, typo) THEN Close
    ELSE IF high \/ IsClose(name, query) THEN Close ELSE Other

\* classifyMatchQuality of the worker: close when seven tenths of the words of
\* the query are part of a word of the name or have one as a part.
WorkerTier(name, query, typo) ==
    LET found == {i \in DOMAIN query : \E w \in ToSet(SplitWords(name)) :
                    Includes(w, query[i]) \/ Includes(query[i], w)}
    IN  IF Includes(Letters(name), Letters(query)) THEN Exact
        ELSE IF typo # NoTypo /\ Includes(Letters(name), Letters(typo)) THEN Close
        ELSE IF 10 * Cardinality(found) >= 7 * Len(query) THEN Close ELSE Other

MainTiers == {<<d, q, t, high, MainTier(Name(d), q, t, high)>> :
                  d \in Named, q \in QueriesAsked, t \in TyposAsked, high \in BOOLEAN}
WorkerTiers == {<<d, q, t, WorkerTier(Name(d), q, t)>> :
                    d \in Named, q \in QueriesAsked, t \in TyposAsked}

Tiers == {Exact, Close, Other}
Classify(hit, query, typo) ==
    CHOOSE tier \in Tiers :
        <<hit.doc, query, typo, hit.score >= HighScore, tier>> \in MainTiers
WorkerClassify(hit, query, typo) ==
    CHOOSE tier \in Tiers : <<hit.doc, query, typo, tier>> \in WorkerTiers

\* classifyBatch: a map from hits to tiers.  Long lists are classified in
\* parts, which add to the map on their own.
ClassifyBatch(list, query, typo) == [i \in DOMAIN list |-> Classify(list[i], query, typo)]
-----------------------------------------------------------------------------
\* The points of a business, in tenths, with those of its rating, which only
\* the worker limits.
Boosts(d, rated) ==
    LET b == Business[d] IN
    (IF b.confirmed THEN 20000 ELSE 0) + 10 * b.health + rated
        + 10 * b.fresh + (IF b.featured THEN 5000 ELSE 0)

MainBoosts(d) == Boosts(d, 100 * Business[d].rating)
WorkerBoosts(d) == Boosts(d, Least(500, 100 * Business[d].rating))

\* min(10, log10(score) * 2.5), for a power of ten; between two of them the
\* lower one's.
TextPoints(score) ==
    IF score >= 10000 THEN 100 ELSE IF score >= 1000 THEN 75
    ELSE IF score >= 100 THEN 50 ELSE IF score >= 10 THEN 25 ELSE 0

\* Mutant: the tier alone is the score's first part.
FlatTier(tier) == 10000 * tier

\* buildTieredResult: a tier is a thousand points, the best one 10000.
TierScore(tier) == 10000 * tier + (IF tier = Exact THEN 70000 ELSE 0)

\* calculateScores of the worker.
WorkerTierScore(tier) ==
    CASE tier = Exact -> 100000 [] tier = Close -> 50000 [] OTHER -> 10000

MainScore(hit, tier) == TierScore(tier) + MainBoosts(hit.doc) + TextPoints(hit.score)
WorkerScore(hit, tier) == WorkerTierScore(tier) + WorkerBoosts(hit.doc)

\* rankInMainThread: by score, then health, then tier.
Health(r) == Business[r.doc].health
Better(a, b) ==
    \/ a.score > b.score
    \/ /\ a.score = b.score
       /\ \/ Health(a) > Health(b)
          \/ Health(a) = Health(b) /\ a.tier > b.tier

MainRanking(list, query, typo) ==
    LET tiers == ClassifyBatch(list, query, typo)
        rated == [i \in DOMAIN list |-> [doc |-> list[i].doc, tier |-> tiers[i],
                                         score |-> MainScore(list[i], tiers[i])]]
        order == Sorted(rated, Better)
    IN  [i \in DOMAIN order |-> [doc |-> order[i].doc, score |-> order[i].score]]

ByScore(a, b) == a.score > b.score

\* rankResults of the worker.
WorkerRanking(list, query, typo) ==
    Sorted([i \in DOMAIN list |->
               [doc |-> list[i].doc,
                score |-> WorkerScore(list[i], WorkerClassify(list[i], query, typo))]],
           ByScore)

\* enrichSingleResult: no correction is considered.
SingleRanking(list, query) ==
    <<[list[1] EXCEPT !.score = MainScore(list[1], Classify(list[1], query, NoTypo))]>>
-----------------------------------------------------------------------------
\* The places where a document stands first among some places.
FirstPlaces(list, places) ==
    {i \in places : \A j \in places : j < i => list[j].doc # list[i].doc}

\* The first places of every part of Chunk hits (100 or a quarter of them in
\* the code; a shorter list is one part).
PlacesOfParts(list) ==
    LET Part(i) == {j \in DOMAIN list : (j - 1) \div Chunk = (i - 1) \div Chunk}
    IN  {i \in DOMAIN list : i \in FirstPlaces(list, Part(i))}

\* Mutant: the parts are not compared with one another.
DeduplicateParts(list) == SortedAt(list, PlacesOfParts(list), ByScore)

\* deduplicateHitsParallel: the first hit of every document in its part, then
\* across the parts.
Deduplicate(list) == SortedAt(list, FirstPlaces(list, PlacesOfParts(list)), ByScore)

Slice(list) == SubSeq(list, 1, Least(Size, Len(list)))

\* filterByLocation and sortByLocationRelevance with what the pipeline gives
\* them: the location has no locationType, so every hit is in the radius with
\* score 0; the hits are looked up by id, where the last of an id counts.
LocationRanked(list) ==
    [i \in DOMAIN list |->
        LET same == {j \in DOMAIN list : list[j].doc = list[i].doc}
        IN  list[CHOOSE j \in same : \A k \in same : j >= k]]
-----------------------------------------------------------------------------
NoCall == [hits |-> <<>>, query |-> <<>>, typo |-> NoTypo, worker |-> "none",
           timer |-> FALSE, main |-> FALSE, state |-> "none", ranked |-> <<>>]

\* rankResults: no hits and one hit are ranked at once, many, or some of many,
\* in a worker if its file is found, and otherwise on the main thread.
Call(list, query, typo, total) ==
    LET call == [NoCall EXCEPT !.hits = list, !.query = query, !.typo = typo,
                               !.state = "pending"]
        many == Len(list) >= Threshold \/ total >= Threshold
    IN  CASE list = <<>> -> [call EXCEPT !.state = "resolved"]
          [] Len(list) = 1 ->
                IF Readable(list)
                THEN [call EXCEPT !.state = "resolved",
                                  !.ranked = SingleRanking(list, query)]
                ELSE [call EXCEPT !.state = "rejected"]
          [] Len(list) > 1 /\ UseWorkers /\ many /\ workerFile ->
                [call EXCEPT !.worker = "ranking", !.timer = TRUE]
          [] OTHER -> [call EXCEPT !.main = TRUE]

\* The promise of rankWithWorkers: the first result counts.
Resolve(call, list) ==
    IF call.state = "pending" THEN [call EXCEPT !.state = "resolved", !.ranked = list]
    ELSE call
Reject(call) ==
    IF call.state = "pending" THEN [call EXCEPT !.state = "rejected"] ELSE call

RankInit ==
    /\ plan \in Plans
    /\ workerFile \in BOOLEAN
    /\ LET one == Len(plan.lists) = 1 IN
        /\ at = IF one THEN "merge" ELSE "lists"
        /\ hits = IF one THEN plan.lists[1].hits ELSE <<>>
        /\ calls = [c \in {1, 2, 3} |-> NoCall]

\* The searches of two suggestions end: an uncached list that has hits is
\* ranked for its suggestion at once.
ListArrives(i) ==
    /\ at = "lists"
    /\ i \in DOMAIN plan.lists
    /\ calls[i] = NoCall
    /\ LET list == plan.lists[i] IN
        calls' = [calls EXCEPT ![i] =
            IF list.cached
            THEN [NoCall EXCEPT !.state = "resolved", !.ranked = list.hits]
            ELSE Call(list.hits, list.query, plan.typo, list.total)]
    /\ UNCHANGED <<plan, workerFile, at, hits>>

\* rankInMainThread ends; a name that can not be read makes a short list fail.
MainRanks(c) ==
    /\ calls[c].main
    /\ ~Deadly(calls[c].hits)
    /\ calls' = [calls EXCEPT ![c] =
          LET call == [@ EXCEPT !.main = FALSE] IN
          IF Readable(call.hits)
          THEN Resolve(call, MainRanking(call.hits, call.query, call.typo))
          ELSE Reject(call)]
    /\ UNCHANGED <<plan, workerFile, at, hits>>

\* classifyBatch reads the names of a longer list in callbacks of setImmediate,
\* where no promise takes the error: nothing handles the exception, and Node
\* ends the process with the request and all others.
MainThrows(c) ==
    /\ calls[c].main
    /\ Deadly(calls[c].hits)
    /\ at' = "crashed"
    /\ calls' = [d \in DOMAIN calls |-> NoCall]
    /\ UNCHANGED <<plan, workerFile, hits>>

\* The worker ranks, or reports what it caught, and posts it; or it dies
\* ('error'), or never answers.
WorkerPosts(c) ==
    /\ calls[c].worker = "ranking"
    /\ \E end \in {"posted", "crashed"} : calls' = [calls EXCEPT ![c].worker = end]
    /\ UNCHANGED <<plan, workerFile, at, hits>>

WorkerHangs(c) ==
    /\ calls[c].worker = "ranking"
    /\ calls' = [calls EXCEPT ![c].worker = "gone"]
    /\ UNCHANGED <<plan, workerFile, at, hits>>

\* 'message': the ranked hits are the result, a failure is ranked again on the
\* main thread.  Nothing asks whether the time limit has passed.
MessageArrives(c) ==
    /\ calls[c].worker = "posted"
    /\ calls' = [calls EXCEPT ![c] =
          LET call == [@ EXCEPT !.worker = "gone", !.timer = FALSE] IN
          IF Readable(call.hits)
          THEN Resolve(call, WorkerRanking(call.hits, call.query, call.typo))
          ELSE [call EXCEPT !.main = TRUE]]
    /\ UNCHANGED <<plan, workerFile, at, hits>>

\* Mutant: an error of the thread is the ranking's.
ErrorRejects(c) ==
    /\ calls[c].worker = "crashed"
    /\ calls' = [calls EXCEPT ![c] = Reject([@ EXCEPT !.worker = "gone", !.timer = FALSE])]
    /\ UNCHANGED <<plan, workerFile, at, hits>>

\* 'error': ranked on the main thread.
ErrorArrives(c) ==
    /\ calls[c].worker = "crashed"
    /\ calls' = [calls EXCEPT ![c].worker = "gone", ![c].timer = FALSE, ![c].main = TRUE]
    /\ UNCHANGED <<plan, workerFile, at, hits>>

\* Mutant: the thread is stopped and nobody ranks.
TimerOnlyStops(c) ==
    /\ calls[c].timer
    /\ calls' = [calls EXCEPT ![c].timer = FALSE, ![c].worker = "gone"]
    /\ UNCHANGED <<plan, workerFile, at, hits>>

\* 10 s without an answer: the worker is told to stop, which it may do too
\* late, and the main thread ranks.
TimerFires(c) ==
    /\ calls[c].timer
    /\ \E worker \in {calls[c].worker, "gone"} :
        calls' = [calls EXCEPT ![c].timer = FALSE, ![c].main = TRUE,
                               ![c].worker = worker]
    /\ UNCHANGED <<plan, workerFile, at, hits>>
-----------------------------------------------------------------------------
\* The two lists are settled: a failed one is left out, and the best Size of
\* the others' documents stay.
Merge ==
    /\ at = "lists"
    /\ \A i \in DOMAIN plan.lists : calls[i].state \in {"resolved", "rejected"}
    /\ hits' = Slice(Deduplicate(calls[1].ranked \o calls[2].ranked))
    /\ at' = "merge"
    /\ UNCHANGED <<plan, workerFile, calls>>

\* The rows the engine counted: of the list, or the most of the lists that were
\* not left out.
Total ==
    LET counted == {i \in DOMAIN plan.lists :
                       Len(plan.lists) = 2 => calls[i].state = "resolved"}
    IN  Max({0} \cup {plan.lists[i].total : i \in counted})

\* The hits that are left are ranked for the query, while the geographic
\* filter looks at them; without hits there is nothing to rank.
StartRanking ==
    /\ at = "merge"
    /\ IF hits = <<>>
       THEN at' = "answered" /\ UNCHANGED calls
       ELSE /\ at' = "rank"
            /\ calls' = [calls EXCEPT ![3] = Call(hits, plan.query, plan.typo, Total)]
    /\ UNCHANGED <<plan, workerFile, hits>>

\* With a location in the query, the hits, not the ranked ones, are ordered by
\* location and ranked again.
RankAgain ==
    /\ at = "rank"
    /\ plan.located
    /\ calls[3].state = "resolved"
    /\ at' = "again"
    /\ calls' = [calls EXCEPT ![3] = Call(LocationRanked(hits), plan.query, plan.typo, Total)]
    /\ UNCHANGED <<plan, workerFile, hits>>

\* The answer is the best Size ranked hits; a failed ranking is the request's.
Finish ==
    /\ \/ at = "again"
       \/ at = "rank" /\ (plan.located => calls[3].state = "rejected")
    /\ \/ /\ calls[3].state = "resolved"
          /\ at' = "answered"
          /\ hits' = Slice(calls[3].ranked)
       \/ /\ calls[3].state = "rejected"
          /\ at' = "failed"
          /\ UNCHANGED hits
    /\ UNCHANGED <<plan, workerFile, calls>>

Thread(c) == WorkerPosts(c) \/ WorkerHangs(c)
Events(c) ==
    \/ MainRanks(c) \/ MainThrows(c) \/ MessageArrives(c) \/ ErrorArrives(c) \/ TimerFires(c)
Pipeline == (\E i \in {1, 2} : ListArrives(i)) \/ Merge \/ StartRanking \/ RankAgain \/ Finish

RankNext == Pipeline \/ \E c \in {1, 2, 3} : Thread(c) \/ Events(c)

RankSpec == RankInit /\ [][RankNext]_rankVars

\* Node runs settled promises, messages and due timers; a thread need not
\* ever answer.
FairRankSpec == RankSpec /\ WF_rankVars(Pipeline) /\ \A c \in {1, 2, 3} : WF_rankVars(Events(c))
-----------------------------------------------------------------------------
Documents(list) == {list[i].doc : i \in DOMAIN list}
Sources == {i \in DOMAIN plan.lists : Readable(plan.lists[i].hits) \/ plan.lists[i].cached}

\* Whatever threads, time limits and retries did to the rankings, the answer
\* has no document twice, and none of the lists' documents is missing unless
\* the answer is full; a short list that has a hit without a readable name is
\* left out as a whole when it is ranked, and a long one is never answered
\* (deduplicateHitsParallel, search.service.ts:731; the settled lists, :242; the
\* slice, :393).
NothingLost ==
    at = "answered" =>
        LET docs == UNION {Documents(plan.lists[i].hits) : i \in Sources} IN
        /\ Documents(hits) \subseteq docs
        /\ Cardinality(Documents(hits)) = Len(hits)
        /\ Len(hits) = Least(Size, Cardinality(docs))

\* "Health is 0-100", "Rating is 0-5" (tiered-ranking.service.ts:345, :349),
\* which nothing enforces.
InRange(d) == Business[d].health \in 0 .. 100 /\ Business[d].rating \in 0 .. 5

\* The name of d contains the query, and the name of e is no exact match.
Leads(d, e, query) ==
    /\ InRange(d) /\ InRange(e)
    /\ Includes(Letters(Name(d)), Letters(query)) /\ ~IsExact(Name(e), query)

\* Every hit whose name contains the query stands above every hit that is no
\* exact match, on either thread and whatever the boosts of the two within
\* their ranges ("exact matches always rank above close matches",
\* match-quality-classifier.service.ts:48); and when one text was searched, the
\* first is not cut while the second is kept ("We fetched more for better
\* ranking", search.service.ts:389).
ContainingFirst ==
    at = "answered" =>
        /\ \A i, j \in DOMAIN hits : Leads(hits[j].doc, hits[i].doc, plan.query) => j < i
        /\ Len(plan.lists) = 1 =>
              \A d \in Documents(plan.lists[1].hits) \ Documents(hits), i \in DOMAIN hits :
                 ~Leads(d, hits[i].doc, plan.query)

\* A thread that crashes, hangs or answers late costs no request: only a hit
\* without a readable name makes a request fail, and only one in a list too long
\* to be classified at once ends the process (the fallbacks of rankWithWorkers,
\* tiered-ranking.service.ts:517, :536, :546; classifyBatch,
\* match-quality-classifier.service.ts:212).
ThreadsFailSilently ==
    /\ at = "failed" => ~Readable(hits) /\ Len(hits) <= Sequential
    /\ at = "crashed" =>
          \/ Deadly(hits)
          \/ \E i \in DOMAIN plan.lists : Deadly(plan.lists[i].hits) /\ ~plan.lists[i].cached

\* Every ranking ends although no worker need ever answer (the 10 s limit,
\* tiered-ranking.service.ts:514), unless it ends the process.
RankingEnds == <>(at \in {"answered", "failed", "crashed"})
===============================================================================
