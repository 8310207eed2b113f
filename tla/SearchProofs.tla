----------------------------- MODULE SearchProofs -----------------------------
(***************************************************************************)
(* What the cache of searches holds and what is answered from it, for any  *)
(* clients, documents, texts and corrections; and that the two services    *)
(* that look for places in a query agree, for any text.                    *)
(*                                                                         *)
(* Of the search everything follows from what one request may hold at      *)
(* each stage (Good), which speaks of that request alone: requests meet in *)
(* the cache only, and its entries are single searches.                    *)
(***************************************************************************)
EXTENDS Search, QueryUnderstanding, FiniteSetTheorems, SequenceTheorems, TLAPS

JobMaps == UNION {[T -> Jobs] : T \in SUBSET Texts}
FoundMaps == UNION {[T -> SUBSET Docs] : T \in SUBSET Texts}

Request ==
    [at : Stages, text : Texts \cup {NoText}, filter : Filters \cup {<<>>},
     asked : Texts \cup {NoText},
     corr : {Correction[t] : t \in Texts} \cup {NoCorrection},
     jobs : JobMaps, found : FoundMaps, hits : SUBSET Docs, clean : BOOLEAN]

\* S is what may be kept for t.
IsKept(S, t) == \E u \in KeptFor(t) : IsSearchOf(S, u)

\* A stage's searches are of the texts it asks for, and an ended one has its
\* result.
GoodSearch(q, t) ==
    /\ DOMAIN q.jobs = {t}
    /\ q.jobs[t] \in {"keep", "done"} => t \in DOMAIN q.found
    /\ \A u \in DOMAIN q.found : IsSearchOf(q.found[u], u)

\* What a request holds at its stage.
Good(q) ==
    /\ q \in Request
    /\ q.at # "idle" => q.text \in Texts /\ q.filter \in Filters
    /\ q.at # "idle" => q.corr \in {NoCorrection, Correction[q.text]}
    /\ DOMAIN q.found \subseteq DOMAIN q.jobs
    /\ q.at \notin {"original", "corrected", "parallel"} => DOMAIN q.jobs = {}
    /\ q.at = "original" => GoodSearch(q, q.text)
    /\ q.at = "corrected" => /\ Correction[q.text] # NoCorrection
                             /\ q.asked = Correction[q.text].to
                             /\ GoodSearch(q, q.asked)
    /\ q.at = "parallel" => /\ DOMAIN q.jobs \subseteq TopSuggestions(Correction[q.text])
                            /\ \A t \in DOMAIN q.found : IsKept(q.found[t], t)
    /\ q.at = "store" => IsKept(q.hits, q.text)
    /\ q.at \in {"rank", "simplify", "answered"} => q.hits \subseteq Related(q.text)
    /\ q.at = "simplify" => Simplified[q.text] \in Texts

SearchInv ==
    /\ table \subseteq Docs
    /\ cache = [t \in Texts |-> cache[t]]
    /\ \A t \in Texts : cache[t] = NoEntry \/ IsKept(cache[t], t)
    /\ req = [r \in Requests |-> req[r]]
    /\ \A r \in Requests : Good(req[r])
    /\ faults \in 0 .. MaxFaults
    /\ writes \in 0 .. MaxWrites
-----------------------------------------------------------------------------
(* The operators.                                                          *)

LEMMA CorrectionFacts ==
  ASSUME NEW t \in Texts
  PROVE  /\ KeptFor(t) \subseteq Texts
         /\ t \in KeptFor(t)
         /\ TopSuggestions(Correction[t]) \subseteq Texts
         /\ Correction[t] # NoCorrection =>
                /\ Correction[t].to \in Texts
                /\ Correction[t].to \in KeptFor(t)
<1>1. Correction[t] \in Corrections \/ Correction[t] = NoCorrection
  BY CorrectionAssumption
<1>2. CASE Correction[t] \in Corrections
  <2>1. Correction[t].to \in Texts /\ Correction[t].high \in Seq(Texts)
    BY <1>2 DEF Corrections
  <2>2. QED
    BY <2>1, CorrectionAssumption DEF KeptFor, TopSuggestions
<1>3. CASE Correction[t] = NoCorrection
  BY <1>3 DEF KeptFor, TopSuggestions, NoCorrection
<1>4. QED
  BY <1>1, <1>2, <1>3

LEMMA HitsInDocs == \A t \in Texts : Hits(t) \subseteq Docs
  BY MatchAssumption DEF Hits

LEMMA KeptInDocs ==
  ASSUME NEW t \in Texts, NEW S, IsKept(S, t)
  PROVE  S \subseteq Docs
  BY CorrectionFacts, HitsInDocs DEF IsKept, IsSearchOf

LEMMA EmptyIsSearch == \A t : IsSearchOf({}, t)
  BY FS_EmptySet, BoundsAssumption DEF IsSearchOf

LEMMA SearchIsKept ==
  ASSUME NEW t \in Texts, NEW S, IsSearchOf(S, t)
  PROVE  IsKept(S, t)
  BY CorrectionFacts DEF IsKept

\* What may be kept for a text, or found for something it reaches, is related
\* to it.
LEMMA KeptIsRelated ==
  ASSUME NEW t \in Texts, NEW u \in Reach(t), NEW S, IsKept(S, u)
  PROVE  S \subseteq Related(t)
  BY DEF IsKept, IsSearchOf, Related

LEMMA CutIsSearch ==
  ASSUME NEW t, NEW R, R \subseteq Hits(t), NEW n \in {Window, Size}, NEW S \in Cut(R, n)
  PROVE  IsSearchOf(S, t)
  BY DEF Cut, IsSearchOf
-----------------------------------------------------------------------------
(* What the steps of a request do to its record.                           *)

LEMMA EmptyMaps == /\ <<>> \in JobMaps /\ <<>> \in FoundMaps
                   /\ DOMAIN <<>> = {}
<1>1. <<>> \in [{} -> Jobs] /\ <<>> \in [{} -> SUBSET Docs]
  OBVIOUS
<1>2. QED
  BY <1>1 DEF JobMaps, FoundMaps

LEMMA MapTypes ==
  ASSUME NEW q \in Request
  PROVE  /\ q.jobs = [t \in DOMAIN q.jobs |-> q.jobs[t]]
         /\ DOMAIN q.jobs \subseteq Texts
         /\ \A t \in DOMAIN q.jobs : q.jobs[t] \in Jobs
         /\ q.found = [t \in DOMAIN q.found |-> q.found[t]]
         /\ DOMAIN q.found \subseteq Texts
         /\ \A t \in DOMAIN q.found : q.found[t] \subseteq Docs
<1>1. q.jobs \in JobMaps /\ q.found \in FoundMaps
  BY DEF Request
<1>2. PICK T \in SUBSET Texts : q.jobs \in [T -> Jobs]
  BY <1>1 DEF JobMaps
<1>3. PICK U \in SUBSET Texts : q.found \in [U -> SUBSET Docs]
  BY <1>1 DEF FoundMaps
<1>4. QED
  BY <1>2, <1>3

LEMMA JobSet ==
  ASSUME NEW f \in JobMaps, NEW t \in DOMAIN f, NEW job \in Jobs
  PROVE  /\ [f EXCEPT ![t] = job] \in JobMaps
         /\ DOMAIN [f EXCEPT ![t] = job] = DOMAIN f
<1>1. PICK T \in SUBSET Texts : f \in [T -> Jobs]
  BY DEF JobMaps
<1>2. [f EXCEPT ![t] = job] \in [T -> Jobs]
  BY <1>1
<1>3. QED
  BY <1>1, <1>2 DEF JobMaps

LEMMA FoundSet ==
  ASSUME NEW f \in FoundMaps, NEW t \in Texts, NEW S \in SUBSET Docs
  PROVE  /\ Extend(f, t, S) \in FoundMaps
         /\ DOMAIN Extend(f, t, S) = DOMAIN f \cup {t}
         /\ Extend(f, t, S)[t] = S
         /\ \A u \in DOMAIN f \ {t} : Extend(f, t, S)[u] = f[u]
<1>1. PICK T \in SUBSET Texts : f \in [T -> SUBSET Docs]
  BY DEF FoundMaps
<1>2. Extend(f, t, S) \in [T \cup {t} -> SUBSET Docs]
  BY <1>1 DEF Extend
<1>3. T \cup {t} \in SUBSET Texts
  OBVIOUS
<1>4. QED
  BY <1>1, <1>2, <1>3 DEF FoundMaps, Extend

LEMMA AnswerGood ==
  ASSUME NEW q, Good(q), q.at # "idle",
         NEW S \in SUBSET Docs, S \subseteq Related(q.text)
  PROVE  /\ Good(Answer(q, S))
         /\ Good([Answer(q, S) EXCEPT !.clean = FALSE])
         /\ Good([Answer(q, S) EXCEPT !.at = "failed"])
<1>1. q \in Request /\ q.text \in Texts /\ q.filter \in Filters
  BY DEF Good
<1> DEFINE a == Answer(q, S)
<1>2. /\ a \in Request /\ a.at = "answered" /\ a.text = q.text
      /\ a.filter = q.filter /\ a.hits = S /\ a.jobs = <<>> /\ a.found = <<>>
      /\ a.corr = NoCorrection
  BY <1>1, EmptyMaps DEF Answer, Request, Stages
<1> HIDE DEF a
<1>3. Good(a)
  BY <1>1, <1>2, EmptyMaps DEF Good
<1> DEFINE b == [a EXCEPT !.clean = FALSE]
           c == [a EXCEPT !.at = "failed"]
<1>4. /\ b \in Request /\ b.at = "answered" /\ b.text = q.text
      /\ b.filter = q.filter /\ b.hits = S /\ b.jobs = <<>> /\ b.found = <<>>
      /\ b.corr = NoCorrection
  BY <1>1, <1>2 DEF Request
<1>5. /\ c \in Request /\ c.at = "failed" /\ c.text = q.text
      /\ c.filter = q.filter /\ c.jobs = <<>> /\ c.found = <<>>
      /\ c.corr = NoCorrection
  BY <1>1, <1>2 DEF Request, Stages
<1> HIDE DEF b, c
<1>6. Good(b)
  BY <1>1, <1>4, EmptyMaps DEF Good
<1>7. Good(c)
  BY <1>1, <1>5, EmptyMaps DEF Good
<1>8. QED
  BY <1>3, <1>6, <1>7 DEF a, b, c

LEMMA CleanGood ==
  ASSUME NEW q, Good(q), NEW b \in BOOLEAN
  PROVE  Good([q EXCEPT !.clean = b])
<1> DEFINE n == [q EXCEPT !.clean = b]
<1>1. q \in Request
  BY DEF Good
<1>2. /\ n \in Request /\ n.at = q.at /\ n.text = q.text /\ n.filter = q.filter
      /\ n.asked = q.asked /\ n.corr = q.corr /\ n.jobs = q.jobs
      /\ n.found = q.found /\ n.hits = q.hits
  BY <1>1 DEF Request
<1> HIDE DEF n
<1>3. Good(n)
  BY <1>2 DEF Good, GoodSearch
<1>4. QED
  BY <1>3 DEF n

LEMMA SettleGood ==
  ASSUME NEW q, Good(q), q.at # "idle", NEW S \in SUBSET Docs
  PROVE  /\ IsKept(S, q.text) => Good(Settle(q, "store", S))
         /\ S \subseteq Related(q.text) => Good(Settle(q, "rank", S))
<1> DEFINE n(stage) == Settle(q, stage, S)
<1>1. q \in Request /\ q.text \in Texts /\ q.filter \in Filters
  BY DEF Good
<1>2. ASSUME NEW stage \in {"store", "rank"}
      PROVE  /\ n(stage) \in Request /\ n(stage).at = stage
             /\ n(stage).text = q.text /\ n(stage).filter = q.filter
             /\ n(stage).corr = q.corr /\ n(stage).jobs = <<>>
             /\ n(stage).found = <<>> /\ n(stage).hits = S
  BY <1>1, EmptyMaps DEF Settle, Request, Stages
<1> HIDE DEF n
<1>3. IsKept(S, q.text) => Good(n("store"))
  BY <1>1, <1>2, EmptyMaps DEF Good
<1>4. S \subseteq Related(q.text) => Good(n("rank"))
  BY <1>1, <1>2, EmptyMaps DEF Good
<1>5. QED
  BY <1>3, <1>4 DEF n

\* A search begins, of the text itself or of its correction.
LEMMA ExecuteGood ==
  ASSUME NEW q, Good(q), q.at # "idle"
  PROVE  /\ Good(Execute(q, "original", q.text))
         /\ Correction[q.text] # NoCorrection =>
              Good(Execute([q EXCEPT !.corr = Correction[q.text]], "corrected",
                           Correction[q.text].to))
<1>1. q \in Request /\ q.text \in Texts /\ q.filter \in Filters
  BY DEF Good
<1>2. ASSUME NEW t \in Texts PROVE [u \in {t} |-> "engine"] \in JobMaps
  <2>1. [u \in {t} |-> "engine"] \in [{t} -> Jobs]
    BY DEF Jobs
  <2>2. QED
    BY <2>1 DEF JobMaps
<1>3. Good(Execute(q, "original", q.text))
  <2> DEFINE n == Execute(q, "original", q.text)
  <2>1. /\ n \in Request /\ n.at = "original" /\ n.text = q.text
        /\ n.filter = q.filter /\ n.corr = q.corr
        /\ n.jobs = [u \in {q.text} |-> "engine"] /\ n.found = <<>>
    BY <1>1, <1>2, EmptyMaps DEF Execute, Request, Stages
  <2> HIDE DEF n
  <2>2. Good(n)
    BY <1>1, <2>1, EmptyMaps DEF Good, GoodSearch
  <2>3. QED
    BY <2>2 DEF n
<1>4. ASSUME Correction[q.text] # NoCorrection
      PROVE  Good(Execute([q EXCEPT !.corr = Correction[q.text]], "corrected",
                          Correction[q.text].to))
  <2> DEFINE to == Correction[q.text].to
             p == [q EXCEPT !.corr = Correction[q.text]]
             n == Execute(p, "corrected", to)
  <2>1. to \in Texts
    BY <1>1, <1>4, CorrectionFacts
  <2>2. /\ p \in Request /\ p.text = q.text /\ p.filter = q.filter
        /\ p.corr = Correction[q.text]
    BY <1>1 DEF Request
  <2> HIDE DEF p, to
  <2>3. /\ n \in Request /\ n.at = "corrected" /\ n.text = q.text
        /\ n.filter = q.filter /\ n.corr = Correction[q.text] /\ n.asked = to
        /\ n.jobs = [u \in {to} |-> "engine"] /\ n.found = <<>>
    BY <1>1, <1>2, <2>1, <2>2, EmptyMaps DEF Execute, Request, Stages
  <2> HIDE DEF n
  <2>4. Good(n)
    BY <1>1, <1>4, <2>1, <2>3, EmptyMaps DEF Good, GoodSearch, to
  <2>5. QED
    BY <2>4 DEF n, p, to
<1>5. QED
  BY <1>3, <1>4

\* A search under way goes on (to the fallback, to nothing when overdue).
LEMMA JobGood ==
  ASSUME NEW q, Good(q), NEW t \in DOMAIN q.jobs, NEW job \in Jobs,
         job \in {"keep", "done"} => q.at = "parallel" \/ q.jobs[t] = "keep"
  PROVE  /\ Good([q EXCEPT !.jobs[t] = job])
         /\ Good([q EXCEPT !.jobs[t] = job, !.clean = FALSE])
<1>1. q \in Request /\ q.jobs \in JobMaps
  BY DEF Good, Request
<1> DEFINE f == [q.jobs EXCEPT ![t] = job]
           n == [q EXCEPT !.jobs[t] = job]
<1>2. f \in JobMaps /\ DOMAIN f = DOMAIN q.jobs /\ f[t] = job
  BY <1>1, JobSet, MapTypes
<1> HIDE DEF f
<1>3. /\ n \in Request /\ n.at = q.at /\ n.text = q.text /\ n.filter = q.filter
      /\ n.asked = q.asked /\ n.corr = q.corr /\ n.jobs = f
      /\ n.found = q.found /\ n.hits = q.hits
  <2>1. n = [q EXCEPT !.jobs = f]
    BY <1>1 DEF Request, f
  <2> HIDE DEF n
  <2>2. QED
    BY <1>1, <1>2, <2>1 DEF Request
<1> HIDE DEF n
<1>4. q.at \in {"original", "corrected", "parallel"}
  BY DEF Good
<1>5. Good(n)
  <2>1. CASE q.at = "parallel"
    BY <1>2, <1>3, <2>1 DEF Good
  <2>2. CASE q.at = "original"
    BY <1>2, <1>3, <2>2 DEF Good, GoodSearch
  <2>3. CASE q.at = "corrected"
    BY <1>2, <1>3, <2>3 DEF Good, GoodSearch
  <2>4. QED
    BY <1>4, <2>1, <2>2, <2>3
<1>6. Good([n EXCEPT !.clean = FALSE])
  BY <1>5, CleanGood
<1>7. QED
  BY <1>5, <1>6 DEF n

\* A search ends with S.
LEMMA FoundGood ==
  ASSUME NEW q, Good(q), NEW t \in DOMAIN q.jobs, NEW S \in SUBSET Docs,
         IsSearchOf(S, t)
  PROVE  Good(Found(q, t, S))
<1>1. q \in Request /\ q.jobs \in JobMaps /\ q.found \in FoundMaps
  BY DEF Good, Request
<1>2. t \in Texts
  BY <1>1, MapTypes
<1> DEFINE job == IF q.at = "parallel" /\ S = {} THEN "keep" ELSE "done"
           f == [q.jobs EXCEPT ![t] = job]
           g == Extend(q.found, t, S)
           n == Found(q, t, S)
<1>3. f \in JobMaps /\ DOMAIN f = DOMAIN q.jobs /\ job \in Jobs
  <2>1. job \in Jobs
    BY DEF Jobs
  <2>2. QED
    BY <1>1, <2>1, JobSet
<1> HIDE DEF f, g, n, job
<1>4. /\ g \in FoundMaps /\ DOMAIN g = DOMAIN q.found \cup {t} /\ g[t] = S
      /\ \A u \in DOMAIN q.found \ {t} : g[u] = q.found[u]
  <2>1. S \in SUBSET Docs
    OBVIOUS
  <2>2. QED
    BY <1>1, <1>2, <2>1, FoundSet, SMTT(30) DEF g
<1>5. n = [q EXCEPT !.jobs = f, !.found = g]
  BY <1>1 DEF Request, Found, f, g, n, job
<1>6. /\ n \in Request /\ n.at = q.at /\ n.text = q.text /\ n.filter = q.filter
      /\ n.asked = q.asked /\ n.corr = q.corr /\ n.jobs = f
      /\ n.found = g /\ n.hits = q.hits
  BY <1>1, <1>3, <1>4, <1>5 DEF Request
<1>7. q.at \in {"original", "corrected", "parallel"}
  BY DEF Good
<1>8. ASSUME q.at = "parallel" PROVE Good(n)
  <2>1. IsKept(S, t)
    BY <1>2, SearchIsKept
  <2>2. QED
    BY <1>3, <1>4, <1>6, <1>8, <2>1 DEF Good
<1>9. ASSUME NEW u, GoodSearch(q, u) PROVE GoodSearch(n, u)
  <2>1. DOMAIN n.jobs = {u} /\ u = t
    BY <1>3, <1>6, <1>9 DEF GoodSearch
  <2>2. \A v \in DOMAIN n.found : IsSearchOf(n.found[v], v)
    BY <1>4, <1>6, <1>9 DEF GoodSearch
  <2>3. QED
    BY <1>4, <1>6, <2>1, <2>2 DEF GoodSearch
<1>10. DOMAIN n.found \subseteq DOMAIN n.jobs
  BY <1>3, <1>4, <1>6 DEF Good
<1>11. ASSUME q.at = "original" PROVE Good(n)
  <2>1. GoodSearch(n, n.text)
    BY <1>6, <1>9, <1>11 DEF Good
  <2>2. QED
    BY <1>6, <1>10, <1>11, <2>1 DEF Good
<1>12. ASSUME q.at = "corrected" PROVE Good(n)
  <2>1. GoodSearch(n, n.asked)
    BY <1>6, <1>9, <1>12 DEF Good
  <2>2. QED
    BY <1>6, <1>10, <1>12, <2>1 DEF Good
<1>13. QED
  BY <1>7, <1>8, <1>11, <1>12 DEF n

\* A suggestion's result comes from the cache.
LEMMA PeekGood ==
  ASSUME NEW q, Good(q), q.at = "parallel", NEW t \in DOMAIN q.jobs,
         NEW S \in SUBSET Docs, IsKept(S, t)
  PROVE  Good([q EXCEPT !.jobs[t] = "done",
                 !.found = Extend(@, t, S)])
<1>1. q \in Request /\ q.jobs \in JobMaps /\ q.found \in FoundMaps
  BY DEF Good, Request
<1>2. t \in Texts
  BY <1>1, MapTypes
<1> DEFINE f == [q.jobs EXCEPT ![t] = "done"]
           g == Extend(q.found, t, S)
<1>3. f \in JobMaps /\ DOMAIN f = DOMAIN q.jobs
  BY <1>1, JobSet DEF Jobs
<1> HIDE DEF f, g
<1>4. /\ g \in FoundMaps /\ DOMAIN g = DOMAIN q.found \cup {t} /\ g[t] = S
      /\ \A u \in DOMAIN q.found \ {t} : g[u] = q.found[u]
  <2>1. S \in SUBSET Docs
    OBVIOUS
  <2>2. QED
    BY <1>1, <1>2, <2>1, FoundSet, SMTT(30) DEF g
<1> DEFINE n == [q EXCEPT !.jobs[t] = "done",
                 !.found = Extend(@, t, S)]
<1>5. n = [q EXCEPT !.jobs = f, !.found = g]
  BY <1>1 DEF Request, f, g
<1> HIDE DEF n
<1>6. /\ n \in Request /\ n.at = q.at /\ n.text = q.text /\ n.filter = q.filter
      /\ n.corr = q.corr /\ n.jobs = f /\ n.found = g /\ n.hits = q.hits
  BY <1>1, <1>3, <1>4, <1>5 DEF Request
<1>7. Good(n)
  BY <1>3, <1>4, <1>6 DEF Good
<1>8. QED
  BY <1>7 DEF n
-----------------------------------------------------------------------------
(* The invariant.                                                          *)

LEMMA IdleGood == Good(Idle)
<1>1. Idle \in Request
  BY EmptyMaps DEF Idle, Request, Stages
<1>2. QED
  BY <1>1, EmptyMaps DEF Good, Idle

LEMMA InvInit == Init => SearchInv
  BY IdleGood, BoundsAssumption DEF Init, SearchInv

LEMMA ReqStep ==
  ASSUME SearchInv, NEW r \in Requests, NEW new, Good(new), Step(r, new)
  PROVE  /\ req' = [s \in Requests |-> req'[s]]
         /\ \A s \in Requests : Good(req'[s])
  BY DEF SearchInv, Step

LEMMA FaultStep == SearchInv /\ (Fault \/ NoFault) => faults' \in 0 .. MaxFaults
  BY BoundsAssumption DEF SearchInv, Fault, NoFault

\* A step that leaves tables alone keeps the invariant when the request's new
\* record is good.
LEMMA RequestStep ==
  ASSUME SearchInv, NEW r \in Requests, NEW new, Good(new), Step(r, new),
         Fault \/ NoFault, UNCHANGED <<table, cache, writes>>
  PROVE  SearchInv'
<1>1. /\ req' = [s \in Requests |-> req'[s]]
      /\ \A s \in Requests : Good(req'[s])
  BY ReqStep
<1>2. faults' \in 0 .. MaxFaults
  BY FaultStep
<1>3. QED
  BY <1>1, <1>2 DEF SearchInv

LEMMA CacheStep ==
  ASSUME SearchInv, NEW r \in Requests, NEW new, Good(new), Step(r, new),
         NEW t \in Texts, NEW S, IsKept(S, t),
         \/ cache' = [cache EXCEPT ![t] = S] /\ NoFault
         \/ Fault /\ UNCHANGED cache,
         UNCHANGED <<table, writes>>
  PROVE  SearchInv'
<1>1. /\ req' = [s \in Requests |-> req'[s]]
      /\ \A s \in Requests : Good(req'[s])
  BY ReqStep
<1>2. faults' \in 0 .. MaxFaults
  BY FaultStep
<1>3. QED
  BY <1>1, <1>2 DEF SearchInv

LEMMA GoodReq == ASSUME SearchInv, NEW r \in Requests PROVE Good(req[r])
  BY DEF SearchInv

LEMMA CacheFacts ==
  ASSUME SearchInv, NEW t \in Texts, cache[t] # NoEntry
  PROVE  IsKept(cache[t], t) /\ cache[t] \in SUBSET Docs
  BY KeptInDocs DEF SearchInv

LEMMA FindsFacts ==
  ASSUME SearchInv, NEW t \in Texts, NEW f \in Filters, NEW n \in {Window, Size},
         NEW S \in Cut(Finds(t, f), n)
  PROVE  IsSearchOf(S, t) /\ S \in SUBSET Docs
<1>1. Finds(t, f) \subseteq Hits(t)
  BY DEF Finds, Hits
<1>2. QED
  BY <1>1, CutIsSearch, HitsInDocs DEF IsSearchOf

LEMMA SearchingFacts ==
  ASSUME SearchInv, NEW r \in Requests, NEW t \in Texts, NEW job, Searching(r, t, job)
  PROVE  /\ t \in DOMAIN req[r].jobs
         /\ req[r].at \in {"original", "corrected", "parallel"}
         /\ req[r].text \in Texts /\ req[r].filter \in Filters
  BY GoodReq DEF Searching, Good

LEMMA OwnReach ==
  ASSUME NEW t \in Texts
  PROVE  t \in Reach(t) /\ TopSuggestions(Correction[t]) \subseteq Reach(t)
  BY DEF Reach
-----------------------------------------------------------------------------
(* The steps.                                                              *)

LEMMA BeginStep == ASSUME SearchInv, NEW r \in Requests, Begin(r) PROVE SearchInv'
<1>1. PICK query \in Queries[r] :
        Step(r, [Idle EXCEPT !.at = "lookup", !.text = query[1],
                             !.filter = query[2],
                             !.clean = Finds(query[1], query[2]) # {}])
  BY DEF Begin
<1>2. query[1] \in Texts /\ query[2] \in Filters
  BY QueriesAssumption
<1> DEFINE b == Finds(query[1], query[2]) # {}
           n == [Idle EXCEPT !.at = "lookup", !.text = query[1],
                             !.filter = query[2], !.clean = b]
<1>3. b \in BOOLEAN
  OBVIOUS
<1> HIDE DEF b
<1>4. /\ n \in Request /\ n.at = "lookup" /\ n.text = query[1]
      /\ n.filter = query[2] /\ n.jobs = <<>> /\ n.found = <<>>
      /\ n.corr = NoCorrection
  BY <1>2, <1>3, EmptyMaps DEF Idle, Request, Stages
<1>5. Good(n)
  <2> HIDE DEF n
  <2>1. QED
    BY <1>2, <1>4, EmptyMaps DEF Good
<1>6. Step(r, n) /\ NoFault /\ UNCHANGED <<table, cache, writes>>
  BY <1>1 DEF b, Begin, NoFault
<1> HIDE DEF n
<1>7. QED
  BY <1>5, <1>6, RequestStep

LEMMA HitStep == ASSUME SearchInv, NEW r \in Requests, Hit(r) PROVE SearchInv'
<1> DEFINE q == req[r]
           S == cache[Key(q.text)]
<1>1. Good(q) /\ q.at # "idle" /\ q.text \in Texts
  BY GoodReq DEF Hit, At, Good
<1>2. IsKept(S, q.text) /\ S \in SUBSET Docs
  BY <1>1, CacheFacts DEF Hit, Key
<1>3. S \subseteq Related(q.text)
  BY <1>1, <1>2, OwnReach, KeptIsRelated
<1>4. Good([Answer(q, S) EXCEPT !.clean = FALSE])
  BY <1>1, <1>2, <1>3, AnswerGood
<1>5. QED
  BY <1>4, RequestStep DEF Hit, NoFault

LEMMA MissStep == ASSUME SearchInv, NEW r \in Requests, Miss(r) PROVE SearchInv'
<1>1. Good(req[r]) /\ req[r].at # "idle"
  BY GoodReq DEF Miss, At
<1>2. Good(Execute(req[r], "original", req[r].text))
  BY <1>1, ExecuteGood
<1>3. QED
  BY <1>2, RequestStep DEF Miss

LEMMA EngineAnswersStep ==
  ASSUME SearchInv, NEW r \in Requests, NEW t \in Texts, EngineAnswers(r, t)
  PROVE  SearchInv'
<1>1. t \in DOMAIN req[r].jobs /\ req[r].filter \in Filters /\ Good(req[r])
  BY SearchingFacts, GoodReq DEF EngineAnswers
<1>2. PICK S \in Cut(Finds(t, req[r].filter), Window) : Step(r, Found(req[r], t, S))
  BY DEF EngineAnswers
<1>3. IsSearchOf(S, t) /\ S \in SUBSET Docs
  BY <1>1, FindsFacts
<1>4. Good(Found(req[r], t, S))
  BY <1>1, <1>3, FoundGood
<1>5. QED
  BY <1>2, <1>4, RequestStep DEF EngineAnswers, NoFault

LEMMA EngineFailsStep ==
  ASSUME SearchInv, NEW r \in Requests, NEW t \in Texts, EngineFails(r, t)
  PROVE  SearchInv'
<1>1. t \in DOMAIN req[r].jobs /\ Good(req[r])
  BY SearchingFacts, GoodReq DEF EngineFails
<1>2. Good([req[r] EXCEPT !.jobs[t] = "fallback", !.clean = FALSE])
  <2>1. "fallback" \in Jobs /\ "fallback" \notin {"keep", "done"}
    BY DEF Jobs
  <2>2. QED
    BY <1>1, <2>1, JobGood
<1>3. QED
  BY <1>2, RequestStep DEF EngineFails

LEMMA FallbackAnswersStep ==
  ASSUME SearchInv, NEW r \in Requests, NEW t \in Texts, FallbackAnswers(r, t)
  PROVE  SearchInv'
<1>1. t \in DOMAIN req[r].jobs /\ Good(req[r])
  BY SearchingFacts, GoodReq DEF FallbackAnswers
<1>2. PICK S \in Cut(Loose[t] \cap table, Size) : Step(r, Found(req[r], t, S))
  BY DEF FallbackAnswers
<1>3. IsSearchOf(S, t)
  <2>1. Loose[t] \cap table \subseteq Hits(t)
    BY DEF Hits
  <2>2. QED
    BY <2>1, CutIsSearch
<1>4. S \in SUBSET Docs
  BY <1>3, HitsInDocs DEF IsSearchOf
<1>5. Good(Found(req[r], t, S))
  BY <1>1, <1>3, <1>4, FoundGood
<1>6. QED
  BY <1>2, <1>5, RequestStep DEF FallbackAnswers, NoFault

LEMMA FallbackFailsStep ==
  ASSUME SearchInv, NEW r \in Requests, NEW t \in Texts, FallbackFails(r, t)
  PROVE  SearchInv'
<1>1. t \in DOMAIN req[r].jobs /\ Good(req[r])
  BY SearchingFacts, GoodReq DEF FallbackFails
<1>2. Good(Found(req[r], t, {}))
  BY <1>1, EmptyIsSearch, FoundGood
<1>3. QED
  BY <1>2, RequestStep DEF FallbackFails

\* The search of a stage has ended with its text's result.
LEMMA DoneFacts ==
  ASSUME SearchInv, NEW r \in Requests, JobsDone(r), NEW t, GoodSearch(req[r], t)
  PROVE  IsSearchOf(req[r].found[t], t) /\ req[r].found[t] \in SUBSET Docs
<1>1. t \in DOMAIN req[r].found
  BY DEF JobsDone, GoodSearch
<1>2. req[r] \in Request
  BY GoodReq DEF Good
<1>3. req[r].found[t] \subseteq Docs
  BY <1>1, <1>2, MapTypes
<1>4. QED
  BY <1>1, <1>3 DEF GoodSearch

LEMMA OriginalStep ==
  ASSUME SearchInv, NEW r \in Requests, Original(r) PROVE SearchInv'
<1> DEFINE q == req[r]
           hits == q.found[q.text]
<1>1. Good(q) /\ q.at # "idle" /\ q.text \in Texts
  BY GoodReq DEF Original, At, Good
<1>2. IsKept(hits, q.text) /\ hits \in SUBSET Docs
  <2>1. GoodSearch(q, q.text) /\ JobsDone(r)
    BY <1>1 DEF Original, At, Good
  <2>2. QED
    BY <1>1, <2>1, DoneFacts, SearchIsKept
<1>3. Good(Settle(q, "store", hits))
  BY <1>1, <1>2, SettleGood
<1>4. Good(Settle(q, "store", {}))
  <2>1. IsKept({}, q.text)
    BY <1>1, EmptyIsSearch, SearchIsKept
  <2>2. QED
    BY <1>1, <2>1, SettleGood
<1>5. Good([Settle(q, "store", {}) EXCEPT !.clean = FALSE])
  BY <1>4, CleanGood
<1>6. Correction[q.text] # NoCorrection =>
        Good(Execute([q EXCEPT !.corr = Correction[q.text]], "corrected",
                     Correction[q.text].to))
  BY <1>1, ExecuteGood
<1>7. PICK new : Good(new) /\ Step(r, new) /\ (Fault \/ NoFault)
  <2>1. CASE Step(r, Settle(q, "store", hits)) /\ NoFault
    BY <1>3, <2>1
  <2>2. CASE /\ Correction[q.text] # NoCorrection /\ NoFault
             /\ Step(r, Execute([q EXCEPT !.corr = Correction[q.text]],
                                "corrected", Correction[q.text].to))
    BY <1>6, <2>2
  <2>3. CASE Step(r, Settle(q, "store", {})) /\ NoFault
    BY <1>4, <2>3
  <2>4. CASE Step(r, [Settle(q, "store", {}) EXCEPT !.clean = FALSE]) /\ Fault
    BY <1>5, <2>4
  <2>5. QED
    BY <2>1, <2>2, <2>3, <2>4 DEF Original
<1>8. QED
  BY <1>7, RequestStep DEF Original

LEMMA CorrectedStep ==
  ASSUME SearchInv, NEW r \in Requests, Corrected(r) PROVE SearchInv'
<1> DEFINE q == req[r]
           hits == q.found[q.asked]
<1>1. Good(q) /\ q.at = "corrected" /\ q.text \in Texts /\ JobsDone(r)
  BY GoodReq DEF Corrected, At, Good
<1>2. /\ GoodSearch(q, q.asked)
      /\ Correction[q.text] # NoCorrection /\ q.asked = Correction[q.text].to
  BY <1>1 DEF Good
<1>3. IsSearchOf(hits, q.asked) /\ hits \in SUBSET Docs
  BY <1>1, <1>2, DoneFacts
<1>4. IsKept(hits, q.text)
  BY <1>1, <1>2, <1>3, CorrectionFacts DEF IsKept
<1>5. Good(Settle(q, "store", hits))
  BY <1>1, <1>3, <1>4, SettleGood
<1>6. QED
  BY <1>5, RequestStep DEF Corrected, NoFault

LEMMA StoreStep == ASSUME SearchInv, NEW r \in Requests, Store(r) PROVE SearchInv'
<1> DEFINE q == req[r]
           rank == [q EXCEPT !.at = "rank"]
           jobs == [t \in TopSuggestions(q.corr) |-> "peek"]
           parallel == [q EXCEPT !.at = "parallel", !.hits = {},
                            !.corr = NoCorrection, !.jobs = jobs]
<1>1. Good(q) /\ q.at = "store" /\ q.text \in Texts /\ IsKept(q.hits, q.text)
  BY GoodReq DEF Store, At, Good
<1>2. q \in Request /\ q.found \in FoundMaps /\ DOMAIN q.found = {}
  BY <1>1 DEF Good, Request
<1>3. Good(rank)
  <2>1. q.hits \subseteq Related(q.text)
    BY <1>1, OwnReach, KeptIsRelated
  <2>2. /\ rank \in Request /\ rank.at = "rank" /\ rank.text = q.text
        /\ rank.filter = q.filter /\ rank.corr = q.corr /\ rank.jobs = q.jobs
        /\ rank.found = q.found /\ rank.hits = q.hits
    BY <1>2 DEF Request, Stages
  <2> HIDE DEF rank
  <2>3. QED
    BY <1>1, <2>1, <2>2 DEF Good
<1>4. ASSUME Len(q.corr.high) > 1 PROVE Good(parallel)
  <2>1. q.corr = Correction[q.text]
    <3>1. Len(NoCorrection.high) = 0
      BY DEF NoCorrection
    <3>2. QED
      BY <1>1, <1>4, <3>1 DEF Good
  <2>2. /\ jobs \in JobMaps
        /\ DOMAIN jobs = TopSuggestions(Correction[q.text])
    <3>1. TopSuggestions(q.corr) \in SUBSET Texts
      BY <1>1, <2>1, CorrectionFacts
    <3>2. jobs \in [TopSuggestions(q.corr) -> Jobs]
      BY DEF Jobs
    <3>3. QED
      BY <2>1, <3>1, <3>2 DEF JobMaps
  <2> HIDE DEF jobs
  <2>3. /\ parallel \in Request /\ parallel.at = "parallel"
        /\ parallel.text = q.text /\ parallel.filter = q.filter
        /\ parallel.corr = NoCorrection /\ parallel.jobs = jobs
        /\ parallel.found = q.found
    BY <1>2, <2>2 DEF Request, Stages
  <2> HIDE DEF parallel
  <2>4. QED
    BY <1>1, <1>2, <2>2, <2>3 DEF Good
<1>5. PICK new : Good(new) /\ Step(r, new)
  <2>1. CASE Len(q.corr.high) > 1
    <3>1. Step(r, parallel)
      BY <2>1 DEF Store
    <3>2. QED
      BY <1>4, <2>1, <3>1
  <2>2. CASE ~(Len(q.corr.high) > 1)
    <3>1. Step(r, rank)
      BY <2>2 DEF Store
    <3>2. QED
      BY <1>3, <3>1
  <2>3. QED
    BY <2>1, <2>2
<1>6. QED
  BY <1>1, <1>5, CacheStep DEF Store, Key

LEMMA ParallelFacts ==
  ASSUME SearchInv, NEW r \in Requests, req[r].at = "parallel"
  PROVE  /\ Good(req[r])
         /\ \A t \in DOMAIN req[r].found :
                /\ req[r].found[t] \in SUBSET Docs
                /\ req[r].found[t] \subseteq Related(req[r].text)
<1> DEFINE q == req[r]
<1>1. Good(q) /\ q \in Request /\ q.text \in Texts
  BY GoodReq DEF Good
<1>2. ASSUME NEW t \in DOMAIN q.found PROVE t \in Reach(q.text) /\ IsKept(q.found[t], t)
  BY <1>1, <1>2, OwnReach DEF Good
<1>3. \A t \in DOMAIN q.found : q.found[t] \in SUBSET Docs
  BY <1>1, MapTypes
<1>4. QED
  BY <1>1, <1>2, <1>3, KeptIsRelated

LEMMA PeekStep ==
  ASSUME SearchInv, NEW r \in Requests, NEW t \in Texts, Peek(r, t)
  PROVE  SearchInv'
<1>1. Good(req[r]) /\ req[r].at = "parallel" /\ t \in DOMAIN req[r].jobs
  BY GoodReq DEF Peek, At
<1>2. CASE /\ cache[Key(t)] # NoEntry /\ NoFault
           /\ Step(r, [req[r] EXCEPT !.jobs[t] = "done",
                                     !.found = Extend(@, t, cache[Key(t)])])
  <2>1. cache[Key(t)] # NoEntry
    BY <1>2
  <2>2. IsKept(cache[Key(t)], t) /\ cache[Key(t)] \in SUBSET Docs
    BY <2>1, CacheFacts DEF Key
  <2>3. Good([req[r] EXCEPT !.jobs[t] = "done",
                            !.found = Extend(@, t, cache[Key(t)])])
    BY <1>1, <2>2, PeekGood
  <2>4. QED
    BY <1>2, <2>3, RequestStep DEF Peek
<1>3. CASE /\ Step(r, [req[r] EXCEPT !.jobs[t] = "engine"])
           /\ Fault \/ NoFault
  <2>1. "engine" \in Jobs /\ "engine" \notin {"keep", "done"}
    BY DEF Jobs
  <2>2. Good([req[r] EXCEPT !.jobs[t] = "engine"])
    BY <1>1, <2>1, JobGood
  <2>3. QED
    BY <1>3, <2>2, RequestStep DEF Peek
<1>4. QED
  BY <1>2, <1>3 DEF Peek

LEMMA OverdueStep ==
  ASSUME SearchInv, NEW r \in Requests, NEW t \in Texts, Overdue(r, t)
  PROVE  SearchInv'
<1>1. Good(req[r]) /\ req[r].at = "parallel" /\ t \in DOMAIN req[r].jobs
  BY GoodReq DEF Overdue, At, Searching
<1>2. Good([req[r] EXCEPT !.jobs[t] = "done", !.clean = FALSE])
  <2>1. "done" \in Jobs
    BY DEF Jobs
  <2>2. QED
    BY <1>1, <2>1, JobGood
<1>3. QED
  BY <1>2, RequestStep DEF Overdue

LEMMA KeepStep ==
  ASSUME SearchInv, NEW r \in Requests, NEW t \in Texts, Keep(r, t)
  PROVE  SearchInv'
<1>1. Good(req[r]) /\ t \in DOMAIN req[r].jobs /\ req[r].jobs[t] = "keep"
  BY GoodReq DEF Keep, Searching
<1>2. Good([req[r] EXCEPT !.jobs[t] = "done"])
  <2>1. "done" \in Jobs
    BY DEF Jobs
  <2>2. QED
    BY <1>1, <2>1, JobGood
<1>3. IsKept({}, t)
  BY EmptyIsSearch, SearchIsKept
<1>4. QED
  BY <1>2, <1>3, CacheStep DEF Keep, Key

LEMMA MergeStep == ASSUME SearchInv, NEW r \in Requests, Merge(r) PROVE SearchInv'
<1> DEFINE q == req[r]
           all == UNION {q.found[t] : t \in DOMAIN q.found}
<1>1. q.at = "parallel"
  BY DEF Merge, At
<1>2. Good(q) /\ all \subseteq Docs /\ all \subseteq Related(q.text)
  BY <1>1, ParallelFacts
<1>3. PICK S \in Cut(all, Size) : Step(r, Settle(q, "rank", S))
  BY DEF Merge
<1>4. S \in SUBSET Docs /\ S \subseteq Related(q.text)
  BY <1>2 DEF Cut
<1>5. Good(Settle(q, "rank", S))
  BY <1>1, <1>2, <1>4, SettleGood
<1>6. QED
  BY <1>3, <1>5, RequestStep DEF Merge, NoFault

LEMMA RankStep == ASSUME SearchInv, NEW r \in Requests, Rank(r) PROVE SearchInv'
<1> DEFINE q == req[r]
           n == [q EXCEPT !.at = "simplify"]
<1>1. Good(q) /\ q.at = "rank" /\ q.hits \subseteq Related(q.text)
  BY GoodReq DEF Rank, At, Good
<1>2. q \in Request /\ q.hits \in SUBSET Docs
  BY <1>1 DEF Good, Request
<1>3. Simpler(q) => Good(n)
  <2>1. /\ n \in Request /\ n.at = "simplify" /\ n.text = q.text
        /\ n.filter = q.filter /\ n.corr = q.corr /\ n.jobs = q.jobs
        /\ n.found = q.found /\ n.hits = q.hits
    BY <1>2 DEF Request, Stages
  <2>2. Simpler(q) => Simplified[q.text] \in Texts
    BY <1>1, CorrectionAssumption DEF Simpler, Good
  <2> HIDE DEF n
  <2>3. QED
    BY <1>1, <2>1, <2>2 DEF Good
<1>4. Good(Answer(q, {}))
  BY <1>1, AnswerGood
<1>5. ASSUME NEW S \in Cut(q.hits, Size) PROVE Good(Answer(q, S))
  <2>1. S \in SUBSET Docs /\ S \subseteq Related(q.text)
    BY <1>1, <1>2 DEF Cut
  <2>2. QED
    BY <1>1, <2>1, AnswerGood
<1>6. PICK new : Good(new) /\ Step(r, new) /\ (Fault \/ NoFault)
  BY <1>3, <1>4, <1>5 DEF Rank
<1>7. QED
  BY <1>6, RequestStep DEF Rank

LEMMA SimplifyStep ==
  ASSUME SearchInv, NEW r \in Requests, Simplify(r) PROVE SearchInv'
<1> DEFINE q == req[r]
           s == Simplified[q.text]
<1>1. Good(q) /\ q.at = "simplify" /\ q.text \in Texts /\ q.filter \in Filters
  BY GoodReq DEF Simplify, At, Good
<1>2. CASE Step(r, [Answer(q, {}) EXCEPT !.at = "failed"]) /\ Fault
  <2>1. Good([Answer(q, {}) EXCEPT !.at = "failed"])
    BY <1>1, AnswerGood
  <2>2. QED
    BY <1>2, <2>1, RequestStep DEF Simplify
<1>3. ASSUME NEW S \in Cut(Finds(s, q.filter), Size), Step(r, Answer(q, S)), NoFault,
             s \in Texts
      PROVE  SearchInv'
  <2>1. IsSearchOf(S, s) /\ S \in SUBSET Docs
    BY <1>1, <1>3, FindsFacts
  <2>2. s \in Reach(q.text)
    BY <1>3, CorrectionAssumption DEF Reach
  <2>3. S \subseteq Related(q.text)
    BY <1>1, <1>3, <2>1, <2>2, SearchIsKept, KeptIsRelated
  <2>4. Good(Answer(q, S))
    BY <1>1, <2>1, <2>3, AnswerGood
  <2>5. QED
    BY <1>3, <2>4, RequestStep DEF Simplify
<1>4. s \in Texts
  BY <1>1 DEF Good
<1>5. QED
  BY <1>2, <1>3, <1>4 DEF Simplify

LEMMA WriteStep == ASSUME SearchInv, NEW d \in Docs, Write(d) PROVE SearchInv'
<1>1. table' \subseteq Docs /\ writes' \in 0 .. MaxWrites
  BY BoundsAssumption DEF Write, SearchInv
<1>2. ASSUME NEW r \in Requests PROVE Good(req'[r])
  <2> DEFINE b == /\ req[r].clean
                  /\ Match[req[r].text] \cap Passes[req[r].filter] \cap table' # {}
  <2>1. req'[r] = [req[r] EXCEPT !.clean = b]
    <3>1. req'[r] = [req[r] EXCEPT !.clean =
                  /\ @
                  /\ Match[req[r].text] \cap Passes[req[r].filter] \cap table' # {}]
      BY DEF Write
    <3>2. req[r] \in Request
      BY GoodReq DEF Good
    <3>3. QED
      BY <3>1, <3>2 DEF Request
  <2>2. b \in BOOLEAN
    OBVIOUS
  <2> HIDE DEF b
  <2>3. QED
    BY <2>1, <2>2, GoodReq, CleanGood
<1>3. req' = [r \in Requests |-> req'[r]]
  BY DEF Write
<1>4. QED
  BY <1>1, <1>2, <1>3 DEF SearchInv, Write

LEMMA ExpireStep == ASSUME SearchInv, NEW t \in Texts, Expire(t) PROVE SearchInv'
  BY DEF SearchInv, Expire

LEMMA InvStep == SearchInv /\ [Next]_vars => SearchInv'
<1> SUFFICES ASSUME SearchInv, [Next]_vars PROVE SearchInv'
  OBVIOUS
<1>1. CASE UNCHANGED vars
  BY <1>1 DEF vars, SearchInv
<1>2. ASSUME NEW r \in Requests, NEW t \in Texts,
             \/ EngineAnswers(r, t) \/ EngineFails(r, t)
             \/ FallbackAnswers(r, t) \/ FallbackFails(r, t)
             \/ Peek(r, t) \/ Overdue(r, t) \/ Keep(r, t)
      PROVE  SearchInv'
  BY <1>2, EngineAnswersStep, EngineFailsStep, FallbackAnswersStep,
     FallbackFailsStep, PeekStep, OverdueStep, KeepStep
<1>3. ASSUME NEW r \in Requests, Begin(r) \/ Handle(r) PROVE SearchInv'
  BY <1>2, <1>3, BeginStep, HitStep, MissStep, OriginalStep, CorrectedStep,
     StoreStep, MergeStep, RankStep, SimplifyStep DEF Handle
<1>4. ASSUME NEW d \in Docs, Write(d) PROVE SearchInv'
  BY <1>4, WriteStep
<1>5. ASSUME NEW t \in Texts, Expire(t) PROVE SearchInv'
  BY <1>5, ExpireStep
<1>6. QED
  BY <1>1, <1>3, <1>4, <1>5 DEF Next

LEMMA Invariance == Spec => []SearchInv
  BY InvInit, InvStep, PTL DEF Spec
-----------------------------------------------------------------------------
(* Hits of the text itself.                                                 *)

\* The documents of the filter that match the text.
Own(q) == Match[q.text] \cap Passes[q.filter]

\* A request that is clean has searched for its text only, and holds what that
\* search found.
First(q) ==
    q.clean =>
        /\ q.at \in {"lookup", "original", "store", "rank", "answered"}
        /\ q.corr = NoCorrection
        /\ q.at = "original" =>
              /\ \A t \in DOMAIN q.jobs : q.jobs[t] \in {"engine", "done"}
              /\ \A t \in DOMAIN q.found : q.found[t] # {} /\ q.found[t] \subseteq Own(q)
        /\ q.at \in {"store", "rank", "answered"} => q.hits # {} /\ q.hits \subseteq Own(q)
        /\ q.at = "answered" => Cardinality(q.hits) <= Size

FirstNow ==
    \A r \in Requests : /\ First(req[r])
                        /\ req[r].clean => Own(req[r]) \cap table # {}

LEMMA CutNotEmpty ==
  ASSUME NEW R, R # {}, NEW n \in {Window, Size}, NEW S \in Cut(R, n)
  PROVE  S # {}
<1>1. n \in Nat \ {0}
  BY BoundsAssumption DEF Window
<1>2. Cardinality({}) = 0
  BY FS_EmptySet
<1>3. QED
  BY <1>1, <1>2 DEF Cut

\* A request stays the one it is until it begins anew, and once it has met a
\* failure or an entry it is not clean any more.
LEMMA Handling ==
  ASSUME SearchInv, NEW r \in Requests, Handle(r)
  PROVE  /\ table' = table
         /\ \A s \in Requests \ {r} : req'[s] = req[s]
         /\ req'[r].text = req[r].text /\ req'[r].filter = req[r].filter
         /\ req'[r].clean => req[r].clean
<1> DEFINE q == req[r]
           Same(n) == n.text = q.text /\ n.filter = q.filter /\ (n.clean => q.clean)
<1>1. q \in Request /\ req = [s \in Requests |-> req[s]]
  BY GoodReq DEF Good, SearchInv
<1>2. ASSUME NEW n, Step(r, n), Same(n), UNCHANGED table
      PROVE  /\ table' = table
             /\ \A s \in Requests \ {r} : req'[s] = req[s]
             /\ req'[r].text = q.text /\ req'[r].filter = q.filter
             /\ req'[r].clean => q.clean
  BY <1>1, <1>2 DEF Step
<1>3. \A p \in Request : \A stage, S : /\ Settle(p, stage, S).text = p.text
                                       /\ Settle(p, stage, S).filter = p.filter
                                       /\ Settle(p, stage, S).clean = p.clean
                                       /\ [Settle(p, stage, S) EXCEPT !.clean = FALSE].text = p.text
                                       /\ [Settle(p, stage, S) EXCEPT !.clean = FALSE].filter = p.filter
                                       /\ [Settle(p, stage, S) EXCEPT !.clean = FALSE].clean = FALSE
  BY DEF Settle, Request
<1>4. \A S : /\ Answer(q, S).text = q.text /\ Answer(q, S).filter = q.filter
             /\ Answer(q, S).clean = q.clean
             /\ Same([Answer(q, S) EXCEPT !.clean = FALSE])
             /\ Same([Answer(q, S) EXCEPT !.at = "failed"])
  BY <1>1 DEF Answer, Request
<1>5. \A stage, t, c : /\ Same(Execute(q, stage, t))
                       /\ Same(Execute([q EXCEPT !.corr = c], stage, t))
  BY <1>1 DEF Execute, Request
<1>6. \A t, job : /\ Same([q EXCEPT !.jobs[t] = job])
                  /\ Same([q EXCEPT !.jobs[t] = job, !.clean = FALSE])
  BY <1>1 DEF Request
<1>7. \A t, S : /\ Same(Found(q, t, S))
                /\ Same([q EXCEPT !.jobs[t] = "done", !.found = Extend(@, t, S)])
  BY <1>1 DEF Found, Request
<1>8. CASE Hit(r)
  BY <1>2, <1>4, <1>8 DEF Hit
<1>9. CASE Miss(r)
  BY <1>2, <1>5, <1>9 DEF Miss
<1>10. CASE Original(r)
  <2>1. \A S : /\ Same(Settle(q, "store", S))
               /\ Same([Settle(q, "store", S) EXCEPT !.clean = FALSE])
    BY <1>1, <1>3
  <2>2. \E n : Step(r, n) /\ Same(n)
    <3>1. CASE \E S : Step(r, Settle(q, "store", S))
      BY <2>1, <3>1
    <3>2. CASE \E t, c : Step(r, Execute([q EXCEPT !.corr = c], "corrected", t))
      BY <1>5, <3>2
    <3>3. CASE \E S : Step(r, [Settle(q, "store", S) EXCEPT !.clean = FALSE])
      BY <2>1, <3>3
    <3>4. QED
      BY <1>10, <3>1, <3>2, <3>3 DEF Original
  <2>3. QED
    BY <1>2, <1>10, <2>2 DEF Original
<1>11. CASE Corrected(r)
  BY <1>1, <1>2, <1>3, <1>11 DEF Corrected
<1>12. CASE Store(r)
  <2>1. \A jobs : Same([q EXCEPT !.at = "parallel", !.hits = {}, !.corr = NoCorrection,
                                 !.jobs = jobs])
    BY <1>1 DEF Request
  <2>2. Same([q EXCEPT !.at = "rank"])
    BY <1>1 DEF Request
  <2>3. QED
    BY <1>2, <1>12, <2>1, <2>2 DEF Store
<1>13. CASE Merge(r)
  BY <1>1, <1>2, <1>3, <1>13 DEF Merge
<1>14. CASE Rank(r)
  <2>1. Same([q EXCEPT !.at = "simplify"])
    BY <1>1 DEF Request
  <2>2. QED
    BY <1>2, <1>4, <1>14, <2>1 DEF Rank
<1>15. CASE Simplify(r)
  BY <1>2, <1>4, <1>15 DEF Simplify
<1>16. ASSUME NEW t \in Texts, EngineAnswers(r, t) \/ FallbackAnswers(r, t)
       PROVE  \E n : Step(r, n) /\ Same(n) /\ UNCHANGED table
  BY <1>7, <1>16 DEF EngineAnswers, FallbackAnswers
<1>17. ASSUME NEW t \in Texts, EngineFails(r, t) \/ FallbackFails(r, t)
       PROVE  \E n : Step(r, n) /\ Same(n) /\ UNCHANGED table
  BY <1>6, <1>7, <1>17 DEF EngineFails, FallbackFails
<1>18. ASSUME NEW t \in Texts, Peek(r, t) \/ Overdue(r, t) \/ Keep(r, t)
       PROVE  \E n : Step(r, n) /\ Same(n) /\ UNCHANGED table
  <2>1. CASE Peek(r, t)
    <3>1. \/ \E S : Step(r, [q EXCEPT !.jobs[t] = "done", !.found = Extend(@, t, S)])
          \/ \E job : Step(r, [q EXCEPT !.jobs[t] = job])
          \/ \E job : Step(r, [q EXCEPT !.jobs[t] = job, !.clean = FALSE])
      BY <2>1 DEF Peek
    <3>2. UNCHANGED table
      BY <2>1 DEF Peek
    <3> HIDE DEF Same
    <3>3. QED
      BY <1>6, <1>7, <3>1, <3>2
  <2>2. CASE Overdue(r, t)
    BY <1>6, <2>2 DEF Overdue
  <2>3. CASE Keep(r, t)
    BY <1>6, <2>3 DEF Keep
  <2>4. QED
    BY <1>18, <2>1, <2>2, <2>3
<1>19. ASSUME NEW t \in Texts,
              \/ EngineAnswers(r, t) \/ EngineFails(r, t)
              \/ FallbackAnswers(r, t) \/ FallbackFails(r, t)
              \/ Peek(r, t) \/ Overdue(r, t) \/ Keep(r, t)
       PROVE  /\ table' = table
              /\ \A s \in Requests \ {r} : req'[s] = req[s]
              /\ req'[r].text = q.text /\ req'[r].filter = q.filter
              /\ req'[r].clean => q.clean
  <2>1. \E n : Step(r, n) /\ Same(n) /\ UNCHANGED table
    <3> HIDE DEF Same
    <3>1. QED
      BY <1>16, <1>17, <1>18, <1>19
  <2>2. QED
    BY <1>2, <2>1
<1>20. QED
  BY <1>8, <1>9, <1>10, <1>11, <1>12, <1>13, <1>14, <1>15, <1>19 DEF Handle

\* A clean request's next state holds hits of its text, if any.
LEMMA FirstHandled ==
  ASSUME SearchInv, FirstNow, NEW r \in Requests, Handle(r), req'[r].clean
  PROVE  First(req'[r])
<1> DEFINE q == req[r]
           n == req'[r]
<1>1. /\ q \in Request /\ Good(q) /\ q.clean /\ First(q)
      /\ Own(q) \cap table # {} /\ Own(n) = Own(q)
      /\ req = [s \in Requests |-> req[s]]
  BY GoodReq, Handling DEF Good, SearchInv, FirstNow, Own
<1>2. /\ q.at \in {"lookup", "original", "store", "rank", "answered"}
      /\ q.corr = NoCorrection
  BY <1>1 DEF First
<1>3. \A new : Step(r, new) => n = new
  BY <1>1 DEF Step
<1> HIDE DEF n
<1>4. ~Hit(r)
  <2>1. \A S : ~[Answer(q, S) EXCEPT !.clean = FALSE].clean
    BY <1>1 DEF Answer, Request
  <2>2. QED
    BY <1>3, <2>1 DEF Hit, n
<1>5. ASSUME Miss(r) PROVE First(n)
  <2>1. n = Execute(q, "original", q.text)
    BY <1>3, <1>5 DEF Miss
  <2>2. /\ n.at = "original" /\ n.corr = q.corr /\ n.found = <<>>
        /\ n.jobs = [t \in {q.text} |-> "engine"]
    BY <1>1, <2>1 DEF Execute, Request
  <2>3. QED
    BY <1>2, <2>2, EmptyMaps DEF First
<1>6. ASSUME Original(r) PROVE First(n)
  <2>1. q.at = "original" /\ JobsDone(r) /\ GoodSearch(q, q.text)
    BY <1>1, <1>6 DEF Original, At, Good
  <2>2. q.text \in DOMAIN q.found
    BY <2>1 DEF JobsDone, GoodSearch
  <2>3. q.found[q.text] # {} /\ q.found[q.text] \subseteq Own(q)
    BY <1>1, <2>1, <2>2 DEF First
  <2>4. n = Settle(q, "store", q.found[q.text])
    BY <1>3, <1>6, <2>3 DEF Original
  <2>5. n.at = "store" /\ n.corr = q.corr /\ n.hits = q.found[q.text]
    BY <1>1, <2>4 DEF Settle, Request
  <2>6. QED
    BY <1>1, <1>2, <2>3, <2>5 DEF First
<1>7. ASSUME Store(r) PROVE First(n)
  <2>1. q.at = "store" /\ ~(Len(q.corr.high) > 1)
    BY <1>2, <1>7 DEF Store, At, NoCorrection
  <2>2. n = [q EXCEPT !.at = "rank"]
    BY <1>3, <1>7, <2>1 DEF Store
  <2>3. n.at = "rank" /\ n.corr = q.corr /\ n.hits = q.hits
    BY <1>1, <2>2 DEF Request
  <2>4. QED
    BY <1>1, <1>2, <2>1, <2>3 DEF First
<1>8. ASSUME Rank(r) PROVE First(n)
  <2>1. q.at = "rank" /\ q.hits # {} /\ q.hits \subseteq Own(q)
    BY <1>1, <1>8 DEF Rank, At, First
  <2>2. PICK S \in Cut(q.hits, Size) : n = Answer(q, S)
    BY <1>3, <1>8, <2>1 DEF Rank
  <2>3. S # {} /\ S \subseteq Own(q) /\ Cardinality(S) <= Size
    BY <2>1, CutNotEmpty DEF Cut
  <2>4. n.at = "answered" /\ n.corr = NoCorrection /\ n.hits = S
    BY <1>1, <2>2 DEF Answer, Request
  <2>5. QED
    BY <1>1, <2>3, <2>4 DEF First
<1>9. ASSUME NEW t \in Texts, EngineAnswers(r, t) PROVE First(n)
  <2>1. q.at = "original" /\ t \in DOMAIN q.jobs /\ t = q.text
    BY <1>1, <1>2, <1>9, SearchingFacts DEF EngineAnswers, Good, GoodSearch
  <2>2. PICK S \in Cut(Finds(t, q.filter), Window) : n = Found(q, t, S)
    BY <1>3, <1>9 DEF EngineAnswers
  <2>3. S # {} /\ S \subseteq Own(q)
    <3>1. Finds(t, q.filter) # {} /\ Finds(t, q.filter) \subseteq Own(q)
      BY <1>1, <2>1 DEF Finds, Own
    <3>2. S # {}
      BY <3>1, CutNotEmpty
    <3>3. QED
      BY <3>1, <3>2 DEF Cut
  <2>4. /\ n.at = "original" /\ n.corr = q.corr
        /\ n.jobs = [q.jobs EXCEPT ![t] = "done"]
        /\ n.found = Extend(q.found, t, S)
    BY <1>1, <2>1, <2>2, <2>3 DEF Found, Request
  <2>5. \A u \in DOMAIN n.jobs : n.jobs[u] \in {"engine", "done"}
    BY <1>1, <2>1, <2>4, MapTypes DEF First
  <2>6. \A u \in DOMAIN n.found : n.found[u] # {} /\ n.found[u] \subseteq Own(q)
    BY <1>1, <2>1, <2>3, <2>4 DEF First, Extend
  <2>7. QED
    BY <1>1, <1>2, <2>4, <2>5, <2>6 DEF First
<1>10. ASSUME NEW t \in Texts PROVE ~EngineFails(r, t)
  <2>1. ~[q EXCEPT !.jobs[t] = "fallback", !.clean = FALSE].clean
    BY <1>1 DEF Request
  <2>2. QED
    BY <1>3, <2>1 DEF EngineFails, n
<1>11. ASSUME NEW t \in Texts, NEW job \in {"fallback", "keep"} PROVE ~Searching(r, t, job)
  <2> SUFFICES ASSUME Searching(r, t, job) PROVE FALSE
    OBVIOUS
  <2>1. t \in DOMAIN q.jobs /\ q.at \in {"original", "corrected", "parallel"}
    BY SearchingFacts
  <2>2. q.at = "original" /\ q.jobs[t] = job
    BY <1>2, <2>1 DEF Searching
  <2>3. QED
    BY <1>1, <2>1, <2>2 DEF First
<1>12. ~Corrected(r) /\ ~Merge(r) /\ ~Simplify(r)
       /\ \A t \in Texts : ~Peek(r, t) /\ ~Overdue(r, t)
  BY <1>2 DEF Corrected, Merge, Simplify, Peek, Overdue, At
<1>13. QED
  BY <1>4, <1>5, <1>6, <1>7, <1>8, <1>9, <1>10, <1>11, <1>12
     DEF Handle, FallbackAnswers, FallbackFails, Keep, n

LEMMA FirstStep ==
  ASSUME SearchInv, FirstNow, [Next]_vars
  PROVE  FirstNow'
<1>1. CASE UNCHANGED vars
  BY <1>1 DEF vars, FirstNow, First, Own
<1>2. ASSUME NEW r \in Requests, Begin(r) PROVE FirstNow'
  <2>1. PICK query \in Queries[r] :
          Step(r, [Idle EXCEPT !.at = "lookup", !.text = query[1], !.filter = query[2],
                               !.clean = Finds(query[1], query[2]) # {}])
    BY <1>2 DEF Begin
  <2>2. /\ req'[r].at = "lookup" /\ req'[r].corr = NoCorrection
        /\ req'[r].text = query[1] /\ req'[r].filter = query[2]
        /\ req'[r].clean = (Finds(query[1], query[2]) # {})
        /\ \A s \in Requests \ {r} : req'[s] = req[s]
    BY <2>1 DEF Step, Idle, SearchInv
  <2>3. table' = table
    BY <1>2 DEF Begin
  <2>4. First(req'[r]) /\ (req'[r].clean => Own(req'[r]) \cap table' # {})
    BY <2>2, <2>3 DEF First, Own, Finds
  <2>5. QED
    BY <2>2, <2>3, <2>4 DEF FirstNow, First, Own
<1>3. ASSUME NEW r \in Requests, Handle(r) PROVE FirstNow'
  <2>1. First(req'[r])
    BY <1>3, FirstHandled DEF First
  <2>2. req'[r].clean => Own(req'[r]) \cap table' # {}
    BY <1>3, Handling DEF FirstNow, Own
  <2>3. QED
    BY <1>3, <2>1, <2>2, Handling DEF FirstNow, First, Own
<1>4. ASSUME NEW d \in Docs, Write(d) PROVE FirstNow'
  <2> SUFFICES ASSUME NEW r \in Requests
               PROVE  /\ First(req'[r])
                      /\ req'[r].clean => Own(req'[r]) \cap table' # {}
    BY DEF FirstNow, First, Own
  <2> DEFINE q == req[r]
             n == req'[r]
  <2>1. q \in Request /\ First(q)
    BY GoodReq DEF Good, FirstNow
  <2>2. n = [q EXCEPT !.clean = /\ @
                                /\ Match[q.text] \cap Passes[q.filter] \cap table' # {}]
    BY <1>4 DEF Write
  <2>3. /\ n.at = q.at /\ n.text = q.text /\ n.filter = q.filter /\ n.corr = q.corr
        /\ n.jobs = q.jobs /\ n.found = q.found /\ n.hits = q.hits
        /\ n.clean => q.clean /\ Match[q.text] \cap Passes[q.filter] \cap table' # {}
    BY <2>1, <2>2 DEF Request
  <2> HIDE DEF n, q
  <2>4. QED
    BY <2>1, <2>3 DEF First, Own, n
<1>5. ASSUME NEW t \in Texts, Expire(t) PROVE FirstNow'
  BY <1>5 DEF Expire, FirstNow, First, Own
<1>6. QED
  BY <1>1, <1>2, <1>3, <1>4, <1>5 DEF Next

-----------------------------------------------------------------------------
(* The theorems.                                                           *)

\* The state has its shape, for any clients, documents and texts.
THEOREM SearchTypeCorrect == Spec => []TypeOK
<1>1. SearchInv => TypeOK
  <2> SUFFICES ASSUME SearchInv PROVE TypeOK
    OBVIOUS
  <2>1. \A t \in Texts : cache[t] = NoEntry \/ cache[t] \subseteq Docs
    BY KeptInDocs DEF SearchInv
  <2>2. ASSUME NEW r \in Requests
        PROVE  /\ req[r].at \in Stages
               /\ req[r].text \in Texts \cup {NoText}
               /\ req[r].asked \in Texts \cup {NoText}
               /\ req[r].corr \in {Correction[t] : t \in Texts} \cup {NoCorrection}
               /\ DOMAIN req[r].jobs \subseteq Texts
               /\ \A t \in DOMAIN req[r].jobs : req[r].jobs[t] \in Jobs
               /\ DOMAIN req[r].found \subseteq DOMAIN req[r].jobs
               /\ \A t \in DOMAIN req[r].found : req[r].found[t] \subseteq Docs
               /\ req[r].hits \subseteq Docs
    <3>1. req[r] \in Request /\ DOMAIN req[r].found \subseteq DOMAIN req[r].jobs
      BY GoodReq DEF Good
    <3>2. /\ req[r].at \in Stages
          /\ req[r].text \in Texts \cup {NoText}
          /\ req[r].asked \in Texts \cup {NoText}
          /\ req[r].corr \in {Correction[t] : t \in Texts} \cup {NoCorrection}
          /\ req[r].hits \subseteq Docs
      BY <3>1 DEF Request
    <3>3. QED
      BY <3>1, <3>2, MapTypes
  <2>3. QED
    BY <2>1, <2>2 DEF TypeOK, SearchInv
<1>2. QED
  BY <1>1, Invariance, PTL

\* An entry of the cache is the result of one search for its text or for its
\* correction, whatever clients, failures, writes and expiries there are.
THEOREM CachedIsOneSearch == Spec => []CacheHoldsSearches
<1>1. SearchInv => CacheHoldsSearches
  BY DEF SearchInv, CacheHoldsSearches, IsKept
<1>2. QED
  BY <1>1, Invariance, PTL

\* What a client is answered has to do with the text it asked for.
THEOREM AnsweredIsRelated == Spec => []AnswersAreRelated
<1>1. SearchInv => AnswersAreRelated
  BY GoodReq DEF AnswersAreRelated, At, Good
<1>2. QED
  BY <1>1, Invariance, PTL

\* While the text has hits, an answer without failures is of such hits and is
\* not empty, for any corrections, suggestions and simpler queries, and any
\* writes and requests of others.
THEOREM OwnHitsComeFirst == Spec => []OriginalFirst
<1>1. Init => FirstNow
  BY DEF Init, FirstNow, First, Idle
<1>2. SearchInv /\ FirstNow /\ [Next]_vars => FirstNow'
  BY FirstStep
<1>3. FirstNow => OriginalFirst
  BY DEF FirstNow, First, Own, OriginalFirst
<1>4. QED
  BY <1>1, <1>2, <1>3, Invariance, PTL DEF Spec
-----------------------------------------------------------------------------
(* What a query says of a place.                                           *)

\* The members of S up to i, and how many there are: the place of i in S.
UpTo(S, i) == {j \in S : j <= i}
PlaceIn(S, i) == Cardinality(UpTo(S, i))

\* Different members of a finite set of numbers have different places, and so
\* every place is taken.
LEMMA NumbersHavePlaces ==
    ASSUME NEW S \in SUBSET Int, IsFiniteSet(S)
    PROVE  /\ Cardinality(S) \in Nat
           /\ \A i \in S : PlaceIn(S, i) \in 1 .. Cardinality(S)
           /\ \A i, j \in S : PlaceIn(S, i) = PlaceIn(S, j) => i = j
           /\ \A k \in 1 .. Cardinality(S) : \E i \in S : PlaceIn(S, i) = k
<1> DEFINE N == Cardinality(S)
           place == [i \in S |-> PlaceIn(S, i)]
<1>1. N \in Nat
  BY FS_CardinalityType
<1>2. ASSUME NEW i \in S PROVE PlaceIn(S, i) \in 1 .. N
  <2>1. UpTo(S, i) \in SUBSET S /\ UpTo(S, i) # {}
    BY DEF UpTo
  <2>2. IsFiniteSet(UpTo(S, i)) /\ Cardinality(UpTo(S, i)) <= N
    BY <2>1, FS_Subset
  <2>3. Cardinality(UpTo(S, i)) \in Nat /\ Cardinality(UpTo(S, i)) # 0
    BY <2>1, <2>2, FS_CardinalityType, FS_EmptySet
  <2> QED  BY <1>1, <2>2, <2>3 DEF PlaceIn
<1>3. ASSUME NEW i \in S, NEW j \in S, i < j PROVE PlaceIn(S, i) # PlaceIn(S, j)
  <2>1. UpTo(S, i) \in SUBSET UpTo(S, j) /\ UpTo(S, i) # UpTo(S, j)
    <3>1. j \in UpTo(S, j) /\ j \notin UpTo(S, i)
      BY <1>3 DEF UpTo
    <3>2. \A l \in S : l <= i => l <= j
      BY <1>3
    <3> QED  BY <3>1, <3>2 DEF UpTo
  <2>2. IsFiniteSet(UpTo(S, j))
    BY FS_Subset DEF UpTo
  <2> QED  BY <2>1, <2>2, FS_Subset DEF PlaceIn
<1>4. ASSUME NEW i \in S, NEW j \in S, PlaceIn(S, i) = PlaceIn(S, j) PROVE i = j
  <2>1. ~(i < j) /\ ~(j < i)
    BY <1>3, <1>4
  <2> QED  BY <2>1
<1>5. place \in Surjection(S, 1 .. N)
  <2>1. place \in [S -> 1 .. N]
    <3> HIDE DEF N
    <3> QED  BY <1>2
  <2>2. place \in Injection(S, 1 .. N)
    BY <1>4, <2>1 DEF Injection, IsInjective
  <2>3. IsFiniteSet(1 .. N) /\ Cardinality(1 .. N) = N
    BY <1>1, FS_Interval
  <2> QED  BY <2>2, <2>3, FS_Injection
<1>6. ASSUME NEW k \in 1 .. N PROVE \E i \in S : PlaceIn(S, i) = k
  <2>1. PICK i \in S : place[i] = k
    BY <1>5 DEF Surjection
  <2> QED  BY <2>1
<1> QED  BY <1>1, <1>2, <1>4, <1>6

\* A finite set of numbers has a least and a greatest one.
LEMMA Bounds ==
    ASSUME NEW S \in SUBSET Int, IsFiniteSet(S), S # {}
    PROVE  /\ Min(S) \in S
           /\ \A j \in S : Min(S) <= j
           /\ Max(S) \in S
           /\ \A j \in S : j <= Max(S)
<1>1. Cardinality(S) \in Nat /\ Cardinality(S) # 0
  BY FS_CardinalityType, FS_EmptySet
<1>2. \E i \in S : \A j \in S : i =< j
  <2>1. PICK i \in S : PlaceIn(S, i) = 1
    BY <1>1, NumbersHavePlaces
  <2>2. IsFiniteSet(UpTo(S, i)) /\ {i} \in SUBSET UpTo(S, i)
    BY FS_Subset DEF UpTo
  <2>3. Cardinality({i}) = 1
    BY FS_Singleton
  <2>4. UpTo(S, i) = {i}
    BY <2>1, <2>2, <2>3, FS_Subset DEF PlaceIn
  <2> QED  BY <2>4 DEF UpTo
<1>3. \E i \in S : \A j \in S : i >= j
  <2>1. PICK i \in S : PlaceIn(S, i) = Cardinality(S)
    BY <1>1, NumbersHavePlaces
  <2>2. UpTo(S, i) \in SUBSET S
    BY DEF UpTo
  <2>3. UpTo(S, i) = S
    BY <2>1, <2>2, FS_Subset DEF PlaceIn
  <2> QED  BY <2>3 DEF UpTo
<1>4. Min(S) \in S /\ \A j \in S : Min(S) <= j
  BY <1>2 DEF Min
<1>5. Max(S) \in S /\ \A j \in S : Max(S) >= j
  BY <1>3 DEF Max
<1> QED  BY <1>4, <1>5

\* A function of the numbers up to n is a list.
LEMMA FunctionIsList ==
    ASSUME NEW V, NEW n \in Nat, NEW f \in [1 .. n -> V]
    PROVE  f \in Seq(V) /\ Len(f) = n
  OBVIOUS

\* Chosen keeps what stands at the places, and nothing else.
LEMMA ChosenKeeps ==
    ASSUME NEW V, NEW seq \in Seq(V), NEW places \in SUBSET (DOMAIN seq)
    PROVE  /\ Chosen(seq, places) \in Seq(V)
           /\ ToSet(Chosen(seq, places)) = {seq[i] : i \in places}
<1> DEFINE Holder(k) == CHOOSE i \in places : PlaceIn(places, i) = k
           N == Cardinality(places)
           c == Chosen(seq, places)
<1>1. c = [k \in 1 .. N |-> seq[Holder(k)]]
  BY DEF Chosen, PlaceIn, UpTo
<1>2. places \in SUBSET Int /\ IsFiniteSet(places)
  <2>1. DOMAIN seq = 1 .. Len(seq) /\ Len(seq) \in Nat
    OBVIOUS
  <2>2. IsFiniteSet(1 .. Len(seq))
    BY <2>1, FS_Interval
  <2> QED  BY <2>1, <2>2, FS_Subset
<1>3. /\ N \in Nat
      /\ \A i \in places : PlaceIn(places, i) \in 1 .. N
      /\ \A i, j \in places : PlaceIn(places, i) = PlaceIn(places, j) => i = j
      /\ \A k \in 1 .. N : \E i \in places : PlaceIn(places, i) = k
  BY <1>2, NumbersHavePlaces
<1>4. \A k \in 1 .. N : Holder(k) \in places
  BY <1>3
<1>5. \A i \in places : Holder(PlaceIn(places, i)) = i
  BY <1>3
<1> HIDE DEF Holder, N, c
<1>6. c \in Seq(V)
  <2>1. \A k \in 1 .. N : seq[Holder(k)] \in V
    BY <1>4
  <2>2. c \in [1 .. N -> V]
    BY <1>1, <2>1
  <2> QED  BY <1>3, <2>2, FunctionIsList
<1>7. ToSet(c) = {seq[i] : i \in places}
  <2>1. ToSet(c) = {c[k] : k \in 1 .. N}
    BY <1>1 DEF ToSet
  <2>2. \A i \in places : c[PlaceIn(places, i)] = seq[i]
    BY <1>1, <1>3, <1>5
  <2>3. \A k \in 1 .. N : c[k] = seq[Holder(k)] /\ Holder(k) \in places
    BY <1>1, <1>4
  <2>4. \A k \in 1 .. N : c[k] \in {seq[i] : i \in places}
    BY <2>3
  <2>5. \A i \in places : seq[i] \in {c[k] : k \in 1 .. N}
    BY <1>3, <2>2
  <2> QED  BY <2>1, <2>4, <2>5
<1> QED  BY <1>6, <1>7 DEF c

\* The members of two lists, one after the other.
LEMMA ToSetOfConcat ==
    ASSUME NEW V, NEW s \in Seq(V), NEW t \in Seq(V)
    PROVE  s \o t \in Seq(V) /\ ToSet(s \o t) = ToSet(s) \cup ToSet(t)
<1>1. /\ s \o t \in Seq(V)
      /\ DOMAIN (s \o t) = 1 .. Len(s) + Len(t)
      /\ \A i \in 1 .. Len(s) : (s \o t)[i] = s[i]
      /\ \A i \in 1 .. Len(t) : (s \o t)[Len(s) + i] = t[i]
  OBVIOUS
<1>2. Len(s) \in Nat /\ Len(t) \in Nat
      /\ DOMAIN s = 1 .. Len(s) /\ DOMAIN t = 1 .. Len(t)
  OBVIOUS
<1> DEFINE st == s \o t
<1>3. ToSet(st) = {st[i] : i \in 1 .. Len(s) + Len(t)}
  BY <1>1 DEF ToSet
<1>4. ToSet(s) = {s[i] : i \in 1 .. Len(s)} /\ ToSet(t) = {t[i] : i \in 1 .. Len(t)}
  BY <1>2 DEF ToSet
<1> HIDE DEF st
<1>5. ASSUME NEW i \in 1 .. Len(s) + Len(t) PROVE st[i] \in ToSet(s) \cup ToSet(t)
  <2>1. CASE i <= Len(s)
    <3>1. i \in 1 .. Len(s)
      BY <1>2, <2>1
    <3> QED  BY <1>1, <1>4, <3>1 DEF st
  <2>2. CASE ~(i <= Len(s))
    <3>1. i - Len(s) \in 1 .. Len(t) /\ Len(s) + (i - Len(s)) = i
      BY <1>2, <2>2
    <3>2. st[i] = t[i - Len(s)]
      BY <1>1, <3>1 DEF st
    <3> QED  BY <1>4, <3>1, <3>2
  <2> QED  BY <2>1, <2>2
<1>6. \A i \in 1 .. Len(s) : s[i] \in ToSet(st)
  <2> TAKE i \in 1 .. Len(s)
  <2>1. i \in 1 .. Len(s) + Len(t) /\ st[i] = s[i]
    BY <1>1, <1>2 DEF st
  <2> QED  BY <1>3, <2>1
<1>7. \A i \in 1 .. Len(t) : t[i] \in ToSet(st)
  <2> TAKE i \in 1 .. Len(t)
  <2>1. Len(s) + i \in 1 .. Len(s) + Len(t) /\ st[Len(s) + i] = t[i]
    BY <1>1, <1>2 DEF st
  <2> QED  BY <1>3, <2>1
<1>8. ToSet(st) \subseteq ToSet(s) \cup ToSet(t)
  BY <1>3, <1>5
<1>9. ToSet(s) \subseteq ToSet(st)
  BY <1>4, <1>6
<1>10. ToSet(t) \subseteq ToSet(st)
  BY <1>4, <1>7
<1>11. ToSet(st) = ToSet(s) \cup ToSet(t)
  BY <1>8, <1>9, <1>10
<1> QED  BY <1>1, <1>11 DEF st

LEMMA ShortTexts ==
    /\ \A a : <<a>> \in Seq({a}) /\ <<a>> # <<>> /\ Len(<<a>>) = 1 /\ <<a>>[1] = a
    /\ \A a, b, c : /\ <<a, b, c>> \in Seq({a, b, c}) /\ <<a, b, c>> # <<>>
                    /\ Len(<<a, b, c>>) = 3 /\ <<a, b, c>>[1] = a
  OBVIOUS

LEMMA SubSeqOfOne ==
    ASSUME NEW s, NEW i \in Int
    PROVE  SubSeq(s, i, i) = <<s[i]>>
<1> DEFINE W == {s[i]}
           one == SubSeq(s, i, i)
<1>1. one \in Seq(W) /\ Len(one) = 1 /\ one[1] = s[i]
  <2>1. \A j \in i .. i : s[j] \in W
    OBVIOUS
  <2> HIDE DEF W
  <2>2. /\ one \in Seq(W)
        /\ Len(one) = IF i <= i THEN i - i + 1 ELSE 0
        /\ \A j \in 1 .. i - i + 1 : one[j] = s[i + j - 1]
    BY <2>1, SubSeqProperties
  <2> HIDE DEF one
  <2> QED  BY <2>2
<1>2. <<s[i]>> \in Seq(W) /\ Len(<<s[i]>>) = 1 /\ <<s[i]>>[1] = s[i]
  BY ShortTexts
<1> HIDE DEF W, one
<1>3. one = <<s[i]>>
  BY <1>1, <1>2, SeqEqual
<1> QED  BY <1>3 DEF one

\* The tokens of a text, and of texts that are joined.

\* What holds of 0, and of n if of n - 1, holds up to N.
LEMMA Upward ==
    ASSUME NEW N \in Nat, NEW S, 0 \in S, \A n \in 1 .. N : n - 1 \in S => n \in S
    PROVE  \A n \in 0 .. N : n \in S
<1> SUFFICES ASSUME NEW n \in 0 .. N, n \notin S
             PROVE  FALSE
  OBVIOUS
<1> DEFINE A == S \cap (0 .. n)
           next == [k \in A |-> k + 1]
<1>1. IsFiniteSet(A)
  <2>1. IsFiniteSet(0 .. n)
    BY FS_Interval
  <2> QED  BY <2>1, FS_Subset
<1>2. 0 \in A
  OBVIOUS
<1>3. ASSUME NEW k \in A PROVE k \in Nat /\ k + 1 \in A
  <2>1. k \in 0 .. n /\ k # n
    OBVIOUS
  <2>2. k + 1 \in 1 .. N /\ k + 1 \in 0 .. n /\ (k + 1) - 1 = k
    BY <2>1
  <2> QED  BY <2>1, <2>2
<1> HIDE DEF A
<1>4. next \in Injection(A, A)
  BY <1>3 DEF Injection, IsInjective
<1>5. next \in Surjection(A, A)
  BY <1>1, <1>4, FS_Injection
<1>6. PICK k \in A : next[k] = 0
  BY <1>2, <1>5 DEF Surjection
<1> QED  BY <1>3, <1>6

\* A function may be defined by what it is at 0 and by what follows from n - 1.
Steps(f, N, base, step) ==
    /\ f = [n \in 0 .. N |-> f[n]]
    /\ f[0] = base
    /\ \A n \in 1 .. N : f[n] = step[<<f[n - 1], n>>]
LEMMA Recursion ==
    ASSUME NEW N \in Nat, NEW base, NEW step
    PROVE  \E f : Steps(f, N, base, step)
<1> USE DEF Steps
<1> DEFINE Is(f, m) == Steps(f, m, base, step)
           S == {m \in Nat : \E f : Is(f, m)}
<1>1. 0 \in S
  <2> DEFINE f == [n \in 0 .. 0 |-> base]
  <2>1. Is(f, 0)
    OBVIOUS
  <2> QED  BY <2>1
<1>2. ASSUME NEW m \in S PROVE m + 1 \in S
  <2>1. PICK f : Is(f, m)
    OBVIOUS
  <2> DEFINE g == [n \in 0 .. m + 1 |-> IF n = m + 1 THEN step[<<f[m], m + 1>>] ELSE f[n]]
  <2>2. /\ \A n \in 0 .. m : g[n] = f[n]
        /\ g[m + 1] = step[<<f[m], m + 1>>]
        /\ g = [n \in 0 .. m + 1 |-> g[n]]
    OBVIOUS
  <2> HIDE DEF g
  <2>3. g[0] = base
    BY <2>1, <2>2
  <2>4. ASSUME NEW n \in 1 .. m + 1 PROVE g[n] = step[<<g[n - 1], n>>]
    <3>1. CASE n = m + 1
      <4>1. n - 1 = m /\ m \in 0 .. m
        BY <3>1
      <4> QED  BY <2>2, <3>1, <4>1
    <3>2. CASE n # m + 1
      <4>1. n \in 1 .. m /\ n \in 0 .. m /\ n - 1 \in 0 .. m
        BY <3>2
      <4>2. g[n] = f[n] /\ g[n - 1] = f[n - 1] /\ f[n] = step[<<f[n - 1], n>>]
        BY <2>1, <2>2, <4>1
      <4> QED  BY <4>2
    <3> QED  BY <3>1, <3>2
  <2>5. Is(g, m + 1)
    BY <2>2, <2>3, <2>4, ZenonT(60)
  <2> HIDE DEF Is
  <2>6. m + 1 \in Nat
    OBVIOUS
  <2>7. \E h : Is(h, m + 1)
    BY ONLY <2>5
  <2> QED  BY ONLY <2>6, <2>7
<1>3. \A n \in 1 .. N : n - 1 \in S => n \in S
  <2> TAKE n \in 1 .. N
  <2>1. n - 1 \in S => (n - 1) + 1 \in S
    BY <1>2
  <2> QED  BY <2>1
<1>4. N \in S
  <2> HIDE DEF S
  <2> QED  BY <1>1, <1>3, Upward
<1> QED  BY <1>4

\* What is known of a text while it is read.
Atoms == STRING \cup {Blank}
Text == Seq(Atoms)
Reading == [over : Seq(Text), open : Text]

LEMMA EmptyReading == <<>> \in Text /\ <<>> \in Seq(Text) /\ Unread \in Reading
<1>1. <<>> \in Text /\ <<>> \in Seq(Text)
  BY EmptySeq DEF Text
<1> QED  BY <1>1 DEF Unread, Reading

LEMMA EndedType == ASSUME NEW st \in Reading PROVE Ended(st) \in Reading
<1>1. st.over \in Seq(Text) /\ st.open \in Text
  BY DEF Reading
<1>2. Append(st.over, st.open) \in Seq(Text)
  BY <1>1, AppendProperties
<1> QED  BY <1>1, <1>2, EmptyReading DEF Ended, Reading

LEMMA AtomType ==
    ASSUME NEW st \in Reading, NEW a \in Atoms
    PROVE  ReadAtom(st, a) \in Reading
<1>1. st.over \in Seq(Text) /\ st.open \in Text
  BY DEF Reading
<1>2. Append(st.open, a) \in Text
  BY <1>1, AppendProperties DEF Text
<1> QED  BY <1>1, <1>2, EndedType DEF ReadAtom, Reading

\* What is known after each atom follows from what was known before it.
LEMMA EachAtomIsRead ==
    ASSUME NEW st \in Reading, NEW text \in Text
    PROVE  \E read : /\ read[0] = st
                     /\ \A n \in 1 .. Len(text) : read[n] = ReadAtom(read[n - 1], text[n])
                     /\ \A n \in 0 .. Len(text) : read[n] \in Reading
                     /\ ReadAtoms(st, text) = read[Len(text)]
<1> DEFINE N == Len(text)
           step == [p \in Reading \X (1 .. N) |-> ReadAtom(p[1], text[p[2]])]
           Each(f) == [n \in 0 .. N |-> IF n = 0 THEN st ELSE ReadAtom(f[n - 1], text[n])]
<1>1. N \in Nat /\ \A n \in 1 .. N : text[n] \in Atoms
  BY DEF Text
<1> HIDE DEF N
<1>2. \E f : f = Each(f)
  <2>0. PICK f : Steps(f, N, st, step)
    BY <1>1, Recursion
  <2>1. /\ f = [n \in 0 .. N |-> f[n]]
        /\ f[0] = st
        /\ \A n \in 1 .. N : f[n] = step[<<f[n - 1], n>>]
    <3> HIDE DEF step
    <3> QED  BY <2>0 DEF Steps
  <2> DEFINE S == {n \in 0 .. N : f[n] \in Reading}
  <2>2. \A n \in 1 .. N : f[n - 1] \in Reading =>
                              f[n] = ReadAtom(f[n - 1], text[n]) /\ f[n] \in Reading
    <3> TAKE n \in 1 .. N
    <3> HAVE f[n - 1] \in Reading
    <3>1. f[n] = ReadAtom(f[n - 1], text[n])
      BY <2>1
    <3> QED  BY <1>1, <3>1, AtomType
  <2>3. 0 \in S /\ \A n \in 1 .. N : n - 1 \in S => n \in S
    <3> HIDE DEF step, Each
    <3>1. 0 \in S
      BY <1>1, <2>1
    <3>2. \A n \in 1 .. N : n - 1 \in S => n \in S
      BY <1>1, <2>2
    <3> QED  BY <3>1, <3>2
  <2>4. \A n \in 0 .. N : f[n] \in Reading
    <3>1. \A n \in 0 .. N : n \in S
      <4> HIDE DEF S
      <4> QED  BY <1>1, <2>3, Upward
    <3> QED  BY <3>1
  <2> HIDE DEF step
  <2>5. ASSUME NEW n \in 0 .. N PROVE f[n] = Each(f)[n]
    <3>1. CASE n = 0
      BY <2>1, <3>1
    <3>2. CASE n # 0
      <4>1. n \in 1 .. N /\ n - 1 \in 0 .. N
        BY <1>1, <3>2
      <4>2. f[n] = ReadAtom(f[n - 1], text[n])
        BY <2>2, <2>4, <4>1
      <4> QED  BY <3>2, <4>2
    <3> QED  BY <3>1, <3>2
  <2>6. f = Each(f)
    <3>1. Each(f) = [n \in 0 .. N |-> Each(f)[n]]
      OBVIOUS
    <3> HIDE DEF Each
    <3> QED  BY <2>1, <2>5, <3>1
  <2> QED  BY <2>6
<1> DEFINE read == CHOOSE f : f = Each(f)
<1>3. read = Each(read)
  <2> HIDE DEF Each
  <2> QED  BY <1>2
<1>4. ReadAtoms(st, text) = read[N]
  BY DEF ReadAtoms, N
<1> HIDE DEF read
<1>5. read[0] = st
  <2>1. Each(read)[0] = st
    BY <1>1
  <2> HIDE DEF Each
  <2> QED  BY <1>3, <2>1
<1>6. ASSUME NEW n \in 1 .. N PROVE read[n] = ReadAtom(read[n - 1], text[n])
  <2>1. n \in 0 .. N /\ n # 0
    BY <1>1
  <2>2. Each(read)[n] = ReadAtom(read[n - 1], text[n])
    BY <2>1
  <2> HIDE DEF Each
  <2> QED  BY <1>3, <2>2
<1>7. \A n \in 0 .. N : read[n] \in Reading
  <2> DEFINE S == {n \in 0 .. N : read[n] \in Reading}
  <2>1. 0 \in S
    BY <1>1, <1>5
  <2>2. \A n \in 1 .. N : n - 1 \in S => n \in S
    <3> TAKE n \in 1 .. N
    <3> HAVE n - 1 \in S
    <3>1. read[n] \in Reading
      BY <1>1, <1>6, AtomType
    <3> QED  BY <1>1, <3>1
  <2>3. \A n \in 0 .. N : n \in S
    <3> HIDE DEF S
    <3> QED  BY <1>1, <2>1, <2>2, Upward
  <2> QED  BY <2>3
<1> QED  BY <1>4, <1>5, <1>6, <1>7 DEF N

\* It is the only such reading.
LEMMA OneReadingOfAtoms ==
    ASSUME NEW st \in Reading, NEW text \in Text, NEW read, read[0] = st,
           \A n \in 1 .. Len(text) : read[n] = ReadAtom(read[n - 1], text[n])
    PROVE  ReadAtoms(st, text) = read[Len(text)]
<1>1. PICK other : /\ other[0] = st
                   /\ \A n \in 1 .. Len(text) : other[n] = ReadAtom(other[n - 1], text[n])
                   /\ ReadAtoms(st, text) = other[Len(text)]
  BY EachAtomIsRead
<1> DEFINE S == {n \in 0 .. Len(text) : read[n] = other[n]}
<1>2. Len(text) \in Nat
  BY DEF Text
<1>3. 0 \in S
  BY <1>1, <1>2
<1>4. \A n \in 1 .. Len(text) : n - 1 \in S => n \in S
  BY <1>1, <1>2
<1>5. \A n \in 0 .. Len(text) : n \in S
  <2> HIDE DEF S
  <2> QED  BY <1>2, <1>3, <1>4, Upward
<1> QED  BY <1>1, <1>2, <1>5

\* A text after another one is read from what the other one leaves.
LEMMA ReadAtomsOn ==
    ASSUME NEW st \in Reading, NEW s \in Text, NEW t \in Text
    PROVE  /\ ReadAtoms(st, s) \in Reading
           /\ ReadAtoms(st, s \o t) = ReadAtoms(ReadAtoms(st, s), t)
<1> DEFINE mid == ReadAtoms(st, s)  m == Len(s)  k == Len(t)
<1>1. PICK f : /\ f[0] = st
               /\ \A n \in 1 .. m : f[n] = ReadAtom(f[n - 1], s[n])
               /\ \A n \in 0 .. m : f[n] \in Reading
               /\ mid = f[m]
  BY EachAtomIsRead
<1>2. m \in Nat /\ k \in Nat /\ mid \in Reading
  <2>1. m \in Nat /\ k \in Nat
    BY DEF Text
  <2>2. m \in 0 .. m
    BY <2>1
  <2> QED  BY <1>1, <2>1, <2>2
<1> HIDE DEF mid
<1>3. PICK g : /\ g[0] = mid
               /\ \A n \in 1 .. k : g[n] = ReadAtom(g[n - 1], t[n])
               /\ ReadAtoms(mid, t) = g[k]
  BY <1>2, EachAtomIsRead
<1> DEFINE h == [n \in 0 .. m + k |-> IF n <= m THEN f[n] ELSE g[n - m]]
<1>4. /\ s \o t \in Text
      /\ Len(s \o t) = m + k
      /\ \A n \in 1 .. m : (s \o t)[n] = s[n]
      /\ \A n \in m + 1 .. m + k : (s \o t)[n] = t[n - m]
  BY DEF Text
<1> HIDE DEF m, k
<1>5. /\ \A n \in 0 .. m : h[n] = f[n]
      /\ \A n \in 0 .. k : h[m + n] = g[n]
  <2>1. \A n \in 0 .. m : h[n] = f[n]
    BY <1>2
  <2>2. ASSUME NEW n \in 1 .. k PROVE h[m + n] = g[n]
    <3>1. m + n \in 0 .. m + k /\ ~(m + n <= m) /\ (m + n) - m = n
      BY <1>2
    <3> QED  BY <3>1
  <2>3. h[m + 0] = g[0]
    <3>1. m \in 0 .. m /\ m + 0 = m
      BY <1>2
    <3> QED  BY <2>1, <3>1, <1>1, <1>3
  <2>4. \A n \in 0 .. k : n = 0 \/ n \in 1 .. k
    BY <1>2
  <2> QED  BY <2>1, <2>2, <2>3, <2>4
<1> HIDE DEF h
<1>6. h[0] = st
  BY <1>1, <1>2, <1>5
<1>7. ASSUME NEW n \in 1 .. Len(s \o t)
      PROVE  h[n] = ReadAtom(h[n - 1], (s \o t)[n])
  <2>1. CASE n <= m
    <3>1. n \in 1 .. m /\ n \in 0 .. m /\ n - 1 \in 0 .. m
      BY <1>2, <2>1
    <3> QED  BY <3>1, <1>1, <1>4, <1>5
  <2>2. CASE n > m
    <3> DEFINE i == n - m
    <3>1. i \in 1 .. k /\ i \in 0 .. k /\ i - 1 \in 0 .. k /\ n \in m + 1 .. m + k
      BY <1>2, <1>4, <2>2
    <3>2. n = m + i /\ n - 1 = m + (i - 1)
      BY <1>2, <1>4
    <3>3. (s \o t)[n] = t[i]
      BY <1>4, <3>1
    <3> HIDE DEF i
    <3>4. h[m + i] = g[i] /\ h[m + (i - 1)] = g[i - 1]
      BY <3>1, <1>5
    <3> QED  BY <1>3, <3>1, <3>2, <3>3, <3>4
  <2> QED  BY <1>2, <1>4, <2>1, <2>2
<1>8. ReadAtoms(st, s \o t) = h[m + k]
  <2> DEFINE l == s \o t
  <2>1. l \in Text /\ Len(l) = m + k
    BY <1>4
  <2>2. \A n \in 1 .. Len(l) : h[n] = ReadAtom(h[n - 1], l[n])
    BY <1>7
  <2> HIDE DEF l
  <2>3. ReadAtoms(st, l) = h[Len(l)]
    BY <1>6, <2>1, <2>2, OneReadingOfAtoms
  <2> QED  BY <2>1, <2>3 DEF l
<1>9. h[m + k] = g[k]
  BY <1>2, <1>5
<1> QED  BY <1>2, <1>3, <1>8, <1>9 DEF mid

LEMMA BlankIsText == <<Blank>> \in Text
<1>1. Blank \in Atoms
  BY DEF Atoms
<1> QED  BY <1>1 DEF Text

\* Words: neither empty nor with a blank.
Words == {t \in Text : t # <<>> /\ \A i \in 1 .. Len(t) : t[i] # Blank}

\* What was over before stays in front.
LEMMA OverBefore ==
    ASSUME NEW d \in Seq(Text), NEW v \in Text, NEW text \in Text
    PROVE  LET from == ReadAtoms([over |-> <<>>, open |-> v], text)
           IN  /\ from \in Reading
               /\ ReadAtoms([over |-> d, open |-> v], text)
                      = [over |-> d \o from.over, open |-> from.open]
<1> DEFINE s0 == [over |-> <<>>, open |-> v]  s1 == [over |-> d, open |-> v]
           N == Len(text)
<1>1. s0 \in Reading /\ s1 \in Reading
  BY EmptyReading DEF Reading
<1>2. /\ s0.over = <<>> /\ s0.open = v /\ s1.over = d /\ s1.open = v
      /\ s1 = [over |-> d \o s0.over, open |-> s0.open]
  <2>1. d \o <<>> = d
    BY ConcatEmptySeq
  <2> QED  BY <2>1
<1> HIDE DEF s0, s1
<1>3. PICK f : /\ f[0] = s0
               /\ \A n \in 1 .. N : f[n] = ReadAtom(f[n - 1], text[n])
               /\ \A n \in 0 .. N : f[n] \in Reading
               /\ ReadAtoms(s0, text) = f[N]
  BY <1>1, EachAtomIsRead
<1>4. N \in Nat
  BY DEF Text
<1> HIDE DEF N
<1> DEFINE g == [n \in 0 .. N |-> [over |-> d \o f[n].over, open |-> f[n].open]]
<1>5. g[0] = s1
  BY <1>2, <1>3, <1>4
<1>6. ASSUME NEW n \in 1 .. N PROVE g[n] = ReadAtom(g[n - 1], text[n])
  <2> DEFINE p == f[n - 1]  q == g[n - 1]
  <2>1. n \in 0 .. N /\ n - 1 \in 0 .. N
    BY <1>4
  <2>2. p \in Reading /\ f[n] = ReadAtom(p, text[n])
    BY <1>3, <2>1
  <2>3. /\ q = [over |-> d \o p.over, open |-> p.open]
        /\ g[n] = [over |-> d \o f[n].over, open |-> f[n].open]
    BY <2>1
  <2> HIDE DEF g, p, q
  <2>4. p.over \in Seq(Text) /\ p.open \in Text /\ p = [over |-> p.over, open |-> p.open]
    BY <2>2 DEF Reading
  <2>5. q.over = d \o p.over /\ q.open = p.open
    BY <2>3
  <2>6. Append(d \o p.over, p.open) = d \o Append(p.over, p.open)
    BY <2>4, SMTT(30)
  <2>7. CASE text[n] # Blank
    BY <2>2, <2>3, <2>5, <2>7 DEF ReadAtom, q
  <2>8. CASE text[n] = Blank /\ p.open = <<>>
    BY <2>2, <2>3, <2>5, <2>8 DEF ReadAtom, Ended, q
  <2>9. CASE text[n] = Blank /\ p.open # <<>>
    <3>1. f[n] = [over |-> Append(p.over, p.open), open |-> <<>>]
      BY <2>2, <2>9 DEF ReadAtom, Ended
    <3>2. ReadAtom(q, text[n]) = [over |-> Append(q.over, q.open), open |-> <<>>]
      BY <2>5, <2>9 DEF ReadAtom, Ended
    <3>3. g[n] = [over |-> d \o Append(p.over, p.open), open |-> <<>>]
      BY <2>3, <3>1
    <3> QED  BY <2>5, <2>6, <3>2, <3>3 DEF q
  <2> QED  BY <2>7, <2>8, <2>9 DEF q
<1> HIDE DEF g
<1>7. ReadAtoms(s1, text) = g[N]
  <2>1. \A n \in 1 .. Len(text) : g[n] = ReadAtom(g[n - 1], text[n])
    BY <1>6 DEF N
  <2> QED  BY <1>1, <1>5, <2>1, OneReadingOfAtoms DEF N
<1>8. g[N] = [over |-> d \o f[N].over, open |-> f[N].open] /\ f[N] \in Reading
  BY <1>3, <1>4 DEF g
<1> QED  BY <1>3, <1>7, <1>8 DEF s0, s1

\* A word goes on with the word that goes on.
LEMMA WordGoesOn ==
    ASSUME NEW d, NEW v, [over |-> d, open |-> v] \in Reading, NEW t \in Text,
           \A i \in 1 .. Len(t) : t[i] # Blank
    PROVE  ReadAtoms([over |-> d, open |-> v], t) = [over |-> d, open |-> v \o t]
<1> DEFINE st == [over |-> d, open |-> v]  N == Len(t)
           g == [n \in 0 .. N |-> [over |-> d, open |-> v \o SubSeq(t, 1, n)]]
<1>1. N \in Nat /\ st \in Reading /\ v \in Text
  <2>1. st \in Reading
    OBVIOUS
  <2> QED  BY <2>1 DEF Text, Reading
<1>2. g[0] = st
  BY <1>1 DEF Text
<1>3. ASSUME NEW n \in 1 .. N PROVE g[n] = ReadAtom(g[n - 1], t[n])
  <2>1. n \in 0 .. N /\ n - 1 \in 0 .. N
    BY <1>1
  <2>2. v \o SubSeq(t, 1, n) = Append(v \o SubSeq(t, 1, n - 1), t[n])
    BY <1>1 DEF Text
  <2>3. /\ g[n] = [over |-> d, open |-> v \o SubSeq(t, 1, n)]
        /\ g[n - 1].over = d /\ g[n - 1].open = v \o SubSeq(t, 1, n - 1)
    BY <2>1
  <2> HIDE DEF g
  <2> QED  BY <2>2, <2>3 DEF ReadAtom
<1> HIDE DEF g, st
<1>4. ReadAtoms(st, t) = g[N]
  <2>1. \A n \in 1 .. Len(t) : g[n] = ReadAtom(g[n - 1], t[n])
    BY <1>3 DEF N
  <2> QED  BY <1>1, <1>2, <2>1, OneReadingOfAtoms DEF N
<1>5. SubSeq(t, 1, N) = t
  BY DEF Text
<1>6. g[N] = [over |-> d, open |-> v \o SubSeq(t, 1, N)]
  <2>1. N \in 0 .. N
    BY <1>1
  <2> QED  BY <2>1 DEF g
<1>7. ReadAtoms(st, t) = [over |-> d, open |-> v \o t]
  BY <1>4, <1>5, <1>6
<1> QED  BY <1>7 DEF st

\* The tokens of two texts with a blank between them are those of each.
LEMMA TokensOfTwo ==
    ASSUME NEW s \in Text, NEW t \in Text
    PROVE  /\ s \o <<Blank>> \o t \in Text
           /\ Tokens(s \o <<Blank>> \o t) = Tokens(s) \o Tokens(t)
           /\ Tokens(s) \in Seq(Text)
<1> DEFINE b == <<Blank>>  rs == ReadAtoms(Unread, s)  rt == ReadAtoms(Unread, t)
<1>1. b \in Text
  BY BlankIsText
<1>2. s \o b \in Text /\ s \o b \o t \in Text
  BY <1>1, ConcatProperties DEF Text
<1>3. rs \in Reading /\ rt \in Reading /\ Unread \in Reading
  BY EmptyReading, ReadAtomsOn
<1>4. ReadAtoms(rs, b) = Ended(rs)
  <2>1. Len(b) = 1 /\ b[1] = Blank
    OBVIOUS
  <2> HIDE DEF b, rs
  <2>2. PICK f : /\ f[0] = rs
                 /\ \A n \in 1 .. Len(b) : f[n] = ReadAtom(f[n - 1], b[n])
                 /\ ReadAtoms(rs, b) = f[Len(b)]
    BY <1>1, <1>3, EachAtomIsRead
  <2>3. 1 \in 1 .. Len(b) /\ 1 - 1 = 0
    BY <2>1
  <2> QED  BY <2>1, <2>2, <2>3 DEF ReadAtom
<1>5. ReadAtoms(Unread, s \o b \o t) = ReadAtoms(Ended(rs), t)
  <2> HIDE DEF b
  <2>1. ReadAtoms(Unread, s \o b) = Ended(rs)
    BY <1>1, <1>3, <1>4, ReadAtomsOn
  <2> QED  BY <1>2, <1>3, <2>1, ReadAtomsOn
<1> DEFINE d == Ended(rs).over
<1>6. d \in Seq(Text) /\ Ended(rs) = [over |-> d, open |-> <<>>]
  <2>1. rs.over \in Seq(Text) /\ rs.open \in Text /\ rs = [over |-> rs.over, open |-> rs.open]
    BY <1>3 DEF Reading
  <2> HIDE DEF rs
  <2>2. Ended(rs) \in Reading
    BY <1>3, EndedType
  <2> QED  BY <2>1, <2>2 DEF Ended, Reading
<1>7. ReadAtoms([over |-> d, open |-> <<>>], t) = [over |-> d \o rt.over, open |-> rt.open]
  <2> HIDE DEF d
  <2> QED  BY <1>6, EmptyReading, OverBefore DEF Unread
<1>8. rt.over \in Seq(Text) /\ rt.open \in Text
  BY <1>3 DEF Reading
<1>9. Tokens(s \o b \o t) = Ended([over |-> d \o rt.over, open |-> rt.open]).over
  BY <1>5, <1>6, <1>7 DEF Tokens
<1>10. Tokens(s) = d /\ Tokens(t) = Ended(rt).over
  BY DEF Tokens
<1> HIDE DEF d, rt, rs, b
<1>11. Append(d \o rt.over, rt.open) = d \o Append(rt.over, rt.open)
  BY <1>6, <1>8, SMTT(30)
<1>12. Ended([over |-> d \o rt.over, open |-> rt.open]).over = d \o Ended(rt).over
  BY <1>11 DEF Ended
<1> QED  BY <1>2, <1>6, <1>9, <1>10, <1>12 DEF b

\* A word has one token, and an empty text none.
LEMMA TokensOfWord ==
    ASSUME NEW t \in Words
    PROVE  Tokens(t) = <<t>>
<1>1. t \in Text /\ t # <<>> /\ \A i \in 1 .. Len(t) : t[i] # Blank
  BY DEF Words
<1>2. ReadAtoms([over |-> <<>>, open |-> <<>>], t) = [over |-> <<>>, open |-> <<>> \o t]
  BY <1>1, EmptyReading, WordGoesOn DEF Unread
<1>3. <<>> \o t = t /\ Append(<<>>, t) = <<t>>
  BY <1>1 DEF Text
<1>4. ReadAtoms(Unread, t) = [over |-> <<>>, open |-> t]
  BY <1>2, <1>3 DEF Unread
<1>5. Ended([over |-> <<>>, open |-> t]).over = Append(<<>>, t)
  BY <1>1 DEF Ended
<1> QED  BY <1>3, <1>4, <1>5 DEF Tokens

LEMMA NoTokens == Tokens(<<>>) = <<>>
<1>1. PICK f : f[0] = Unread /\ ReadAtoms(Unread, <<>>) = f[Len(<<>>)]
  BY EmptyReading, EachAtomIsRead
<1>2. ReadAtoms(Unread, <<>>) = Unread
  BY <1>1
<1> QED  BY <1>2 DEF Tokens, Ended, Unread

\* The tokens joined one after the other.
Joined(join, tokens, n) ==
    IF n = 1 THEN tokens[1] ELSE join \o <<Blank>> \o tokens[n]

LEMMA EachTokenIsJoined ==
    ASSUME NEW tokens \in Seq(Text)
    PROVE  \E join : /\ join[0] = <<>>
                     /\ \A n \in 1 .. Len(tokens) : join[n] = Joined(join[n - 1], tokens, n)
                     /\ \A n \in 0 .. Len(tokens) : join[n] \in Text
                     /\ JoinTokens(tokens) = join[Len(tokens)]
<1> DEFINE N == Len(tokens)
           step == [p \in Text \X (1 .. N) |-> Joined(p[1], tokens, p[2])]
           Each(f) == [n \in 0 .. N |-> IF n = 0 THEN <<>>
                         ELSE IF n = 1 THEN tokens[1]
                         ELSE f[n - 1] \o <<Blank>> \o tokens[n]]
<1>1. N \in Nat /\ \A n \in 1 .. N : tokens[n] \in Text
  OBVIOUS
<1> HIDE DEF N
<1>2. \A j \in Text, n \in 1 .. N : Joined(j, tokens, n) \in Text
  <2> TAKE j \in Text, n \in 1 .. N
  <2>1. tokens[n] \in Text /\ (n = 1 => tokens[1] \in Text)
    BY <1>1
  <2> QED  BY <2>1, TokensOfTwo DEF Joined
<1>3. <<>> \in Text
  BY EmptyReading
<1>4. \E f : f = Each(f)
  <2>1. PICK f : Steps(f, N, <<>>, step)
    BY <1>1, Recursion
  <2>2. /\ f = [n \in 0 .. N |-> f[n]]
        /\ f[0] = <<>>
        /\ \A n \in 1 .. N : f[n] = step[<<f[n - 1], n>>]
    <3> HIDE DEF step
    <3> QED  BY <2>1 DEF Steps
  <2> DEFINE S == {n \in 0 .. N : f[n] \in Text}
  <2>3. \A n \in 1 .. N : f[n - 1] \in Text =>
                              f[n] = Joined(f[n - 1], tokens, n) /\ f[n] \in Text
    <3> TAKE n \in 1 .. N
    <3> HAVE f[n - 1] \in Text
    <3>1. f[n] = Joined(f[n - 1], tokens, n)
      BY <2>2
    <3> QED  BY <1>2, <3>1
  <2> HIDE DEF step
  <2>4. \A n \in 0 .. N : f[n] \in Text
    <3>1. 0 \in S
      BY <1>1, <1>3, <2>2
    <3>2. \A n \in 1 .. N : n - 1 \in S => n \in S
      BY <1>1, <2>3
    <3>3. \A n \in 0 .. N : n \in S
      <4> HIDE DEF S
      <4> QED  BY <1>1, <3>1, <3>2, Upward
    <3> QED  BY <3>3
  <2>5. ASSUME NEW n \in 0 .. N PROVE f[n] = Each(f)[n]
    <3>1. CASE n = 0
      BY <2>2, <3>1
    <3>2. CASE n # 0
      <4>1. n \in 1 .. N /\ n - 1 \in 0 .. N
        BY <1>1, <3>2
      <4>2. f[n] = Joined(f[n - 1], tokens, n)
        BY <2>3, <2>4, <4>1
      <4> QED  BY <3>2, <4>2 DEF Joined
    <3> QED  BY <3>1, <3>2
  <2>6. f = Each(f)
    <3>1. Each(f) = [n \in 0 .. N |-> Each(f)[n]]
      OBVIOUS
    <3> HIDE DEF Each
    <3> QED  BY <2>2, <2>5, <3>1
  <2> QED  BY <2>6
<1> DEFINE join == CHOOSE f : f = Each(f)
<1>5. join = Each(join)
  <2> HIDE DEF Each
  <2> QED  BY <1>4
<1>6. JoinTokens(tokens) = join[N]
  BY DEF JoinTokens, N
<1> HIDE DEF join
<1>7. join[0] = <<>>
  <2>1. Each(join)[0] = <<>>
    BY <1>1
  <2> HIDE DEF Each
  <2> QED  BY <1>5, <2>1
<1>8. ASSUME NEW n \in 1 .. N PROVE join[n] = Joined(join[n - 1], tokens, n)
  <2>1. n \in 0 .. N /\ n # 0
    BY <1>1
  <2>2. Each(join)[n] = Joined(join[n - 1], tokens, n)
    BY <2>1 DEF Joined
  <2> HIDE DEF Each
  <2> QED  BY <1>5, <2>2
<1>9. \A n \in 0 .. N : join[n] \in Text
  <2> DEFINE S == {n \in 0 .. N : join[n] \in Text}
  <2>1. 0 \in S
    BY <1>1, <1>3, <1>7
  <2>2. \A n \in 1 .. N : n - 1 \in S => n \in S
    BY <1>1, <1>2, <1>8
  <2>3. \A n \in 0 .. N : n \in S
    <3> HIDE DEF S
    <3> QED  BY <1>1, <2>1, <2>2, Upward
  <2> QED  BY <2>3
<1> QED  BY <1>6, <1>7, <1>8, <1>9 DEF N

\* The tokens without the ones that were there before.
Newer(new, t) == IF t \in ToSet(new) THEN new ELSE Append(new, t)

LEMMA EachTokenOnce ==
    ASSUME NEW V, NEW tokens \in Seq(V)
    PROVE  \E new : /\ new[0] = <<>>
                    /\ \A n \in 1 .. Len(tokens) : new[n] = Newer(new[n - 1], tokens[n])
                    /\ \A n \in 0 .. Len(tokens) : new[n] \in Seq(V)
                    /\ Distinct(tokens) = new[Len(tokens)]
<1> DEFINE N == Len(tokens)
           step == [p \in Seq(V) \X (1 .. N) |-> Newer(p[1], tokens[p[2]])]
           Each(f) == [n \in 0 .. N |-> IF n = 0 THEN <<>>
                         ELSE IF tokens[n] \in ToSet(f[n - 1]) THEN f[n - 1]
                         ELSE Append(f[n - 1], tokens[n])]
<1>1. N \in Nat /\ \A n \in 1 .. N : tokens[n] \in V
  OBVIOUS
<1> HIDE DEF N
<1>2. \A s \in Seq(V), n \in 1 .. N : Newer(s, tokens[n]) \in Seq(V)
  BY <1>1, AppendProperties DEF Newer
<1>3. <<>> \in Seq(V)
  BY EmptySeq
<1>4. \E f : f = Each(f)
  <2>1. PICK f : Steps(f, N, <<>>, step)
    BY <1>1, Recursion
  <2>2. /\ f = [n \in 0 .. N |-> f[n]]
        /\ f[0] = <<>>
        /\ \A n \in 1 .. N : f[n] = step[<<f[n - 1], n>>]
    <3> HIDE DEF step
    <3> QED  BY <2>1 DEF Steps
  <2> DEFINE S == {n \in 0 .. N : f[n] \in Seq(V)}
  <2>3. \A n \in 1 .. N : f[n - 1] \in Seq(V) =>
                              f[n] = Newer(f[n - 1], tokens[n]) /\ f[n] \in Seq(V)
    <3> TAKE n \in 1 .. N
    <3> HAVE f[n - 1] \in Seq(V)
    <3>1. <<f[n - 1], n>> \in Seq(V) \X (1 .. N)
      OBVIOUS
    <3>2. f[n] = step[<<f[n - 1], n>>]
      BY <2>2
    <3>3. f[n] = Newer(f[n - 1], tokens[n])
      BY <3>1, <3>2
    <3> QED  BY <1>2, <3>3
  <2> HIDE DEF step
  <2>4. \A n \in 0 .. N : f[n] \in Seq(V)
    <3>1. 0 \in S
      BY <1>1, <1>3, <2>2, SMTT(30)
    <3>2. \A n \in 1 .. N : n - 1 \in S => n \in S
      BY <1>1, <2>3
    <3>3. \A n \in 0 .. N : n \in S
      <4> HIDE DEF S
      <4> QED  BY <1>1, <3>1, <3>2, Upward
    <3> QED  BY <3>3
  <2>5. ASSUME NEW n \in 0 .. N PROVE f[n] = Each(f)[n]
    <3>1. CASE n = 0
      BY <2>2, <3>1
    <3>2. CASE n # 0
      <4>1. n \in 1 .. N /\ n - 1 \in 0 .. N
        BY <1>1, <3>2
      <4>2. f[n] = Newer(f[n - 1], tokens[n])
        BY <2>3, <2>4, <4>1
      <4> QED  BY <3>2, <4>2 DEF Newer
    <3> QED  BY <3>1, <3>2
  <2>6. f = Each(f)
    <3>1. Each(f) = [n \in 0 .. N |-> Each(f)[n]]
      OBVIOUS
    <3> HIDE DEF Each
    <3> QED  BY <2>2, <2>5, <3>1
  <2> QED  BY <2>6
<1> DEFINE new == CHOOSE f : f = Each(f)
<1>5. new = Each(new)
  <2> HIDE DEF Each
  <2> QED  BY <1>4
<1>6. Distinct(tokens) = new[N]
  BY DEF Distinct, N
<1> HIDE DEF new
<1>7. new[0] = <<>>
  <2>1. Each(new)[0] = <<>>
    BY <1>1
  <2> HIDE DEF Each
  <2> QED  BY <1>5, <2>1
<1>8. ASSUME NEW n \in 1 .. N PROVE new[n] = Newer(new[n - 1], tokens[n])
  <2>1. n \in 0 .. N /\ n # 0
    BY <1>1
  <2>2. Each(new)[n] = Newer(new[n - 1], tokens[n])
    BY <2>1 DEF Newer
  <2> HIDE DEF Each
  <2> QED  BY <1>5, <2>2
<1>9. \A n \in 0 .. N : new[n] \in Seq(V)
  <2> DEFINE S == {n \in 0 .. N : new[n] \in Seq(V)}
  <2>1. 0 \in S
    <3>1. new[0] \in Seq(V)
      <4> DEFINE none == <<>>
      <4>1. none \in Seq(V)
        BY <1>3
      <4> HIDE DEF none
      <4>2. new[0] = none
        BY <1>7 DEF none
      <4> QED  BY <4>1, <4>2
    <3> HIDE DEF step, Each
    <3> QED  BY <1>1, <3>1
  <2>2. \A n \in 1 .. N : n - 1 \in S => n \in S
    BY <1>1, <1>2, <1>8
  <2>3. \A n \in 0 .. N : n \in S
    <3> HIDE DEF S
    <3> QED  BY <1>1, <2>1, <2>2, Upward
  <2> QED  BY <2>3
<1> QED  BY <1>6, <1>7, <1>8, <1>9 DEF N

\* Every token is a word.
LEMMA TokensAreWords ==
    ASSUME NEW text \in Text
    PROVE  Tokens(text) \in Seq(Words)
<1> DEFINE N == Len(text)
           Fine(st) == /\ st.over \in Seq(Words)
                       /\ \A i \in 1 .. Len(st.open) : st.open[i] # Blank
<1>1. PICK f : /\ f[0] = Unread
               /\ \A n \in 1 .. N : f[n] = ReadAtom(f[n - 1], text[n])
               /\ \A n \in 0 .. N : f[n] \in Reading
               /\ ReadAtoms(Unread, text) = f[N]
  BY EmptyReading, EachAtomIsRead
<1>2. N \in Nat
  BY DEF Text
<1> HIDE DEF N
<1>3. ASSUME NEW st \in Reading, Fine(st) PROVE Fine(Ended(st))
  <2>1. CASE st.open = <<>>
    BY <1>3, <2>1 DEF Ended
  <2>2. CASE st.open # <<>>
    <3>1. st.open \in Words
      BY <1>3, <2>2 DEF Words, Reading
    <3>2. Append(st.over, st.open) \in Seq(Words)
      BY <1>3, <3>1, AppendProperties
    <3>3. Ended(st).over = Append(st.over, st.open) /\ Ended(st).open = <<>>
      BY <2>2 DEF Ended
    <3> QED  BY <3>2, <3>3
  <2> QED  BY <2>1, <2>2
<1>4. ASSUME NEW st \in Reading, Fine(st), NEW a \in Atoms PROVE Fine(ReadAtom(st, a))
  <2>1. CASE a = Blank
    BY <1>3, <1>4, <2>1 DEF ReadAtom
  <2>2. CASE a # Blank
    <3>1. st.open \in Text
      BY DEF Reading
    <3>2. \A i \in 1 .. Len(Append(st.open, a)) : Append(st.open, a)[i] # Blank
      BY <1>4, <2>2, <3>1 DEF Text
    <3>3. ReadAtom(st, a).over = st.over /\ ReadAtom(st, a).open = Append(st.open, a)
      BY <2>2 DEF ReadAtom
    <3> QED  BY <1>4, <3>2, <3>3
  <2> QED  BY <2>1, <2>2
<1> DEFINE S == {n \in 0 .. N : Fine(f[n])}
<1>5. 0 \in S
  <2>1. Unread.over = <<>> /\ Unread.open = <<>> /\ <<>> \in Seq(Words)
    BY EmptySeq DEF Unread
  <2>2. Fine(Unread)
    BY <2>1
  <2> HIDE DEF Fine
  <2> QED  BY <1>1, <1>2, <2>2
<1>6. \A n \in 1 .. N : n - 1 \in S => n \in S
  <2> HIDE DEF Fine
  <2> TAKE n \in 1 .. N
  <2>1. n \in 0 .. N /\ n - 1 \in 0 .. N /\ text[n] \in Atoms
    BY <1>2 DEF Text, N
  <2>2. f[n] = ReadAtom(f[n - 1], text[n]) /\ f[n - 1] \in Reading
    BY <1>1, <2>1
  <2> QED  BY <1>4, <2>1, <2>2
<1>7. N \in S
  <2> HIDE DEF S
  <2>1. N \in 0 .. N
    BY <1>2
  <2> QED  BY <1>2, <1>5, <1>6, <2>1, Upward
<1>8. Fine(Ended(f[N])) /\ Tokens(text) = Ended(f[N]).over
  <2> HIDE DEF Fine
  <2>1. f[N] \in Reading /\ Fine(f[N])
    BY <1>1, <1>2, <1>7
  <2> QED  BY <1>1, <1>3, <2>1 DEF Tokens
<1> QED  BY <1>8

\* Words that are joined are the tokens of what they make.
LEMMA TokensOfJoinedWords ==
    ASSUME NEW words \in Seq(Words)
    PROVE  /\ JoinTokens(words) \in Text
           /\ Tokens(JoinTokens(words)) = words
<1>1. words \in Seq(Text)
  <2>1. Words \subseteq Text
    BY DEF Words
  <2> QED  BY <2>1, SeqMonotonic
<1> DEFINE N == Len(words)
<1>2. PICK join : /\ join[0] = <<>>
                  /\ \A n \in 1 .. N : join[n] = Joined(join[n - 1], words, n)
                  /\ \A n \in 0 .. N : join[n] \in Text
                  /\ JoinTokens(words) = join[N]
  BY <1>1, EachTokenIsJoined
<1>3. N \in Nat /\ \A n \in 1 .. N : words[n] \in Words /\ words[n] \in Text
  BY <1>1
<1> DEFINE S == {n \in 0 .. N : Tokens(join[n]) = SubSeq(words, 1, n)}
<1>4. 0 \in S
  <2> DEFINE none == <<>>
  <2>1. SubSeq(words, 1, 0) = none /\ Tokens(none) = none
    BY SubSeqEmpty, NoTokens
  <2> HIDE DEF none
  <2>2. join[0] = none
    BY <1>2 DEF none
  <2>3. Tokens(join[0]) = SubSeq(words, 1, 0)
    BY <2>1, <2>2
  <2> QED  BY <1>3, <2>3
<1>5. ASSUME NEW n \in 1 .. N, n - 1 \in S PROVE n \in S
  <2>1. Tokens(words[n]) = <<words[n]>>
    BY <1>3, TokensOfWord
  <2>2. CASE n = 1
    <3>1. join[1] = words[1]
      BY <1>2, <2>2 DEF Joined
    <3>2. SubSeq(words, 1, 1) = <<words[1]>>
      <4>1. 1 \in 1 .. Len(words)
        BY <2>2
      <4> QED  BY SubSeqOfOne
    <3>3. Tokens(join[n]) = SubSeq(words, 1, n)
      BY <2>1, <2>2, <3>1, <3>2
    <3> QED  BY <1>3, <3>3
  <2>3. CASE n # 1
    <3>1. join[n] = join[n - 1] \o <<Blank>> \o words[n]
      BY <1>2, <2>3 DEF Joined
    <3>2. n - 1 \in 0 .. N /\ join[n - 1] \in Text /\ Tokens(join[n - 1]) = SubSeq(words, 1, n - 1)
      BY <1>2, <1>3, <1>5
    <3>3. Tokens(join[n]) = SubSeq(words, 1, n - 1) \o <<words[n]>>
      BY <1>3, <2>1, <3>1, <3>2, TokensOfTwo
    <3>4. SubSeq(words, 1, n - 1) \o <<words[n]>> = SubSeq(words, 1, n)
      BY <1>3, <2>3
    <3> QED  BY <1>3, <3>3, <3>4
  <2> QED  BY <2>2, <2>3
<1>6. N \in S
  <2> HIDE DEF S
  <2>1. N \in 0 .. N
    BY <1>3
  <2> QED  BY <1>3, <1>4, <1>5, <2>1, Upward
<1>7. SubSeq(words, 1, N) = words
  OBVIOUS
<1>8. join[N] \in Text
  BY <1>2, <1>3
<1> QED  BY <1>2, <1>6, <1>7, <1>8

\* Texts that are joined have the tokens of the first one in front.
LEMMA TokensOfJoined ==
    ASSUME NEW texts \in Seq(Text), texts # <<>>
    PROVE  /\ JoinTokens(texts) \in Text
           /\ \E rest \in Seq(Words) :
                /\ Tokens(JoinTokens(texts)) = Tokens(texts[1]) \o rest
                /\ \A t \in ToSet(rest) : \E k \in 2 .. Len(texts) : t \in ToSet(Tokens(texts[k]))
<1> DEFINE N == Len(texts)
<1>1. PICK join : /\ join[0] = <<>>
                  /\ \A n \in 1 .. N : join[n] = Joined(join[n - 1], texts, n)
                  /\ \A n \in 0 .. N : join[n] \in Text
                  /\ JoinTokens(texts) = join[N]
  BY EachTokenIsJoined
<1>2. N \in Nat /\ N > 0 /\ \A n \in 1 .. N : texts[n] \in Text
  OBVIOUS
<1> HIDE DEF N
<1> DEFINE From(t, n) == \E k \in 2 .. n : t \in ToSet(Tokens(texts[k]))
           So(n, rest) == /\ Tokens(join[n]) = Tokens(texts[1]) \o rest
                          /\ \A t \in ToSet(rest) : From(t, n)
           S == {0} \cup {n \in 1 .. N : \E rest \in Seq(Words) : So(n, rest)}
<1>3. 1 \in S
  <2> DEFINE none == <<>>
  <2>1. none \in Seq(Words)
    BY EmptySeq
  <2>2. ToSet(none) = {}
    BY DEF ToSet
  <2>3. join[1] = texts[1]
    BY <1>1, <1>2 DEF Joined
  <2>4. Tokens(texts[1]) \o none = Tokens(texts[1])
    <3>1. Tokens(texts[1]) \in Seq(Words)
      BY <1>2, TokensAreWords
    <3> QED  BY <3>1, ConcatEmptySeq
  <2> HIDE DEF none, From
  <2>5. So(1, none)
    BY <2>2, <2>3, <2>4
  <2> HIDE DEF So
  <2>6. 1 \in 1 .. N
    BY <1>2
  <2> QED  BY <2>1, <2>5, <2>6
<1>4. ASSUME NEW n \in 1 .. N, n - 1 \in S PROVE n \in S
  <2>1. CASE n = 1
    BY <1>3, <2>1
  <2>2. CASE n # 1
    <3>1. PICK rest \in Seq(Words) : So(n - 1, rest)
      <4> HIDE DEF So
      <4>1. n - 1 # 0
        BY <1>2, <2>2
      <4> QED  BY <1>4, <4>1
    <3> DEFINE own == Tokens(texts[n])  first == Tokens(texts[1])  longer == rest \o own
    <3>2. own \in Seq(Words) /\ first \in Seq(Words)
      BY <1>2, TokensAreWords
    <3>3. join[n] = join[n - 1] \o <<Blank>> \o texts[n]
      BY <1>1, <2>2 DEF Joined
    <3>4. join[n - 1] \in Text /\ texts[n] \in Text
      BY <1>1, <1>2
    <3>5. Tokens(join[n]) = Tokens(join[n - 1]) \o own
      BY <3>3, <3>4, TokensOfTwo
    <3>6. Tokens(join[n - 1]) = first \o rest
      BY <3>1
    <3>7. Tokens(join[n]) = first \o longer
      <4>1. (first \o rest) \o own = first \o (rest \o own)
        <5> HIDE DEF first, own, longer, So, From, S
        <5> QED  BY <3>2, ConcatAssociative, SMTT(30)
      <4>2. Tokens(join[n]) = (first \o rest) \o own
        BY <3>5, <3>6
      <4> HIDE DEF first, own
      <4> QED  BY <4>1, <4>2
    <3>8. longer \in Seq(Words) /\ ToSet(longer) = ToSet(rest) \cup ToSet(own)
      BY <3>2, ToSetOfConcat
    <3>9. \A t \in ToSet(rest) : From(t, n)
      <4>1. \A k \in 2 .. n - 1 : k \in 2 .. n
        BY <1>2
      <4> QED  BY <3>1, <4>1
    <3>10. \A t \in ToSet(own) : From(t, n)
      <4>1. n \in 2 .. n
        BY <1>2, <2>2
      <4> QED  BY <4>1
    <3> HIDE DEF From, longer, own, first
    <3>11. So(n, longer)
      BY <3>7, <3>8, <3>9, <3>10 DEF first
    <3> HIDE DEF So
    <3> QED  BY <3>8, <3>11
  <2> QED  BY <2>1, <2>2
<1>5. N \in S
  <2> HIDE DEF S
  <2>1. N \in 0 .. N /\ 0 \in S
    BY <1>2 DEF S
  <2> QED  BY <1>2, <1>4, <2>1, Upward
<1>6. PICK rest \in Seq(Words) : So(N, rest)
  <2> HIDE DEF So
  <2> QED  BY <1>2, <1>5
<1>7. join[N] \in Text
  BY <1>1, <1>2
<1> QED  BY <1>1, <1>6, <1>7 DEF N

\* What a list goes on with only adds what is new.
LEMMA DistinctOfTwo ==
    ASSUME NEW V, NEW a \in Seq(V), NEW b \in Seq(V)
    PROVE  /\ Distinct(a) \in Seq(V) /\ Distinct(a \o b) \in Seq(V)
           /\ \E x \in Seq(V) : /\ Distinct(a \o b) = Distinct(a) \o x
                                /\ ToSet(x) \subseteq ToSet(b)
                                /\ ToSet(x) \cap ToSet(Distinct(a)) = {}
<1> DEFINE ab == a \o b  m == Len(a)  k == Len(b)  own == Distinct(a)
<1>1. /\ m \in Nat /\ k \in Nat /\ ab \in Seq(V) /\ Len(ab) = m + k
      /\ \A n \in 1 .. m : ab[n] = a[n]
      /\ \A n \in 1 .. k : ab[m + n] = b[n] /\ b[n] \in V /\ b[n] \in ToSet(b)
  BY DEF ToSet
<1>2. PICK f : /\ f[0] = <<>>
               /\ \A n \in 1 .. m : f[n] = Newer(f[n - 1], a[n])
               /\ \A n \in 0 .. m : f[n] \in Seq(V)
               /\ own = f[m]
  BY EachTokenOnce
<1> HIDE DEF own, m, k, ab
<1>3. PICK g : /\ g[0] = <<>>
               /\ \A n \in 1 .. Len(ab) : g[n] = Newer(g[n - 1], ab[n])
               /\ \A n \in 0 .. Len(ab) : g[n] \in Seq(V)
               /\ Distinct(ab) = g[Len(ab)]
  BY <1>1, EachTokenOnce
<1>4. g[m] = own /\ own \in Seq(V)
  <2> DEFINE S == {n \in 0 .. m : g[n] = f[n]}
  <2>1. 0 \in S
    BY <1>1, <1>2, <1>3
  <2>2. \A n \in 1 .. m : n - 1 \in S => n \in S
    <3> TAKE n \in 1 .. m
    <3>1. n \in 1 .. Len(ab) /\ n \in 0 .. m /\ ab[n] = a[n]
      BY <1>1
    <3> QED  BY <1>2, <1>3, <3>1
  <2>3. m \in S
    <3> HIDE DEF S
    <3>1. m \in 0 .. m
      BY <1>1
    <3> QED  BY <1>1, <2>1, <2>2, <3>1, Upward
  <2> QED  BY <1>1, <1>2, <2>3
<1> DEFINE So(n, x) == /\ g[m + n] = own \o x
                       /\ ToSet(x) \subseteq ToSet(b)
                       /\ ToSet(x) \cap ToSet(own) = {}
           S == {n \in 0 .. k : \E x \in Seq(V) : So(n, x)}
<1>5. 0 \in S
  <2> DEFINE none == <<>>
  <2>1. none \in Seq(V) /\ ToSet(none) = {} /\ own \o none = own
    BY <1>4, EmptySeq, ConcatEmptySeq DEF ToSet
  <2> HIDE DEF none
  <2>2. m + 0 = m
    BY <1>1
  <2>3. So(0, none)
    BY <1>4, <2>1, <2>2
  <2> HIDE DEF So
  <2>4. 0 \in 0 .. k
    BY <1>1
  <2> QED  BY <2>1, <2>3, <2>4
<1>6. ASSUME NEW n \in 1 .. k, n - 1 \in S PROVE n \in S
  <2>1. PICK x \in Seq(V) : So(n - 1, x)
    <3> HIDE DEF So
    <3> QED  BY <1>6
  <2>2. m + n \in 1 .. Len(ab) /\ (m + n) - 1 = m + (n - 1) /\ ab[m + n] = b[n] /\ n \in 0 .. k
    BY <1>1
  <2>3. g[m + n] = Newer(own \o x, b[n])
    BY <1>3, <2>1, <2>2
  <2>4. ToSet(own \o x) = ToSet(own) \cup ToSet(x)
    BY <1>4, ToSetOfConcat
  <2>5. CASE b[n] \in ToSet(own \o x)
    <3>1. So(n, x)
      BY <2>1, <2>3, <2>5 DEF Newer
    <3> QED  BY <2>2, <3>1
  <2>6. CASE b[n] \notin ToSet(own \o x)
    <3> DEFINE one == <<b[n]>>  y == x \o one
    <3>1. one \in Seq(V) /\ ToSet(one) = {b[n]}
      BY <1>1 DEF ToSet
    <3>2. Append(own \o x, b[n]) = own \o y
      <4>1. Append(own \o x, b[n]) = own \o x \o one
        BY <1>1, <1>4, AppendIsConcat, ConcatProperties, SMTT(30)
      <4> HIDE DEF one
      <4>2. (own \o x) \o one = own \o (x \o one)
        <5>1. own \in Seq(V) /\ one \in Seq(V)
          BY <1>4, <3>1
        <5> HIDE DEF So, y, S
        <5> QED  BY <5>1, ConcatAssociative, SMTT(30)
      <4> QED  BY <4>1, <4>2
    <3> HIDE DEF one
    <3>3. y \in Seq(V) /\ ToSet(y) = ToSet(x) \cup {b[n]}
      BY <3>1, ToSetOfConcat
    <3> HIDE DEF y
    <3>4. b[n] \in ToSet(b) /\ b[n] \notin ToSet(own)
      BY <1>1, <2>4, <2>6
    <3>5. So(n, y)
      BY <2>1, <2>3, <2>6, <3>2, <3>3, <3>4 DEF Newer
    <3> QED  BY <2>2, <3>3, <3>5
  <2> QED  BY <2>5, <2>6
<1>7. k \in S
  <2> HIDE DEF S
  <2>1. k \in 0 .. k
    BY <1>1
  <2> QED  BY <1>1, <1>5, <1>6, <2>1, Upward
<1>8. PICK x \in Seq(V) : So(k, x)
  BY <1>7
<1>9. Distinct(ab) = own \o x
  BY <1>1, <1>3, <1>8
<1>10. Distinct(ab) \in Seq(V)
  BY <1>4, <1>9, ConcatProperties
<1> QED  BY <1>4, <1>8, <1>9, <1>10 DEF own, ab

LEMMA InLowerKeeps ==
    ASSUME NEW text \in Text
    PROVE  InLower(text) \in Text
<1> DEFINE atom(i) == IF text[i] \in DOMAIN Lower THEN Lower[text[i]] ELSE text[i]
<1>1. DOMAIN text = 1 .. Len(text) /\ Len(text) \in Nat
  BY DEF Text
<1>2. \A i \in 1 .. Len(text) : atom(i) \in Atoms
  BY LowerAssumption DEF Text, Atoms
<1>3. InLower(text) = [i \in 1 .. Len(text) |-> atom(i)]
  BY <1>1 DEF InLower
<1> HIDE DEF atom
<1>4. InLower(text) \in [1 .. Len(text) -> Atoms]
  BY <1>2, <1>3
<1> QED  BY <1>1, <1>4, FunctionIsList DEF Text

\* What is left of a text without the blanks around it is a text, and a text
\* that is not all blanks leaves one that is not empty.
LEMMA TrimKeeps ==
    ASSUME NEW text \in Text
    PROVE  Trim(text) \in Text /\ (Solid(text) => Trim(text) # <<>>)
<1> DEFINE in == {i \in DOMAIN text : text[i] # Blank}
<1>1. DOMAIN text = 1 .. Len(text) /\ Len(text) \in Nat
  OBVIOUS
<1>2. Trim(text) = IF in = {} THEN <<>> ELSE SubSeq(text, Min(in), Max(in))
  BY DEF Trim
<1>3. Solid(text) <=> in # {}
  BY DEF Solid
<1>4. in \in SUBSET (1 .. Len(text))
  BY <1>1
<1> HIDE DEF in
<1>5. CASE in = {}
  <2>1. Trim(text) = <<>>
    BY <1>2, <1>5
  <2>2. <<>> \in Text
    BY EmptyReading
  <2> QED  BY <1>3, <1>5, <2>1, <2>2
<1>6. CASE in # {}
  <2>1. in \in SUBSET Int /\ IsFiniteSet(in)
    <3>1. IsFiniteSet(1 .. Len(text))
      BY <1>1, FS_Interval
    <3>2. in \in SUBSET Int
      BY <1>4
    <3> QED  BY <1>4, <3>1, <3>2, FS_Subset
  <2>2. Min(in) \in 1 .. Len(text) /\ Max(in) \in 1 .. Len(text) /\ Min(in) <= Max(in)
    <3>1. Min(in) \in in /\ Max(in) \in in /\ \A j \in in : j <= Max(in)
      BY <1>6, <2>1, Bounds
    <3> QED  BY <1>4, <3>1
  <2>3. Trim(text) = SubSeq(text, Min(in), Max(in))
    BY <1>2, <1>6
  <2>4. Trim(text) \in Text /\ Len(Trim(text)) = Max(in) - Min(in) + 1
    BY <1>1, <2>2, <2>3 DEF Text
  <2>5. Trim(text) # <<>>
    BY <2>2, <2>4
  <2> QED  BY <2>4, <2>5
<1> QED  BY <1>5, <1>6

\* A normalized text has the tokens of the text in lower case.
LEMMA NormalizeKeeps ==
    ASSUME NEW text \in Text
    PROVE  Normalize(text) \in Text /\ Tokens(Normalize(text)) = Tokens(InLower(text))
<1>1. InLower(text) \in Text
  BY InLowerKeeps
<1>2. Tokens(InLower(text)) \in Seq(Words)
  BY <1>1, TokensAreWords
<1> QED  BY <1>2, TokensOfJoinedWords DEF Normalize

\* A place with a name begins at i, after one of the prepositions.
Begins(text, Prepositions, i) ==
    /\ text[i] \in Prepositions
    /\ i + 2 <= Len(text)
    /\ text[i + 1] = Blank
    /\ IsWord(text[i + 2])
    /\ Letters(text[i + 2])

\* OfPlace finds one where there is one.
LEMMA OfPlaceBegins ==
    ASSUME NEW text \in Text, NEW P
    PROVE  /\ OfPlace(text, P) # 0 =>
                  OfPlace(text, P) \in DOMAIN text /\ Begins(text, P, OfPlace(text, P))
           /\ \A i \in DOMAIN text : Begins(text, P, i) => OfPlace(text, P) # 0
<1> DEFINE S == {i \in DOMAIN text : Begins(text, P, i)}
<1>1. OfPlace(text, P) = IF S = {} THEN 0 ELSE Min(S)
  BY DEF OfPlace, FirstWhere, Begins
<1>2. S \in SUBSET (1 .. Len(text)) /\ Len(text) \in Nat
  OBVIOUS
<1>3. S # {} => Min(S) \in S
  <2> HIDE DEF S
  <2>1. IsFiniteSet(1 .. Len(text)) /\ S \in SUBSET Int
    BY <1>2, FS_Interval
  <2> QED  BY <1>2, <2>1, FS_Subset, Bounds
<1>4. 0 \notin S
  BY <1>2
<1> QED  BY <1>1, <1>3, <1>4

\* What OfUser finds is one of the ways to speak of the user's place.
LEMMA OfUserStands ==
    ASSUME NEW text \in Text, OfUser(text) # 0
    PROVE  \E n \in Near : NearMe(text) = n \o <<Blank, "me">>
<1> DEFINE Here(i) == \E n \in Near : Stands(text, i, n \o <<Blank, "me">>)
           S == {i \in DOMAIN text : Here(i)}
<1>1. OfUser(text) = IF S = {} THEN 0 ELSE Min(S)
  BY DEF OfUser, FirstWhere
<1>2. S \in SUBSET (1 .. Len(text)) /\ Len(text) \in Nat
  OBVIOUS
<1>3. Min(S) \in S
  <2> HIDE DEF S
  <2>1. IsFiniteSet(1 .. Len(text)) /\ S \in SUBSET Int /\ S # {}
    BY <1>1, <1>2, FS_Interval
  <2> QED  BY <1>2, <2>1, FS_Subset, Bounds
<1>4. \E n \in Near : Stands(text, OfUser(text), n \o <<Blank, "me">>)
  BY <1>1, <1>3
<1> DEFINE n == CHOOSE n \in Near : Stands(text, OfUser(text), n \o <<Blank, "me">>)
<1>5. n \in Near
  BY <1>4
<1>6. NearMe(text) = n \o <<Blank, "me">>
  BY DEF NearMe
<1> QED  BY <1>5, <1>6

\* A place that begins has a name.
LEMMA NamedIsThere ==
    ASSUME NEW text \in Text, NEW P
    PROVE  /\ Named(text, P) \in Text
           /\ Named(text, P) # <<>> <=> OfPlace(text, P) # 0
<1> DEFINE i == OfPlace(text, P)
           ends == {j \in i + 2 .. Len(text) : ~Letters(text[j])}
           end == IF ends = {} THEN Len(text) ELSE Min(ends) - 1
<1>1. Named(text, P) = IF i = 0 THEN <<>> ELSE Trim(SubSeq(text, i + 2, end))
  BY DEF Named
<1>2. CASE i = 0
  <2>1. Named(text, P) = <<>>
    BY <1>1, <1>2
  <2> QED  BY <1>2, <2>1, EmptyReading
<1>3. CASE i # 0
  <2>1. i \in 1 .. Len(text) /\ i + 2 <= Len(text) /\ Len(text) \in Nat
    BY <1>3, OfPlaceBegins DEF Begins
  <2>2. IsWord(text[i + 2]) /\ Letters(text[i + 2])
    BY <1>3, OfPlaceBegins DEF Begins
  <2> HIDE DEF i
  <2>3. end \in i + 2 .. Len(text)
    <3>1. CASE ends = {}
      BY <2>1, <3>1
    <3>2. CASE ends # {}
      <4>1. ends \in SUBSET (i + 2 .. Len(text)) /\ i + 2 \notin ends
        BY <2>2
      <4>2. Min(ends) \in ends
        <5> HIDE DEF ends
        <5>1. IsFiniteSet(i + 2 .. Len(text)) /\ ends \in SUBSET Int
          BY <2>1, <4>1, FS_Interval
        <5> QED  BY <3>2, <4>1, <5>1, FS_Subset, Bounds
      <4>3. Min(ends) \in i + 2 .. Len(text) /\ Min(ends) # i + 2
        BY <4>1, <4>2
      <4>4. end = Min(ends) - 1
        BY <3>2
      <4> HIDE DEF ends, end
      <4> QED  BY <2>1, <4>3, <4>4
    <3> QED  BY <3>1, <3>2
  <2> HIDE DEF ends, end
  <2>4. SubSeq(text, i + 2, end) \in Text /\ Solid(SubSeq(text, i + 2, end))
    <3> DEFINE part == SubSeq(text, i + 2, end)
    <3>1. part \in Text /\ Len(part) = end - (i + 2) + 1 /\ part[1] = text[i + 2]
      BY <2>1, <2>3 DEF Text
    <3>2. 1 \in DOMAIN part
      BY <2>1, <2>3, <3>1
    <3>3. text[i + 2] # Blank
      BY <2>2 DEF IsWord
    <3> QED  BY <3>1, <3>2, <3>3 DEF Solid
  <2>5. Named(text, P) = Trim(SubSeq(text, i + 2, end))
    BY <1>1, <1>3
  <2> QED  BY <1>3, <2>4, <2>5, TrimKeeps DEF i
<1> QED  BY <1>2, <1>3
\* Two atoms after a text, and a text after two atoms.
LEMMA TwoAfter ==
    ASSUME NEW V, NEW s \in Seq(V), s # <<>>, NEW b, NEW c
    PROVE  /\ Len(s \o <<b, c>>) = Len(s) + 2
           /\ (s \o <<b, c>>)[1] = s[1]
           /\ (s \o <<b, c>>)[Len(s) + 2] = c
<1> DEFINE W == V \cup {b, c}
<1>1. s \in Seq(W) /\ Len(s) \in Nat /\ Len(s) # 0
  OBVIOUS
<1>2. <<b, c>> \in Seq(W) /\ Len(<<b, c>>) = 2 /\ <<b, c>>[2] = c
  OBVIOUS
<1> HIDE DEF W
<1> QED  BY <1>1, <1>2

LEMMA TwoBefore ==
    ASSUME NEW V, NEW s \in Seq(V), NEW a, NEW b
    PROVE  (<<a, b>> \o s)[1] = a
<1> DEFINE W == V \cup {a, b}
<1>1. s \in Seq(W) /\ Len(s) \in Nat
  OBVIOUS
<1>2. <<a, b>> \in Seq(W) /\ Len(<<a, b>>) = 2 /\ <<a, b>>[1] = a
  OBVIOUS
<1> HIDE DEF W
<1> QED  BY <1>1, <1>2

\* A list of at most one.
LEMMA SingleList ==
    /\ \A V : <<>> \in Seq(V)
    /\ ToSet(<<>>) = {}
    /\ \A V : \A v \in V : <<v>> \in Seq(V)
    /\ \A v : ToSet(<<v>>) = {v}
<1>1. ToSet(<<>>) = {}
  BY DEF ToSet
<1>2. \A v : ToSet(<<v>>) = {v}
  BY DEF ToSet
<1> QED  BY <1>1, <1>2

\* The ways to say the user's place.
Mine(n) == n \o <<Blank, "me">>

\* They begin with another word than a place with a name, are no keywords and
\* no single words.
LEMMA MineIsNoKeyword ==
    ASSUME NEW n \in Near, NEW P \in Text
    PROVE  /\ Mine(n) \notin ToSet(LocationKeywords)
           /\ \A w \in {"in", "at"} : Mine(n) # <<w, Blank>> \o P
           /\ \A w : Mine(n) # <<w>>
<1>1. /\ Mine(n)[1] \in {"near", "close", "around"}
      /\ Len(Mine(n)) \in {3, 5}
      /\ Len(Mine(n)) = 3 => Mine(n)[3] = "me"
      /\ Len(Mine(n)) # 1
  <2>1. ASSUME NEW a \in {"near", "around"}, n = <<a>>
        PROVE  Mine(n)[1] = a /\ Len(Mine(n)) = 3 /\ Mine(n)[3] = "me"
    BY <2>1, ShortTexts, TwoAfter DEF Mine
  <2>2. CASE n = <<"close", Blank, "to">>
    <3>1. Len(Mine(n)) = 5 /\ Mine(n)[1] = "close"
      BY <2>2, ShortTexts, TwoAfter DEF Mine
    <3> QED  BY <3>1
  <2>3. \/ \E a \in {"near", "around"} : n = <<a>>
        \/ n = <<"close", Blank, "to">>
    BY DEF Near
  <2> QED  BY <2>1, <2>2, <2>3
<1>2. ASSUME NEW w \in {"in", "at"} PROVE Mine(n) # <<w, Blank>> \o P
  <2>1. (<<w, Blank>> \o P)[1] = w
    BY TwoBefore
  <2> QED  BY <1>1, <2>1
<1>3. Mine(n) \notin ToSet(LocationKeywords)
  <2> DEFINE short == {<<"near">>, <<"around">>, <<"in">>, <<"at">>, <<"within">>, <<"nearby">>,
                       <<"me">>, <<"here">>, <<"local">>, <<"downtown">>, <<"uptown">>}
             long == {<<"close", Blank, "to">>, <<"this", Blank, "area">>}
  <2>1. ToSet(LocationKeywords) \subseteq short \cup long
    BY DEF ToSet, LocationKeywords
  <2>2. \A k \in short : Len(k) = 1
    OBVIOUS
  <2>3. \A k \in long : Len(k) = 3 /\ k[3] # "me"
    OBVIOUS
  <2> HIDE DEF short, long
  <2>4. ASSUME NEW k \in short PROVE Mine(n) # k
    <3>1. Len(k) = 1
      BY <2>2
    <3> QED  BY <1>1, <3>1
  <2>5. ASSUME NEW k \in long PROVE Mine(n) # k
    <3>1. Len(k) = 3 /\ k[3] # "me"
      BY <2>3
    <3> QED  BY <1>1, <3>1
  <2> QED  BY <2>1, <2>4, <2>5
<1>4. ASSUME NEW w PROVE Mine(n) # <<w>>
  <2>1. Len(<<w>>) = 1
    BY ShortTexts
  <2> QED  BY <1>1, <2>1
<1> QED  BY <1>2, <1>3, <1>4

LEMMA KeywordsAreListed ==
    /\ LocationKeywords \in Seq(ToSet(LocationKeywords))
    /\ \A w \in {"in", "at", "within"} :
          \E k \in DOMAIN LocationKeywords : LocationKeywords[k] = <<w>>
<1>1. LocationKeywords = [k \in 1 .. 13 |-> LocationKeywords[k]]
  BY DEF LocationKeywords
<1>2. ToSet(LocationKeywords) = {LocationKeywords[k] : k \in 1 .. 13}
  BY <1>1 DEF ToSet
<1>3. LocationKeywords \in [1 .. 13 -> ToSet(LocationKeywords)]
  BY <1>1, <1>2
<1>4. /\ LocationKeywords[4] = <<"in">>
      /\ LocationKeywords[5] = <<"at">>
      /\ LocationKeywords[6] = <<"within">>
  BY DEF LocationKeywords
<1>5. LocationKeywords \in Seq(ToSet(LocationKeywords))
  BY <1>3, FunctionIsList
<1>6. 4 \in 1 .. 13 /\ 5 \in 1 .. 13 /\ 6 \in 1 .. 13 /\ DOMAIN LocationKeywords = 1 .. 13
  BY <1>1
<1> QED  BY <1>4, <1>5, <1>6

\* The places that the entities of a text have.
LEMMA LocationReferences ==
    ASSUME NEW text \in Text
    PROVE  LET places == ToSet(ExtractLocationReferences(text))
           IN  /\ (\E n \in Near : Mine(n) \in places) <=> OfUser(text) # 0
               /\ \A w \in {"in", "at", "within"} :
                     Occurs(<<w>>, text) => <<w>> \in places
<1> DEFINE place == OfPlace(text, {"in", "at"})
           In(i) == text[i] \in {"downtown", "uptown", "midtown"}
           town == FirstWhere(text, In)
           named == <<text[place], Blank>> \o Named(text, {"in", "at"})
           keywords == {k \in DOMAIN LocationKeywords : Occurs(LocationKeywords[k], text)}
           kept == Chosen(LocationKeywords, keywords)
           ofUser == IF OfUser(text) = 0 THEN <<>> ELSE <<NearMe(text)>>
           ofPlace == IF place = 0 THEN <<>> ELSE <<named>>
           ofTown == IF town = 0 THEN <<>> ELSE << <<text[town]>> >>
           V == ToSet(LocationKeywords) \cup {NearMe(text), named, <<text[town]>>}
           places == ToSet(ExtractLocationReferences(text))
<1>1. ExtractLocationReferences(text) = kept \o ofUser \o ofPlace \o ofTown
  BY DEF ExtractLocationReferences
<1>2. kept \in Seq(V) /\ ToSet(kept) = {LocationKeywords[k] : k \in keywords}
  <2>1. /\ kept \in Seq(ToSet(LocationKeywords))
        /\ ToSet(kept) = {LocationKeywords[k] : k \in keywords}
    <3>1. keywords \in SUBSET (DOMAIN LocationKeywords)
      OBVIOUS
    <3> HIDE DEF keywords
    <3> QED  BY <3>1, KeywordsAreListed, ChosenKeeps
  <2>2. ToSet(LocationKeywords) \subseteq V
    OBVIOUS
  <2> HIDE DEF kept, keywords, V
  <2> QED  BY <2>1, <2>2, SeqMonotonic
<1>3. ofUser \in Seq(V) /\ ToSet(ofUser) = IF OfUser(text) = 0 THEN {} ELSE {NearMe(text)}
  BY SingleList
<1>4. ofPlace \in Seq(V) /\ ToSet(ofPlace) = IF place = 0 THEN {} ELSE {named}
  BY SingleList
<1>5. ofTown \in Seq(V) /\ ToSet(ofTown) = IF town = 0 THEN {} ELSE {<<text[town]>>}
  BY SingleList
<1>6. places = ToSet(kept) \cup ToSet(ofUser) \cup ToSet(ofPlace) \cup ToSet(ofTown)
  <2> HIDE DEF kept, ofUser, ofPlace, ofTown, V
  <2> DEFINE two == kept \o ofUser
             three == two \o ofPlace
  <2>1. two \in Seq(V) /\ ToSet(two) = ToSet(kept) \cup ToSet(ofUser)
    <3> HIDE DEF kept, ofUser, V
    <3> QED  BY <1>2, <1>3, ToSetOfConcat
  <2>2. places = ToSet(three \o ofTown)
    BY <1>1
  <2> HIDE DEF two, ofPlace, ofTown, V
  <2>3. ofPlace \in Seq(V) /\ ofTown \in Seq(V)
    BY <1>4, <1>5
  <2>4. three \in Seq(V) /\ ToSet(three) = ToSet(two) \cup ToSet(ofPlace)
    BY <2>1, <2>3, ToSetOfConcat
  <2> HIDE DEF three
  <2>5. ToSet(three \o ofTown) = ToSet(three) \cup ToSet(ofTown)
    BY <2>4, <2>3, ToSetOfConcat
  <2> HIDE DEF places
  <2> QED  BY <2>1, <2>2, <2>4, <2>5
<1>7. ASSUME NEW n \in Near, Mine(n) \in places PROVE OfUser(text) # 0
  <2>1. Mine(n) \notin ToSet(kept)
    <3>1. ToSet(kept) \subseteq ToSet(LocationKeywords)
      BY <1>2 DEF ToSet
    <3>2. Named(text, {"in", "at"}) \in Text
      BY NamedIsThere
    <3> QED  BY <3>1, <3>2, MineIsNoKeyword
  <2>2. Mine(n) \notin ToSet(ofPlace)
    <3>1. CASE place = 0
      BY <1>4, <3>1
    <3>2. CASE place # 0
      <4>1. text[place] \in {"in", "at"}
        BY <3>2, OfPlaceBegins DEF Begins
      <4>2. Mine(n) # named
        BY <4>1, NamedIsThere, MineIsNoKeyword
      <4> QED  BY <1>4, <3>2, <4>2
    <3> QED  BY <3>1, <3>2
  <2>3. Mine(n) \notin ToSet(ofTown)
    BY <1>5, MineIsNoKeyword, NamedIsThere
  <2> HIDE DEF kept, ofUser, ofPlace, ofTown, places
  <2> QED  BY <1>3, <1>6, <1>7, <2>1, <2>2, <2>3
<1>8. ASSUME OfUser(text) # 0 PROVE \E n \in Near : Mine(n) \in places
  <2>1. PICK n \in Near : NearMe(text) = Mine(n)
    BY <1>8, OfUserStands DEF Mine
  <2> HIDE DEF kept, ofUser, ofPlace, ofTown, places
  <2> QED  BY <1>3, <1>6, <1>8, <2>1
<1>9. ASSUME NEW w \in {"in", "at", "within"}, Occurs(<<w>>, text) PROVE <<w>> \in places
  <2>1. PICK k \in DOMAIN LocationKeywords : LocationKeywords[k] = <<w>>
    BY KeywordsAreListed
  <2>2. k \in keywords
    BY <1>9, <2>1
  <2> HIDE DEF kept, ofUser, ofPlace, ofTown, places, keywords
  <2>3. <<w>> \in ToSet(kept)
    BY <1>2, <2>1, <2>2
  <2> QED  BY <1>6, <2>3
<1> QED  BY <1>7, <1>8, <1>9
\* What LocationsAgree says of a query, however it is asked.
LEMMA PlacesAgree ==
    ASSUME NEW query \in Text, NEW from
    PROVE  LET places == ToSet(ExtractEntities(query).locations)
               location == ProcessLocationQuery(query, from)
           IN  /\ (\E n \in Near : Mine(n) \in places) <=> location.type = "user_location"
               /\ location.type = "named_location" =>
                      places \cap {<<"in">>, <<"at">>, <<"within">>} # {}
               /\ location.type \in {"none", "coordinates"} =>
                      Named(Normalize(query), {"in", "at"}) = <<>>
<1> DEFINE text == Normalize(query)
           located == [NoLocation EXCEPT !.radius = ExtractRadius(text)]
           name == Named(text, {"in", "at", "within"})
           coordinates == ExtractCoordinates(text)
           user_place == OfUser(text)
           location == ProcessLocationQuery(query, from)
           places == ToSet(ExtractEntities(query).locations)
<1>1. text \in Text
  BY NormalizeKeeps
<1>2. places = ToSet(ExtractLocationReferences(text))
  BY DEF ExtractEntities
<1>3. /\ user_place # 0 => location.type = "user_location"
      /\ user_place = 0 /\ name # <<>> => location.type = "named_location"
      /\ user_place = 0 /\ name = <<>> => location.type \in {"none", "coordinates"}
  <2>1. location = CASE user_place # 0 ->
                          [located EXCEPT !.type = "user_location", !.coordinates = from]
                     [] user_place = 0 /\ name # <<>> ->
                          [located EXCEPT !.type = "named_location", !.name = name]
                     [] user_place = 0 /\ name = <<>> /\ coordinates # <<>> ->
                          [located EXCEPT !.type = "coordinates", !.coordinates = coordinates]
                     [] OTHER -> NoLocation
    BY DEF ProcessLocationQuery
  <2>2. \A t : [located EXCEPT !.type = "user_location", !.coordinates = t].type
                   = "user_location"
    BY DEF NoLocation
  <2>3. \A t : [located EXCEPT !.type = "named_location", !.name = t].type
                   = "named_location"
    BY DEF NoLocation
  <2>4. \A t : [located EXCEPT !.type = "coordinates", !.coordinates = t].type
                   = "coordinates"
    BY DEF NoLocation
  <2>5. NoLocation.type = "none"
    BY DEF NoLocation
  <2> HIDE DEF located, name, coordinates, user_place, location
  <2>6. CASE user_place # 0
    BY <2>1, <2>2, <2>6
  <2>7. CASE user_place = 0 /\ name # <<>>
    BY <2>1, <2>3, <2>7
  <2>8. CASE user_place = 0 /\ name = <<>> /\ coordinates # <<>>
    BY <2>1, <2>4, <2>8
  <2>9. CASE user_place = 0 /\ name = <<>> /\ coordinates = <<>>
    BY <2>1, <2>5, <2>9
  <2> QED  BY <2>6, <2>7, <2>8, <2>9
<1> HIDE DEF location, text
<1>4. (\E n \in Near : Mine(n) \in places) <=> user_place # 0
  BY <1>1, <1>2, LocationReferences
<1>5. ASSUME name # <<>> PROVE places \cap {<<"in">>, <<"at">>, <<"within">>} # {}
  <2> DEFINE i == OfPlace(text, {"in", "at", "within"})
             w == text[i]
  <2>1. i \in DOMAIN text /\ w \in {"in", "at", "within"}
    BY <1>1, <1>5, NamedIsThere, OfPlaceBegins DEF Begins
  <2>2. Occurs(<<w>>, text)
    <3>1. Len(<<w>>) = 1
      BY ShortTexts
    <3> HIDE DEF i
    <3>2. i \in 1 .. Len(text) /\ Len(text) \in Nat
      BY <1>1, <2>1
    <3>3. SubSeq(text, i, i) = <<w>>
      BY <3>2, SubSeqOfOne
    <3>4. i + Len(<<w>>) - 1 = i
      BY <3>1, <3>2
    <3>5. Stands(text, i, <<w>>)
      BY <3>2, <3>3, <3>4 DEF Stands
    <3> QED  BY <2>1, <3>5 DEF Occurs
  <2> HIDE DEF w
  <2>3. <<w>> \in places
    BY <1>1, <1>2, <2>1, <2>2, LocationReferences
  <2>4. <<w>> \in {<<"in">>, <<"at">>, <<"within">>}
    BY <2>1
  <2> QED  BY <2>3, <2>4
<1>6. ASSUME name = <<>> PROVE Named(text, {"in", "at"}) = <<>>
  <2> DEFINE i == OfPlace(text, {"in", "at"})
  <2>1. OfPlace(text, {"in", "at", "within"}) = 0
    BY <1>1, <1>6, NamedIsThere
  <2>2. ASSUME i # 0 PROVE FALSE
    <3>1. i \in DOMAIN text /\ Begins(text, {"in", "at"}, i)
      BY <1>1, <2>2, OfPlaceBegins
    <3>2. Begins(text, {"in", "at", "within"}, i)
      BY <3>1 DEF Begins
    <3> QED  BY <1>1, <2>1, <3>1, <3>2, OfPlaceBegins
  <2> QED  BY <1>1, <2>2, NamedIsThere
<1> HIDE DEF name, user_place, places
<1>7. location.type = "user_location" <=> user_place # 0
  BY <1>3
<1>8. location.type = "named_location" => name # <<>>
  BY <1>3
<1>9. location.type \in {"none", "coordinates"} => name = <<>>
  BY <1>3
<1> QED  BY <1>4, <1>5, <1>6, <1>7, <1>8, <1>9 DEF location, places, text
-----------------------------------------------------------------------------
\* What a query is expanded to.

\* Where the members of two lists are, one after the other.
LEMMA MembersOfTwo ==
    ASSUME NEW V, NEW s \in Seq(V), NEW t \in Seq(V)
    PROVE  /\ s \o t \in Seq(V) /\ Len(s \o t) = Len(s) + Len(t)
           /\ \A i \in 1 .. Len(s) : (s \o t)[i] = s[i]
           /\ \A i \in 1 .. Len(t) : (s \o t)[Len(s) + i] = t[i]
  OBVIOUS

\* The two parts of two lists, one after the other.
LEMMA PartsOfTwo ==
    ASSUME NEW V, NEW s \in Seq(V), NEW t \in Seq(V)
    PROVE  /\ SubSeq(s \o t, 1, Len(s)) = s
           /\ SubSeq(s \o t, Len(s) + 1, Len(s \o t)) = t
<1> DEFINE st == s \o t  m == Len(s)  k == Len(t)
           first == SubSeq(st, 1, m)  second == SubSeq(st, m + 1, m + k)
<1>1. /\ m \in Nat /\ k \in Nat /\ Len(st) = m + k
      /\ \A i \in 1 .. m + k : st[i] \in V
      /\ \A i \in 1 .. m : st[i] = s[i]
      /\ \A i \in 1 .. k : st[m + i] = t[i]
  <2>1. st \in Seq(V) /\ Len(st) = m + k
    OBVIOUS
  <2>2. \A i \in 1 .. m + k : st[i] \in V
    <3> HIDE DEF st, m, k
    <3> QED  BY <2>1, ElementOfSeq
  <2> QED  BY <2>1, <2>2
<1> HIDE DEF st, m, k
<1>2. first \in Seq(V) /\ Len(first) = m /\ \A i \in 1 .. m : first[i] = s[i]
  <2>1. \A i \in 1 .. m : st[i] \in V
    BY <1>1
  <2>2. /\ first \in Seq(V) /\ Len(first) = IF 1 <= m THEN m - 1 + 1 ELSE 0
        /\ \A i \in 1 .. m - 1 + 1 : first[i] = st[1 + i - 1]
    BY <1>1, <2>1, SubSeqProperties
  <2> HIDE DEF first
  <2>3. Len(first) = m
    BY <1>1, <2>2
  <2>4. ASSUME NEW i \in 1 .. m PROVE first[i] = s[i]
    <3>1. 1 + i - 1 = i /\ i \in 1 .. m - 1 + 1
      BY <1>1
    <3> QED  BY <1>1, <2>2, <3>1
  <2> QED  BY <2>2, <2>3, <2>4
<1>3. second \in Seq(V) /\ Len(second) = k /\ \A i \in 1 .. k : second[i] = t[i]
  <2>1. \A i \in m + 1 .. m + k : st[i] \in V
    BY <1>1
  <2>2. /\ second \in Seq(V)
        /\ Len(second) = IF m + 1 <= m + k THEN m + k - (m + 1) + 1 ELSE 0
        /\ \A i \in 1 .. m + k - (m + 1) + 1 : second[i] = st[m + 1 + i - 1]
    BY <1>1, <2>1, SubSeqProperties
  <2> HIDE DEF second
  <2>3. Len(second) = k
    BY <1>1, <2>2
  <2>4. ASSUME NEW i \in 1 .. k PROVE second[i] = t[i]
    <3>1. m + 1 + i - 1 = m + i /\ i \in 1 .. m + k - (m + 1) + 1
      BY <1>1
    <3> QED  BY <1>1, <2>2, <3>1
  <2> QED  BY <2>2, <2>3, <2>4
<1>4. first = s
  <2> HIDE DEF first
  <2> QED  BY <1>2, SeqEqual DEF m
<1>5. second = t
  <2> HIDE DEF second
  <2> QED  BY <1>3, SeqEqual DEF k
<1> QED  BY <1>1, <1>4, <1>5 DEF st, m

\* The first members of a list.
LEMMA FirstOfKeeps ==
    ASSUME NEW V, NEW s \in Seq(V), NEW n \in Nat
    PROVE  FirstOf(s, n) \in Seq(V) /\ ToSet(FirstOf(s, n)) \subseteq ToSet(s)
<1> DEFINE m == IF n < Len(s) THEN n ELSE Len(s)
           part == SubSeq(s, 1, m)
<1>1. m \in Nat /\ m <= Len(s) /\ Len(s) \in Nat
  OBVIOUS
<1>2. \A i \in 1 .. Len(s) : s[i] \in ToSet(s) /\ s[i] \in V
  BY DEF ToSet
<1>3. FirstOf(s, n) = part
  BY DEF FirstOf
<1> HIDE DEF m
<1>4. \A i \in 1 .. m : s[i] \in ToSet(s) \cap V
  BY <1>1, <1>2
<1>5. part \in Seq(ToSet(s) \cap V)
  BY <1>1, <1>4, SubSeqProperties
<1> HIDE DEF part
<1>6. part \in Seq(V)
  <2>1. ToSet(s) \cap V \subseteq V
    OBVIOUS
  <2> QED  BY <1>5, <2>1, SeqMonotonic
<1>7. ToSet(part) \subseteq ToSet(s)
  <2>1. \A i \in 1 .. Len(part) : part[i] \in ToSet(s)
    BY <1>5, ElementOfSeq
  <2>2. DOMAIN part = 1 .. Len(part)
    BY <1>5
  <2> QED  BY <2>1, <2>2 DEF ToSet
<1> QED  BY <1>3, <1>6, <1>7

\* The synonyms of a term are texts.
LEMMA SynonymsAreTexts == ASSUME NEW term PROVE SynonymsOf(term) \in Seq(Text)
<1>1. SynonymsOf(term) \in Seq(Seq(STRING))
  BY TablesAssumption, EmptySeq DEF SynonymsOf
<1>2. Seq(STRING) \subseteq Text
  <2>1. STRING \subseteq Atoms
    BY DEF Atoms
  <2> QED  BY <2>1, SeqMonotonic DEF Text
<1> QED  BY <1>1, <1>2, SeqMonotonic

\* What a query is joined with are texts, and synonyms of one of the types.
Cause(types, more) ==
    \E type \in ToSet(types) \cup {<<>>} : ToSet(more) \subseteq ToSet(SynonymsOf(type))
LEMMA AddedIsCaused ==
    ASSUME NEW V, NEW types \in Seq(V), NEW n \in Nat, NEW more,
           more = <<>> \/ (types # <<>> /\ more = FirstOf(SynonymsOf(types[1]), n))
    PROVE  more \in Seq(Text) /\ Cause(types, more)
<1>1. CASE more = <<>>
  <2> DEFINE none == <<>>
  <2>1. none \in Seq(Text) /\ ToSet(none) = {}
    BY EmptySeq DEF ToSet
  <2> HIDE DEF none
  <2>2. more = none /\ none \in ToSet(types) \cup {<<>>}
    BY <1>1 DEF none
  <2> QED  BY <2>1, <2>2 DEF Cause
<1>2. CASE types # <<>> /\ more = FirstOf(SynonymsOf(types[1]), n)
  <2>1. types[1] \in ToSet(types)
    BY <1>2 DEF ToSet
  <2>2. more \in Seq(Text) /\ ToSet(more) \subseteq ToSet(SynonymsOf(types[1]))
    BY <1>2, SynonymsAreTexts, FirstOfKeeps
  <2> QED  BY <2>1, <2>2 DEF Cause
<1> QED  BY <1>1, <1>2

\* What the words of the query are, what an expansion has them followed by,
\* and where that comes from.
Follows(own, all, from) ==
    /\ FirstOf(all, Len(own)) = own
    /\ ToSet(SubSeq(all, Len(own) + 1, Len(all))) \cap ToSet(own) = {}
    /\ ToSet(SubSeq(all, Len(own) + 1, Len(all))) \subseteq UNION {ToSet(Tokens(s)) : s \in from}

\* A query and texts that follow it, joined, make one whose words are its own,
\* each once, and new ones of those texts.
LEMMA ExpandedKeeps ==
    ASSUME NEW query \in Text, NEW more \in Seq(Text)
    PROVE  Follows(Distinct(Tokens(query)),
                   Tokens(JoinTokens(Distinct(Tokens(JoinTokens(<<query>> \o more))))),
                   ToSet(more))
<1> DEFINE one == <<query>>
           texts == one \o more
           joined == Tokens(JoinTokens(texts))
           own == Distinct(Tokens(query))
           all == Tokens(JoinTokens(Distinct(joined)))
<1>1. one \in Seq(Text) /\ Len(one) = 1 /\ one[1] = query
  BY ShortTexts
<1>2. /\ texts \in Seq(Text) /\ Len(texts) = 1 + Len(more)
      /\ texts[1] = query
      /\ \A k \in 2 .. Len(texts) : texts[k] \in ToSet(more)
  <2> HIDE DEF one
  <2>1. /\ texts \in Seq(Text) /\ Len(texts) = 1 + Len(more)
        /\ texts[1] = one[1]
        /\ \A k \in 1 .. Len(more) : texts[1 + k] = more[k]
    <3>1. /\ texts \in Seq(Text) /\ Len(texts) = Len(one) + Len(more)
          /\ \A k \in 1 .. Len(one) : texts[k] = one[k]
          /\ \A k \in 1 .. Len(more) : texts[Len(one) + k] = more[k]
      <4> HIDE DEF joined, own, all
      <4> QED  BY <1>1, MembersOfTwo, SMTT(30)
    <3> QED  BY <1>1, <3>1
  <2> HIDE DEF texts
  <2>2. ASSUME NEW k \in 2 .. Len(texts) PROVE texts[k] \in ToSet(more)
    <3>1. k - 1 \in 1 .. Len(more) /\ 1 + (k - 1) = k
      BY <2>1
    <3>2. texts[k] = more[k - 1]
      BY <2>1, <3>1
    <3> QED  BY <3>1, <3>2 DEF ToSet
  <2> QED  BY <1>1, <2>1, <2>2
<1> HIDE DEF texts, one
<1>3. texts # <<>>
  <2>1. Len(more) \in Nat
    OBVIOUS
  <2> QED  BY <1>2, <2>1
<1>4. PICK rest \in Seq(Words) :
         /\ joined = Tokens(texts[1]) \o rest
         /\ \A t \in ToSet(rest) : \E k \in 2 .. Len(texts) : t \in ToSet(Tokens(texts[k]))
  BY <1>2, <1>3, TokensOfJoined
<1>5. Tokens(query) \in Seq(Words) /\ joined = Tokens(query) \o rest
  BY <1>2, <1>4, TokensAreWords
<1> HIDE DEF joined
<1>6. own \in Seq(Words) /\ Distinct(joined) \in Seq(Words)
  <2> DEFINE words == Tokens(query)
  <2> HIDE DEF words
  <2> QED  BY <1>5, DistinctOfTwo, ZenonT(30) DEF words
<1>7. PICK x \in Seq(Words) : /\ Distinct(joined) = own \o x
                              /\ ToSet(x) \subseteq ToSet(rest)
                              /\ ToSet(x) \cap ToSet(own) = {}
  <2> DEFINE words == Tokens(query)
  <2> HIDE DEF words
  <2> QED  BY <1>5, DistinctOfTwo, ZenonT(30) DEF words
<1>8. all = own \o x
  BY <1>6, <1>7, TokensOfJoinedWords
<1> HIDE DEF all, own
<1>9. SubSeq(all, 1, Len(own)) = own /\ SubSeq(all, Len(own) + 1, Len(all)) = x
  BY <1>6, <1>7, <1>8, PartsOfTwo
<1>10. FirstOf(all, Len(own)) = own
  <2>1. Len(all) = Len(own) + Len(x) /\ Len(own) \in Nat /\ Len(x) \in Nat
    BY <1>6, <1>7, <1>8
  <2>2. (IF Len(own) < Len(all) THEN Len(own) ELSE Len(all)) = Len(own)
    BY <2>1
  <2> QED  BY <1>9, <2>2 DEF FirstOf
<1>11. ToSet(x) \subseteq UNION {ToSet(Tokens(s)) : s \in ToSet(more)}
  <2>1. ASSUME NEW t \in ToSet(x) PROVE \E s \in ToSet(more) : t \in ToSet(Tokens(s))
    <3>1. PICK k \in 2 .. Len(texts) : t \in ToSet(Tokens(texts[k]))
      BY <1>4, <1>7
    <3> QED  BY <1>2, <3>1
  <2> QED  BY <2>1
<1>12. Follows(own, all, ToSet(more))
  BY <1>7, <1>9, <1>10, <1>11 DEF Follows
<1> QED  BY <1>12 DEF own, all, joined, texts, one

\* expandQuery: the words of the query stay, and what is added has its cause
\* among the types and the services.
LEMMA ExpandQueryKeeps ==
    ASSUME NEW V, NEW query \in Text, NEW types \in Seq(V), NEW services \in Seq(V)
    PROVE  /\ \E type \in ToSet(types) \cup {<<>>}, service \in ToSet(services) \cup {<<>>} :
                Follows(Distinct(Tokens(query)), Tokens(ExpandQuery(query, types, services)),
                        ToSet(SynonymsOf(type) \o SynonymsOf(service)))
           /\ types = <<>> /\ services = <<>> =>
                Follows(Distinct(Tokens(query)), Tokens(ExpandQuery(query, types, services)), {})
<1> DEFINE ofType == IF types = <<>> THEN <<>> ELSE FirstOf(SynonymsOf(types[1]), 2)
           ofService == IF services = <<>> \/ services[1] \in ToSet(types) THEN <<>>
                        ELSE FirstOf(SynonymsOf(services[1]), 1)
           more == ofType \o ofService
           own == Distinct(Tokens(query))
           all == Tokens(ExpandQuery(query, types, services))
           one == <<query>>
<1>1. ofType \in Seq(Text) /\ Cause(types, ofType)
  <2>1. ofType = <<>> \/ (types # <<>> /\ ofType = FirstOf(SynonymsOf(types[1]), 2))
    OBVIOUS
  <2> HIDE DEF ofType
  <2> QED  BY <2>1, AddedIsCaused
<1>2. ofService \in Seq(Text) /\ Cause(services, ofService)
  <2>1. \/ ofService = <<>>
        \/ services # <<>> /\ ofService = FirstOf(SynonymsOf(services[1]), 1)
    OBVIOUS
  <2> HIDE DEF ofService
  <2> QED  BY <2>1, AddedIsCaused
<1>3. ExpandQuery(query, types, services)
          = JoinTokens(Distinct(Tokens(JoinTokens(one \o ofType \o ofService))))
  BY DEF ExpandQuery
<1>4. types = <<>> /\ services = <<>> => ofType = <<>> /\ ofService = <<>>
  OBVIOUS
<1> HIDE DEF ofType, ofService
<1>5. one \in Seq(Text)
  BY ShortTexts
<1> HIDE DEF one
<1>6. (one \o ofType) \o ofService = one \o more
  BY <1>1, <1>2, <1>5, ConcatAssociative
<1>7. more \in Seq(Text) /\ ToSet(more) = ToSet(ofType) \cup ToSet(ofService)
  BY <1>1, <1>2, ToSetOfConcat
<1> HIDE DEF more
<1>8. Follows(own, all, ToSet(more))
  BY <1>3, <1>6, <1>7, ExpandedKeeps DEF one
<1> HIDE DEF own, all
<1>9. PICK type \in ToSet(types) \cup {<<>>} : ToSet(ofType) \subseteq ToSet(SynonymsOf(type))
  BY <1>1 DEF Cause
<1>10. PICK service \in ToSet(services) \cup {<<>>} :
          ToSet(ofService) \subseteq ToSet(SynonymsOf(service))
  BY <1>2 DEF Cause
<1>11. ToSet(more) \subseteq ToSet(SynonymsOf(type) \o SynonymsOf(service))
  <2>1. ToSet(SynonymsOf(type) \o SynonymsOf(service))
            = ToSet(SynonymsOf(type)) \cup ToSet(SynonymsOf(service))
    BY SynonymsAreTexts, ToSetOfConcat
  <2> QED  BY <1>7, <1>9, <1>10, <2>1
<1>12. Follows(own, all, ToSet(SynonymsOf(type) \o SynonymsOf(service)))
  BY <1>8, <1>11 DEF Follows
<1>13. types = <<>> /\ services = <<>> => ToSet(more) = {}
  <2>1. ToSet(<<>>) = {}
    BY DEF ToSet
  <2> QED  BY <1>4, <1>7, <2>1
<1>14. types = <<>> /\ services = <<>> => Follows(own, all, {})
  BY <1>8, <1>13
<1> QED  BY <1>9, <1>10, <1>12, <1>14 DEF own, all

\* The types and the services that a text names are lists.
LEMMA EntitiesAreLists ==
    ASSUME NEW query
    PROVE  \E V : /\ ExtractEntities(query).businessTypes \in Seq(V)
                  /\ ExtractEntities(query).services \in Seq(V)
<1> DEFINE text == Normalize(query)
           Mentioned(entry) == \/ MatchesWord(text, entry[1])
                               \/ \E s \in ToSet(entry[2]) : MatchesWord(text, s)
           types == [k \in DOMAIN BusinessTypes |-> BusinessTypes[k][1]]
           named == {k \in DOMAIN BusinessTypes : Mentioned(BusinessTypes[k])}
           offered == {k \in DOMAIN ServiceKeywords : Occurs(ServiceKeywords[k], text)}
           V == Seq(STRING) \cup ToSet(ServiceKeywords)
<1>1. Chosen(types, named) \in Seq(V)
  <2>1. types \in Seq(Seq(STRING)) /\ DOMAIN types = DOMAIN BusinessTypes
    <3> DEFINE Names == Seq(STRING)
               Entry == Names \X Seq(Names)
               N == Len(BusinessTypes)
    <3>1. BusinessTypes \in Seq(Entry)
      BY TablesAssumption
    <3>2. \A e \in Entry : e[1] \in Names
      OBVIOUS
    <3> HIDE DEF Entry, Names
    <3>3. /\ N \in Nat /\ DOMAIN BusinessTypes = 1 .. N
          /\ \A k \in 1 .. N : BusinessTypes[k] \in Entry
      BY <3>1
    <3>4. types = [k \in 1 .. N |-> BusinessTypes[k][1]]
      BY <3>3
    <3>5. types \in [1 .. N -> Names]
      BY <3>2, <3>3, <3>4
    <3>6. DOMAIN types = 1 .. N
      BY <3>4
    <3> HIDE DEF types, N
    <3>7. types \in Seq(Names)
      BY <3>3, <3>5, FunctionIsList
    <3> QED  BY <3>3, <3>6, <3>7 DEF Names
  <2>2. types \in Seq(V)
    <3>1. Seq(STRING) \subseteq V
      OBVIOUS
    <3> HIDE DEF V, types
    <3> QED  BY <2>1, <3>1, SeqMonotonic
  <2>3. named \in SUBSET (DOMAIN types)
    BY <2>1
  <2> HIDE DEF types, named, V
  <2> QED  BY <2>2, <2>3, ChosenKeeps
<1>2. Chosen(ServiceKeywords, offered) \in Seq(V)
  <2>1. ServiceKeywords = [k \in 1 .. 15 |-> ServiceKeywords[k]]
    BY DEF ServiceKeywords
  <2>2. ToSet(ServiceKeywords) = {ServiceKeywords[k] : k \in 1 .. 15}
    BY <2>1 DEF ToSet
  <2>3. ServiceKeywords \in [1 .. 15 -> V]
    BY <2>1, <2>2
  <2>4. ServiceKeywords \in Seq(V) /\ offered \in SUBSET (DOMAIN ServiceKeywords)
    <3> HIDE DEF V
    <3>1. ServiceKeywords \in Seq(V)
      BY <2>3, FunctionIsList
    <3> QED  BY <3>1
  <2> HIDE DEF offered, V
  <2> QED  BY <2>4, ChosenKeeps
<1>3. ExtractEntities(query).businessTypes = Chosen(types, named)
  BY DEF ExtractEntities, ExtractBusinessTypes
<1>4. ExtractEntities(query).services = Chosen(ServiceKeywords, offered)
  BY DEF ExtractEntities
<1> QED  BY <1>1, <1>2, <1>3, <1>4
-----------------------------------------------------------------------------
\* What a parsed query asks for: every word of the query, and nothing else.

\* s is what stands in the text from one place to another.
IsPart(s, text) == \E x \in Text, y \in Text : s \in Text /\ text = x \o s \o y

\* What two and three texts make that are joined.
LEMMA Regroup ==
    ASSUME NEW x \in Text, NEW s \in Text, NEW y \in Text
    PROVE  x \o s \o y = x \o (s \o y)
BY ConcatAssociative DEF Text

LEMMA Two ==
    ASSUME NEW s \in Text, NEW t \in Text
    PROVE  /\ s \o t \in Text /\ Len(s \o t) = Len(s) + Len(t)
           /\ Len(s) \in Nat /\ Len(t) \in Nat
           /\ \A i \in 1 .. Len(s) : (s \o t)[i] = s[i]
           /\ \A i \in 1 .. Len(t) : (s \o t)[Len(s) + i] = t[i]
<1>1. s \in Seq(Atoms) /\ t \in Seq(Atoms)
  BY DEF Text
<1> QED  BY <1>1, MembersOfTwo DEF Text

LEMMA Three ==
    ASSUME NEW x \in Text, NEW s \in Text, NEW y \in Text
    PROVE  /\ x \o s \o y \in Text /\ x \o s \in Text /\ s \o y \in Text
           /\ x \o s \o y = x \o (s \o y)
           /\ Len(x \o s \o y) = Len(x) + Len(s) + Len(y)
           /\ Len(x) \in Nat /\ Len(s) \in Nat /\ Len(y) \in Nat
           /\ \A i \in 1 .. Len(x) : (x \o s \o y)[i] = x[i]
           /\ \A i \in 1 .. Len(s) : (x \o s \o y)[Len(x) + i] = s[i]
           /\ \A i \in 1 .. Len(y) : (x \o s \o y)[Len(x) + Len(s) + i] = y[i]
<1> DEFINE xs == x \o s
<1>1. /\ xs \in Text /\ Len(xs) = Len(x) + Len(s)
      /\ \A i \in 1 .. Len(x) : xs[i] = x[i]
      /\ \A i \in 1 .. Len(s) : xs[Len(x) + i] = s[i]
  BY Two
<1>2. Len(x) \in Nat /\ Len(s) \in Nat /\ Len(y) \in Nat
  BY DEF Text
<1> HIDE DEF xs
<1>3. /\ xs \o y \in Text /\ Len(xs \o y) = Len(xs) + Len(y)
      /\ \A i \in 1 .. Len(xs) : (xs \o y)[i] = xs[i]
      /\ \A i \in 1 .. Len(y) : (xs \o y)[Len(xs) + i] = y[i]
  BY <1>1, Two
<1>4. \A i \in 1 .. Len(x) : i \in 1 .. Len(xs)
  BY <1>1, <1>2
<1>5. \A i \in 1 .. Len(s) : Len(x) + i \in 1 .. Len(xs)
  BY <1>1, <1>2
<1>6. /\ \A i \in 1 .. Len(x) : (xs \o y)[i] = x[i]
      /\ \A i \in 1 .. Len(s) : (xs \o y)[Len(x) + i] = s[i]
  BY <1>1, <1>3, <1>4, <1>5
<1>7. xs \o y = x \o (s \o y) /\ s \o y \in Text
  <2>1. x \in Text /\ s \in Text /\ y \in Text
    OBVIOUS
  <2>2. x \o s \o y = x \o (s \o y)
    BY ONLY <2>1, Regroup
  <2>3. s \o y \in Text
    BY ONLY <2>1, Two
  <2> QED  BY ONLY <2>2, <2>3 DEF xs
<1> QED  BY <1>1, <1>2, <1>3, <1>6, <1>7 DEF xs

\* A text is what stands before two of its places, between and after them.
LEMMA InThree ==
    ASSUME NEW V, NEW text \in Seq(V), NEW a \in 1 .. Len(text) + 1,
           NEW b \in a - 1 .. Len(text)
    PROVE  LET x == SubSeq(text, 1, a - 1)
               s == SubSeq(text, a, b)
               y == SubSeq(text, b + 1, Len(text))
           IN  /\ x \in Seq(V) /\ s \in Seq(V) /\ y \in Seq(V)
               /\ text = x \o s \o y
               /\ Len(x) = a - 1 /\ Len(s) = b - a + 1 /\ Len(y) = Len(text) - b
<1> DEFINE N == Len(text)
           x == SubSeq(text, 1, a - 1)
           s == SubSeq(text, a, b)
           y == SubSeq(text, b + 1, N)
<1>1. /\ N \in Nat /\ a \in Int /\ b \in Int /\ 1 <= a /\ a <= N + 1 /\ a - 1 <= b /\ b <= N
      /\ \A i \in 1 .. N : text[i] \in V
  OBVIOUS
<1>2. /\ x \in Seq(V) /\ Len(x) = a - 1
      /\ \A i \in 1 .. a - 1 : x[i] = text[i]
  OBVIOUS
<1>3. /\ s \in Seq(V) /\ Len(s) = b - a + 1
      /\ \A i \in 1 .. b - a + 1 : s[i] = text[a + i - 1]
  OBVIOUS
<1>4. /\ y \in Seq(V) /\ Len(y) = N - b
      /\ \A i \in 1 .. N - b : y[i] = text[b + i]
  OBVIOUS
<1> HIDE DEF x, s, y, N
<1> DEFINE xs == x \o s
<1>5. /\ xs \in Seq(V) /\ Len(xs) = b
      /\ \A i \in 1 .. a - 1 : xs[i] = x[i]
      /\ \A i \in 1 .. b - a + 1 : xs[a - 1 + i] = s[i]
  <2>1. Len(x) + Len(s) = b
    BY <1>1, <1>2, <1>3
  <2>2. /\ xs \in Seq(V) /\ Len(xs) = Len(x) + Len(s)
        /\ \A i \in 1 .. Len(x) : xs[i] = x[i]
        /\ \A i \in 1 .. Len(s) : xs[Len(x) + i] = s[i]
    <3>1. x \in Seq(V) /\ s \in Seq(V)
      BY <1>2, <1>3
    <3> QED  BY ONLY <3>1, MembersOfTwo DEF xs
  <2> QED  BY <1>2, <1>3, <2>1, <2>2
<1> HIDE DEF xs
<1>6. \A i \in 1 .. b : xs[i] = text[i]
  <2> TAKE i \in 1 .. b
  <2>1. CASE i <= a - 1
    <3>1. i \in 1 .. a - 1
      BY <1>1, <2>1
    <3> QED  BY <3>1, <1>2, <1>5
  <2>2. CASE ~(i <= a - 1)
    <3>1. i - (a - 1) \in 1 .. b - a + 1 /\ a - 1 + (i - (a - 1)) = i
          /\ a + (i - (a - 1)) - 1 = i
      BY <1>1, <2>2
    <3>2. xs[a - 1 + (i - (a - 1))] = s[i - (a - 1)]
      BY ONLY <3>1, <1>5
    <3>3. s[i - (a - 1)] = text[a + (i - (a - 1)) - 1]
      BY ONLY <3>1, <1>3
    <3> QED  BY ONLY <3>1, <3>2, <3>3
  <2> QED  BY <2>1, <2>2
<1>7. /\ xs \o y \in Seq(V) /\ Len(xs \o y) = N
      /\ \A i \in 1 .. b : (xs \o y)[i] = xs[i]
      /\ \A i \in 1 .. N - b : (xs \o y)[b + i] = y[i]
  <2>1. Len(xs) + Len(y) = N
    BY <1>1, <1>4, <1>5
  <2>2. /\ xs \o y \in Seq(V) /\ Len(xs \o y) = Len(xs) + Len(y)
        /\ \A i \in 1 .. Len(xs) : (xs \o y)[i] = xs[i]
        /\ \A i \in 1 .. Len(y) : (xs \o y)[Len(xs) + i] = y[i]
    <3>1. xs \in Seq(V) /\ y \in Seq(V)
      BY <1>4, <1>5
    <3> QED  BY ONLY <3>1, MembersOfTwo
  <2> QED  BY <1>4, <1>5, <2>1, <2>2
<1>8. \A i \in 1 .. N : (xs \o y)[i] = text[i]
  <2> TAKE i \in 1 .. N
  <2>1. CASE i <= b
    <3>1. i \in 1 .. b
      BY <1>1, <2>1
    <3> QED  BY <3>1, <1>6, <1>7
  <2>2. CASE ~(i <= b)
    <3>1. i - b \in 1 .. N - b /\ b + (i - b) = i
      BY <1>1, <2>2
    <3> QED  BY <3>1, <1>4, <1>7
  <2> QED  BY <2>1, <2>2
<1>9. xs \o y = text
  BY <1>7, <1>8, SeqEqual DEF N
<1> QED  BY <1>2, <1>3, <1>4, <1>9 DEF x, s, y, xs, N

LEMMA PartOfPart ==
    ASSUME NEW u, NEW t, NEW s, IsPart(t, u), IsPart(s, t)
    PROVE  IsPart(s, u)
<1>1. PICK x \in Text, y \in Text : t \in Text /\ u = x \o t \o y
  BY DEF IsPart
<1>2. PICK v \in Text, w \in Text : s \in Text /\ t = v \o s \o w
  BY DEF IsPart
<1>3. x \o v \in Text /\ w \o y \in Text /\ s \o w \in Text /\ s \o (w \o y) \in Text
  BY <1>1, <1>2, Three
<1> DEFINE xv == x \o v  sw == s \o w  wy == w \o y  xvs == xv \o s
<1>4. x \o t = xvs \o w
  <2> DEFINE Goes(c) == xv \o c = x \o (v \o c)
  <2>0. x \in Text /\ v \in Text /\ s \in Text /\ w \in Text
    BY <1>2
  <2>1. t = v \o sw
    <3>1. v \o s \o w = v \o (s \o w)
      BY ONLY <2>0, Regroup
    <3> QED  BY ONLY <1>2, <3>1 DEF sw
  <2>2. xv \o sw = x \o (v \o sw)
    <3>1. \A c \in Text : Goes(c)
      BY ONLY <2>0, Regroup DEF Goes, xv
    <3> HIDE DEF Goes
    <3>2. sw \in Text
      BY <1>3
    <3>3. Goes(sw)
      BY ONLY <3>1, <3>2
    <3> QED  BY ONLY <3>3 DEF Goes
  <2>3. xvs \o w = xv \o sw
    <3>1. xv \in Text
      BY <1>3
    <3> HIDE DEF xv
    <3> QED  BY <1>2, <3>1, Regroup, ZenonT(30)
  <2> QED  BY <2>1, <2>2, <2>3
<1>5. u = xv \o s \o wy
  <2>1. xvs \in Text
    BY <1>2, <1>3, Three
  <2>2. xvs \o w \o y = xvs \o wy
    <3>1. w \in Text /\ y \in Text
      OBVIOUS
    <3>2. \A a \in Text : a \o w \o y = a \o (w \o y)
      BY ONLY <3>1, Regroup, ZenonT(30)
    <3> HIDE DEF xvs
    <3> QED  BY ONLY <2>1, <3>2 DEF wy
  <2> QED  BY <1>1, <1>4, <2>2
<1> QED  BY <1>2, <1>3, <1>5 DEF IsPart

LEMMA OwnPart == ASSUME NEW text \in Text PROVE IsPart(text, text)
<1>1. <<>> \in Text
  BY EmptyReading
<1>2. text = <<>> \o text \o <<>>
  BY ConcatEmptySeq DEF Text
<1> QED  BY <1>1, <1>2 DEF IsPart

\* A text in lower case: as long, with the same marks and blanks, and nothing to
\* put in lower case any more.
InLowerCase(a) == IF a \in DOMAIN Lower THEN Lower[a] ELSE a
LEMMA LowText ==
    ASSUME NEW text \in Text
    PROVE  /\ InLower(text) \in Text
           /\ Len(InLower(text)) = Len(text)
           /\ \A i \in 1 .. Len(text) : /\ InLower(text)[i] = InLowerCase(text[i])
                                        /\ InLower(text)[i] \notin DOMAIN Lower
<1>1. DOMAIN text = 1 .. Len(text) /\ Len(text) \in Nat
  BY DEF Text
<1>2. InLower(text) = [i \in 1 .. Len(text) |-> InLowerCase(text[i])]
  BY <1>1 DEF InLower, InLowerCase
<1>3. InLower(text) \in Text
  BY InLowerKeeps
<1>4. Len(InLower(text)) = Len(text)
  <2> DEFINE low == InLower(text)
  <2>1. \A i \in 1 .. Len(text) : InLowerCase(text[i]) \in Atoms
    BY LowerAssumption DEF InLowerCase, Text, Atoms
  <2>2. low \in [1 .. Len(text) -> Atoms]
    BY <1>2, <2>1
  <2> HIDE DEF low
  <2>3. Len(low) = Len(text)
    BY <1>1, <2>2, FunctionIsList
  <2> QED  BY <2>3 DEF low
<1>5. \A a : InLowerCase(a) \notin DOMAIN Lower
  BY LowerAssumption DEF InLowerCase
<1> QED  BY <1>2, <1>3, <1>4, <1>5

\* Marks and blanks stay what they are.
LEMMA LowAtoms ==
    ASSUME NEW a
    PROVE  /\ InLowerCase(a) = Blank <=> a = Blank
           /\ InLowerCase(a) = Quote <=> a = Quote
           /\ IsWord(InLowerCase(a)) <=> IsWord(a)
           /\ Quote # Blank /\ ~IsWord(Quote) /\ ~IsWord(Blank)
<1>1. Quote # Blank /\ ~IsWord(Quote) /\ ~IsWord(Blank)
  BY MarksAssumption DEF IsWord
<1> QED  BY <1>1, LowerAssumption DEF InLowerCase

LEMMA LowTwice ==
    ASSUME NEW text \in Text
    PROVE  InLower(InLower(text)) = InLower(text)
<1> DEFINE low == InLower(text)  twice == InLower(low)
<1>1. /\ low \in Text /\ Len(low) = Len(text)
      /\ \A i \in 1 .. Len(text) : low[i] \notin DOMAIN Lower
  BY LowText
<1> HIDE DEF low
<1>2. /\ twice \in Text /\ Len(twice) = Len(low)
      /\ \A i \in 1 .. Len(low) : twice[i] = InLowerCase(low[i])
  BY <1>1, LowText
<1> HIDE DEF twice
<1>3. \A i \in 1 .. Len(low) : twice[i] = low[i]
  BY <1>1, <1>2 DEF InLowerCase
<1>4. twice = low
  BY <1>1, <1>2, <1>3, SeqEqual DEF Text
<1> QED  BY <1>4 DEF twice, low

LEMMA LowOfTwo ==
    ASSUME NEW s \in Text, NEW t \in Text
    PROVE  InLower(s \o t) = InLower(s) \o InLower(t)
<1> DEFINE ls == InLower(s)  lt == InLower(t)  st == s \o t  low == InLower(st)
           m == Len(s)  k == Len(t)
<1>1. m \in Nat /\ k \in Nat
  BY DEF Text
<1>2. /\ st \in Text /\ Len(st) = m + k
      /\ \A i \in 1 .. m : st[i] = s[i]
      /\ \A i \in 1 .. k : st[m + i] = t[i]
  BY Two
<1>3. /\ ls \in Text /\ Len(ls) = m /\ \A i \in 1 .. m : ls[i] = InLowerCase(s[i])
      /\ lt \in Text /\ Len(lt) = k /\ \A i \in 1 .. k : lt[i] = InLowerCase(t[i])
  BY LowText
<1> HIDE DEF st, ls, lt, m, k
<1>4. /\ low \in Text /\ Len(low) = m + k
      /\ \A i \in 1 .. m + k : low[i] = InLowerCase(st[i])
  BY <1>2, LowText
<1> HIDE DEF low
<1>5. /\ ls \o lt \in Text /\ Len(ls \o lt) = m + k
      /\ \A i \in 1 .. m : (ls \o lt)[i] = ls[i]
      /\ \A i \in 1 .. k : (ls \o lt)[m + i] = lt[i]
  BY <1>3, Two, ZenonT(30)
<1>6. \A i \in 1 .. m + k : low[i] = (ls \o lt)[i]
  <2> TAKE i \in 1 .. m + k
  <2>1. CASE i <= m
    <3>1. i \in 1 .. m
      BY <1>1, <2>1
    <3> QED  BY <1>2, <1>3, <1>4, <1>5, <3>1
  <2>2. CASE ~(i <= m)
    <3>1. i - m \in 1 .. k /\ m + (i - m) = i
      BY <1>1, <2>2
    <3> QED  BY <1>2, <1>3, <1>4, <1>5, <3>1
  <2> QED  BY <2>1, <2>2
<1>7. low = ls \o lt
  BY <1>4, <1>5, <1>6, SeqEqual DEF Text
<1> QED  BY <1>7 DEF low, ls, lt, st

LEMMA LowPart ==
    ASSUME NEW text, NEW s, IsPart(s, text)
    PROVE  IsPart(InLower(s), InLower(text))
<1>1. PICK x \in Text, y \in Text : s \in Text /\ text = x \o s \o y
  BY DEF IsPart
<1>2. x \o s \in Text
  BY <1>1, Three
<1>3. InLower(text) = InLower(x) \o InLower(s) \o InLower(y)
  <2>1. InLower(x \o s \o y) = InLower(x \o s) \o InLower(y)
    BY <1>2, LowOfTwo
  <2>2. InLower(x \o s) = InLower(x) \o InLower(s)
    BY <1>1, LowOfTwo
  <2> QED  BY <1>1, <2>1, <2>2
<1>4. InLower(x) \in Text /\ InLower(s) \in Text /\ InLower(y) \in Text
  BY <1>1, InLowerKeeps
<1> QED  BY <1>3, <1>4 DEF IsPart

\* What ends, or begins, with a blank or is nothing; and what stands in u with
\* nothing but blanks beside it, or before a blank.
EndsBlank(s) == s = <<>> \/ s[Len(s)] = Blank
BeginsBlank(t) == t = <<>> \/ t[1] = Blank
Apart(t, u) ==
    \E x \in Text, y \in Text :
        t \in Text /\ u = x \o t \o y /\ EndsBlank(x) /\ BeginsBlank(y)
Closed(t, u) ==
    \E x \in Text, y \in Text :
        t \in Text /\ u = x \o t \o y /\ EndsBlank(x) /\ BeginsBlank(y) /\ y # <<>>

\* What is known of u once it is read: the word that goes on is its end, and the
\* words that are over stand in it.
Begun(st, u) ==
    /\ \E x \in Text : u = x \o st.open /\ EndsBlank(x)
    /\ \A t \in ToSet(st.over) : Closed(t, u)

LEMMA AppendedIs ==
    ASSUME NEW u \in Text, NEW a \in Atoms
    PROVE  /\ Append(u, a) \in Text /\ <<a>> \in Text /\ Append(u, a) = u \o <<a>>
           /\ IsPart(u, Append(u, a))
<1>1. Append(u, a) \in Text /\ <<a>> \in Text /\ Append(u, a) = u \o <<a>>
  BY AppendIsConcat, AppendProperties DEF Text
<1>2. <<>> \in Text /\ <<>> \o u = u
  BY EmptyReading, ConcatEmptySeq DEF Text
<1>3. Append(u, a) = <<>> \o u \o <<a>>
  BY <1>1, <1>2
<1> QED  BY <1>1, <1>2, <1>3 DEF IsPart

LEMMA MembersOfAppended ==
    ASSUME NEW V, NEW s \in Seq(V), NEW a \in V
    PROVE  Append(s, a) \in Seq(V) /\ ToSet(Append(s, a)) = ToSet(s) \cup {a}
<1>1. <<a>> \in Seq(V) /\ Append(s, a) = s \o <<a>>
  BY AppendIsConcat
<1>2. ToSet(<<a>>) = {a}
  <2>1. DOMAIN <<a>> = {1} /\ <<a>>[1] = a
    OBVIOUS
  <2> QED  BY <2>1 DEF ToSet
<1>3. s \o <<a>> \in Seq(V) /\ ToSet(s \o <<a>>) = ToSet(s) \cup ToSet(<<a>>)
  <2>1. s \in Seq(V) /\ <<a>> \in Seq(V)
    BY <1>1
  <2> QED  BY ONLY <2>1, ToSetOfConcat, ZenonT(30)
<1> QED  BY <1>1, <1>2, <1>3

LEMMA BegunEnds ==
    ASSUME NEW st \in Reading, NEW u \in Text, Begun(st, u)
    PROVE  \A t \in ToSet(Ended(st).over) : Apart(t, u)
<1>1. st.over \in Seq(Text) /\ st.open \in Text
  BY DEF Reading
<1>2. PICK x \in Text : u = x \o st.open /\ EndsBlank(x)
  BY DEF Begun
<1>3. Apart(st.open, u)
  <2>1. x \o st.open = x \o st.open \o <<>> /\ <<>> \in Text
    BY <1>1, EmptyReading, Two, ConcatEmptySeq DEF Text
  <2>2. BeginsBlank(<<>>)
    BY DEF BeginsBlank
  <2> QED  BY <1>1, <1>2, <2>1, <2>2 DEF Apart
<1>4. \A t \in ToSet(st.over) : Apart(t, u)
  BY DEF Begun, Closed, Apart
<1>5. CASE st.open = <<>>
  <2>1. Ended(st) = st
    BY <1>5 DEF Ended
  <2> QED  BY <1>4, <2>1
<1>6. CASE st.open # <<>>
  <2>1. Ended(st).over = Append(st.over, st.open)
    BY <1>6 DEF Ended
  <2>2. ToSet(Ended(st).over) = ToSet(st.over) \cup {st.open}
    BY <1>1, <2>1, MembersOfAppended
  <2> QED  BY <1>3, <1>4, <2>2
<1> QED  BY <1>5, <1>6

\* What has a blank after it keeps it.
LEMMA ClosedStays ==
    ASSUME NEW t, NEW u, Closed(t, u), NEW a \in Atoms
    PROVE  Closed(t, Append(u, a))
<1>1. PICK x \in Text, y \in Text :
         t \in Text /\ u = x \o t \o y /\ EndsBlank(x) /\ BeginsBlank(y) /\ y # <<>>
  BY DEF Closed
<1> DEFINE one == <<a>>  more == y \o one  xt == x \o t
<1>2. one \in Text /\ xt \in Text /\ u \in Text
  BY <1>1, AppendedIs, Three
<1>3. Append(u, a) = u \o one
  BY <1>2, AppendedIs
<1> HIDE DEF one
<1>4. more \in Text /\ more[1] = Blank /\ more # <<>>
  <2>1. Len(y) # 0 /\ Len(y) \in Nat /\ y[1] = Blank
    BY <1>1 DEF Text, BeginsBlank
  <2>2. /\ more \in Text /\ Len(more) = Len(y) + Len(one) /\ Len(one) \in Nat
        /\ \A i \in 1 .. Len(y) : more[i] = y[i]
    BY <1>1, <1>2, Two
  <2> HIDE DEF more
  <2>3. Len(more) # 0 /\ more[1] = Blank
    BY <2>1, <2>2
  <2> QED  BY <2>2, <2>3, EmptySeq
<1>5. u \o one = xt \o more
  <2> HIDE DEF xt
  <2>1. xt \o y \o one = xt \o (y \o one)
    <3>1. xt \in Text /\ y \in Text /\ one \in Text
      BY <1>1, <1>2
    <3> QED  BY ONLY <3>1, Regroup
  <2> QED  BY <1>1, <2>1 DEF xt
<1>6. BeginsBlank(more)
  <2> HIDE DEF more
  <2> QED  BY <1>4 DEF BeginsBlank
<1> HIDE DEF more
<1> QED  BY <1>1, <1>3, <1>4, <1>5, <1>6 DEF Closed

LEMMA BegunGoesOn ==
    ASSUME NEW st \in Reading, NEW u \in Text, Begun(st, u), NEW a \in Atoms
    PROVE  Begun(ReadAtom(st, a), Append(u, a))
<1> DEFINE v == Append(u, a)
<1>1. st.over \in Seq(Text) /\ st.open \in Text
  BY DEF Reading
<1>2. PICK x \in Text : u = x \o st.open /\ EndsBlank(x)
  BY DEF Begun
<1>3. /\ v \in Text /\ v = u \o <<a>> /\ <<a>> \in Text
      /\ Len(v) = Len(u) + 1 /\ Len(u) \in Nat /\ v[Len(u) + 1] = a
  BY AppendedIs DEF Text
<1>4. \A t : Closed(t, u) => Closed(t, v)
  BY ClosedStays
<1> HIDE DEF v
<1>5. CASE a = Blank
  <2>1. ReadAtom(st, a) = Ended(st) /\ Ended(st).open = <<>>
    BY <1>5 DEF ReadAtom, Ended
  <2>2. v = v \o <<>> /\ EndsBlank(v)
    BY <1>3, <1>5, ConcatEmptySeq DEF Text, EndsBlank
  <2>3. Closed(st.open, v)
    <3> DEFINE b == <<a>>
    <3>1. b \in Text /\ BeginsBlank(b) /\ b # <<>>
      BY <1>3, <1>5 DEF BeginsBlank
    <3>2. v = x \o st.open \o b
      BY <1>2, <1>3
    <3> HIDE DEF b
    <3> QED  BY <1>1, <1>2, <3>1, <3>2 DEF Closed
  <2>4. \A t \in ToSet(Ended(st).over) : Closed(t, v)
    <3>1. \A t \in ToSet(st.over) : Closed(t, v)
      BY <1>4 DEF Begun
    <3>2. CASE st.open = <<>>
      <4>1. Ended(st) = st
        BY <3>2 DEF Ended
      <4> QED  BY <3>1, <4>1
    <3>3. CASE st.open # <<>>
      <4>1. Ended(st).over = Append(st.over, st.open)
        BY <3>3 DEF Ended
      <4>2. ToSet(Ended(st).over) = ToSet(st.over) \cup {st.open}
        BY <1>1, <4>1, MembersOfAppended
      <4> QED  BY <2>3, <3>1, <4>2
    <3> QED  BY <3>2, <3>3
  <2> QED  BY <1>3, <2>1, <2>2, <2>4 DEF Begun, v
<1>6. CASE a # Blank
  <2>1. ReadAtom(st, a).over = st.over /\ ReadAtom(st, a).open = Append(st.open, a)
    BY <1>6 DEF ReadAtom
  <2>2. Append(st.open, a) = st.open \o <<a>>
    BY <1>1, AppendedIs
  <2>3. x \o st.open \o <<a>> = x \o (st.open \o <<a>>)
    <3> DEFINE ta == <<a>>  so == st.open
    <3>1. x \in Text /\ so \in Text /\ ta \in Text
      BY <1>1, <1>3
    <3> HIDE DEF ta, so
    <3>2. x \o so \o ta = x \o (so \o ta)
      BY ONLY <3>1, Regroup
    <3> QED  BY <3>2 DEF ta, so
  <2>4. v = x \o Append(st.open, a)
    BY <1>2, <1>3, <2>2, <2>3
  <2>5. \A t \in ToSet(st.over) : Closed(t, v)
    BY <1>4 DEF Begun
  <2> QED  BY <1>2, <2>1, <2>4, <2>5 DEF Begun, v
<1> QED  BY <1>5, <1>6

\* Each token stands in the text, with nothing but blanks beside it.
LEMMA TokensAreParts ==
    ASSUME NEW text \in Text, NEW t \in ToSet(Tokens(text))
    PROVE  Apart(t, text) /\ IsPart(t, text) /\ t \in Words
<1> DEFINE N == Len(text)
           u(n) == SubSeq(text, 1, n)
<1>1. PICK f : /\ f[0] = Unread
               /\ \A n \in 1 .. N : f[n] = ReadAtom(f[n - 1], text[n])
               /\ \A n \in 0 .. N : f[n] \in Reading
               /\ ReadAtoms(Unread, text) = f[N]
  BY EmptyReading, EachAtomIsRead
<1>2. N \in Nat /\ \A n \in 1 .. N : text[n] \in Atoms
  BY DEF Text
<1>3. u(0) = <<>> /\ u(N) = text
  BY DEF Text
<1>4. \A n \in 1 .. N : u(n - 1) \in Text /\ u(n) = Append(u(n - 1), text[n])
  BY DEF Text
<1> HIDE DEF N, u
<1> DEFINE S == {n \in 0 .. N : Begun(f[n], u(n))}
<1>5. 0 \in S
  <2>1. Unread.open = <<>> /\ Unread.over = <<>>
    BY DEF Unread
  <2>2. <<>> = <<>> \o <<>> /\ <<>> \in Text /\ ToSet(<<>>) = {}
    BY EmptyReading, ConcatEmptySeq DEF ToSet, Text
  <2>3. Begun(Unread, <<>>)
    BY <2>1, <2>2 DEF Begun, EndsBlank
  <2> QED  BY <1>1, <1>2, <1>3, <2>3
<1>6. \A n \in 1 .. N : n - 1 \in S => n \in S
  <2> TAKE n \in 1 .. N
  <2> HAVE n - 1 \in S
  <2>1. n - 1 \in 0 .. N /\ n \in 0 .. N
    BY <1>2
  <2>2. Begun(ReadAtom(f[n - 1], text[n]), Append(u(n - 1), text[n]))
    BY <1>1, <1>2, <1>4, <2>1, BegunGoesOn
  <2> QED  BY <1>1, <1>4, <2>1, <2>2
<1>7. N \in S
  <2> HIDE DEF S
  <2>1. N \in 0 .. N
    BY <1>2
  <2> QED  BY <1>2, <1>5, <1>6, <2>1, Upward
<1>8. \A w \in ToSet(Ended(f[N]).over) : Apart(w, text)
  <2>1. f[N] \in Reading
    BY <1>1, <1>2
  <2> QED  BY <1>3, <1>7, <2>1, BegunEnds
<1>9. t \in Words
  <2>1. Tokens(text) \in Seq(Words)
    BY TokensAreWords
  <2> QED  BY <2>1 DEF ToSet
<1>10. Apart(t, text)
  BY <1>1, <1>8 DEF Tokens
<1> QED  BY <1>9, <1>10 DEF Apart, IsPart

\* A word that has begun goes on or is over, with what it began with.
Holds(st, o) ==
    \E y \in Text : st.open = o \o y \/ \E t \in ToSet(st.over) : t = o \o y

LEMMA HeldEnds ==
    ASSUME NEW st \in Reading, NEW o \in Text, o # <<>>, Holds(st, o)
    PROVE  \E y \in Text : \E t \in ToSet(Ended(st).over) : t = o \o y
<1>1. st.over \in Seq(Text) /\ st.open \in Text
  BY DEF Reading
<1>2. PICK y \in Text : st.open = o \o y \/ \E t \in ToSet(st.over) : t = o \o y
  BY DEF Holds
<1>3. CASE st.open = <<>>
  <2>1. o \o y # <<>>
    BY Two, EmptySeq DEF Text
  <2>2. Ended(st) = st
    BY <1>3 DEF Ended
  <2> QED  BY <1>2, <1>3, <2>1, <2>2
<1>4. CASE st.open # <<>>
  <2>1. Ended(st).over = Append(st.over, st.open)
    BY <1>4 DEF Ended
  <2>2. ToSet(Ended(st).over) = ToSet(st.over) \cup {st.open}
    BY <1>1, <2>1, MembersOfAppended
  <2> QED  BY <1>2, <2>2
<1> QED  BY <1>3, <1>4

LEMMA HeldGoesOn ==
    ASSUME NEW st \in Reading, NEW o \in Text, o # <<>>, Holds(st, o), NEW a \in Atoms
    PROVE  Holds(ReadAtom(st, a), o)
<1>1. CASE a = Blank
  <2>1. ReadAtom(st, a) = Ended(st)
    BY <1>1 DEF ReadAtom
  <2> QED  BY <2>1, HeldEnds DEF Holds
<1>2. CASE a # Blank
  <2>1. ReadAtom(st, a).over = st.over /\ ReadAtom(st, a).open = Append(st.open, a)
    BY <1>2 DEF ReadAtom
  <2>2. PICK y \in Text : st.open = o \o y \/ \E t \in ToSet(st.over) : t = o \o y
    BY DEF Holds
  <2>3. CASE st.open = o \o y
    <3>1. /\ Append(st.open, a) = st.open \o <<a>> /\ <<a>> \in Text
          /\ y \o <<a>> \in Text
      <4>1. st.open \in Text
        BY DEF Reading
      <4> QED  BY <4>1, AppendedIs, Two
    <3>2. o \o y \o <<a>> = o \o (y \o <<a>>)
      BY <3>1, Regroup
    <3> QED  BY <2>1, <2>3, <3>1, <3>2 DEF Holds
  <2>4. CASE \E t \in ToSet(st.over) : t = o \o y
    BY <2>1, <2>4 DEF Holds
  <2> QED  BY <2>2, <2>3, <2>4
<1> QED  BY <1>1, <1>2

LEMMA HeldToTheEnd ==
    ASSUME NEW st \in Reading, st.open # <<>>, NEW text \in Text
    PROVE  \E y \in Text : \E t \in ToSet(Ended(ReadAtoms(st, text)).over) : t = st.open \o y
<1> DEFINE N == Len(text)  o == st.open
<1>1. PICK f : /\ f[0] = st
               /\ \A n \in 1 .. N : f[n] = ReadAtom(f[n - 1], text[n])
               /\ \A n \in 0 .. N : f[n] \in Reading
               /\ ReadAtoms(st, text) = f[N]
  BY EachAtomIsRead
<1>2. N \in Nat /\ (\A n \in 1 .. N : text[n] \in Atoms) /\ o \in Text /\ o # <<>>
  BY DEF Text, Reading
<1> HIDE DEF N
<1> DEFINE S == {n \in 0 .. N : Holds(f[n], o)}
<1>3. 0 \in S
  <2>1. o = o \o <<>> /\ <<>> \in Text
    BY <1>2, EmptyReading, ConcatEmptySeq DEF Text
  <2>2. Holds(st, o)
    BY <2>1 DEF Holds
  <2> QED  BY <1>1, <1>2, <2>2
<1> HIDE DEF o
<1>4. \A n \in 1 .. N : n - 1 \in S => n \in S
  <2> TAKE n \in 1 .. N
  <2> HAVE n - 1 \in S
  <2>1. n - 1 \in 0 .. N /\ n \in 0 .. N
    BY <1>2
  <2>2. Holds(ReadAtom(f[n - 1], text[n]), o)
    BY <1>1, <1>2, <2>1, HeldGoesOn
  <2> QED  BY <1>1, <2>1, <2>2
<1>5. N \in S
  <2> HIDE DEF S
  <2>1. N \in 0 .. N
    BY <1>2
  <2> QED  BY <1>2, <1>3, <1>4, <2>1, Upward
<1>6. \E y \in Text : \E t \in ToSet(Ended(f[N]).over) : t = o \o y
  <2>1. f[N] \in Reading
    BY <1>1, <1>2
  <2> QED  BY <1>2, <1>5, <2>1, HeldEnds
<1> QED  BY <1>1, <1>6 DEF o

\* What stands between two atoms that are not blank is within a token.
LEMMA WithinToken ==
    ASSUME NEW text \in Text, NEW i \in 2 .. Len(text) - 1,
           text[i - 1] # Blank, text[i] # Blank, text[i + 1] # Blank
    PROVE  \E t \in ToSet(Tokens(text)) : \E k \in 2 .. Len(t) - 1 : t[k] = text[i]
<1> DEFINE N == Len(text)
           x == SubSeq(text, 1, i - 2)
           s == SubSeq(text, i - 1, i + 1)
           y == SubSeq(text, i + 2, N)
<1>1. N \in Nat /\ i \in Int /\ 2 <= i /\ i + 1 <= N
  BY DEF Text
<1>2. x \in Text /\ s \in Text /\ y \in Text /\ text = x \o s \o y /\ Len(s) = 3
  <2> DEFINE a == i - 1  b == i + 1
  <2>1. a \in 1 .. N + 1 /\ b \in a - 1 .. N /\ a - 1 = i - 2 /\ b + 1 = i + 2 /\ b - a + 1 = 3
    BY <1>1
  <2> HIDE DEF a, b
  <2>2. LET p == SubSeq(text, 1, a - 1)
            q == SubSeq(text, a, b)
            r == SubSeq(text, b + 1, N)
        IN  /\ p \in Seq(Atoms) /\ q \in Seq(Atoms) /\ r \in Seq(Atoms)
            /\ text = p \o q \o r
            /\ Len(p) = a - 1 /\ Len(q) = b - a + 1 /\ Len(r) = N - b
    BY <2>1, InThree DEF Text
  <2> QED  BY <2>1, <2>2 DEF Text, a, b
<1>3. s[1] = text[i - 1] /\ s[2] = text[i] /\ s[3] = text[i + 1]
  BY <1>1 DEF Text
<1> HIDE DEF x, s, y, N
<1>4. \A j \in 1 .. Len(s) : s[j] # Blank
  <2>1. \A j \in 1 .. 3 : j = 1 \/ j = 2 \/ j = 3
    OBVIOUS
  <2> QED  BY <1>2, <1>3, <2>1
<1> DEFINE st == ReadAtoms(Unread, x)
<1>5. st \in Reading /\ ReadAtoms(Unread, x \o s) = ReadAtoms(st, s)
  BY <1>2, EmptyReading, ReadAtomsOn
<1> HIDE DEF st
<1>6. PICK d, v : st = [over |-> d, open |-> v] /\ d \in Seq(Text) /\ v \in Text
  BY <1>5 DEF Reading
<1> DEFINE go == [over |-> d, open |-> v \o s]
<1>7. ReadAtoms(st, s) = go
  BY <1>2, <1>4, <1>5, <1>6, WordGoesOn
<1>8. go \in Reading /\ go.open = v \o s /\ v \o s # <<>> /\ v \o s \in Text
  <2>1. v \o s \in Text /\ Len(v \o s) = Len(v) + 3 /\ Len(v) \in Nat
    <3>1. s \in Text /\ v \in Text
      BY <1>2, <1>6
    <3>2. v \o s \in Text /\ Len(v \o s) = Len(v) + Len(s) /\ Len(v) \in Nat
      BY ONLY <3>1, Two
    <3> QED  BY <1>2, <3>2
  <2>2. v \o s # <<>>
    BY <2>1 DEF Text
  <2> QED  BY <1>6, <2>1, <2>2 DEF Reading
<1> HIDE DEF go
<1>9. Tokens(text) = Ended(ReadAtoms(go, y)).over
  <2>1. x \o s \in Text
    BY <1>2, Two
  <2>2. ReadAtoms(Unread, x \o s \o y) = ReadAtoms(go, y)
    BY <1>2, <1>5, <1>7, <2>1, EmptyReading, ReadAtomsOn
  <2> QED  BY <1>2, <2>2 DEF Tokens
<1>10. PICK z \in Text, t \in ToSet(Tokens(text)) : t = v \o s \o z
  <2>1. \E z \in Text : \E t \in ToSet(Ended(ReadAtoms(go, y)).over) : t = go.open \o z
    BY <1>2, <1>8, HeldToTheEnd
  <2> QED  BY <1>8, <1>9, <2>1
<1> DEFINE k == Len(v) + 2
<1>11. k \in 2 .. Len(t) - 1 /\ t[k] = s[2]
  <2>1. /\ Len(t) = Len(v) + Len(s) + Len(z)
        /\ Len(v) \in Nat /\ Len(z) \in Nat
        /\ \A j \in 1 .. Len(s) : t[Len(v) + j] = s[j]
    <3>1. s \in Text /\ v \in Text /\ z \in Text
      BY <1>2, <1>6
    <3> HIDE DEF k
    <3>2. /\ Len(v \o s \o z) = Len(v) + Len(s) + Len(z)
          /\ Len(v) \in Nat /\ Len(z) \in Nat
          /\ \A j \in 1 .. Len(s) : (v \o s \o z)[Len(v) + j] = s[j]
      BY ONLY <3>1, Three
    <3> QED  BY <1>10, <3>2
  <2> QED  BY <1>2, <2>1
<1> QED  BY <1>3, <1>10, <1>11

\* Beside each quote within the text there is a blank if and only if there are
\* no quotes within its tokens.
LEMMA ApartByTokens ==
    ASSUME NEW text \in Text
    PROVE  QuotesApart(text) <=> \A t \in ToSet(Tokens(text)) : QuotesApart(t)
<1>1. ASSUME QuotesApart(text), NEW t \in ToSet(Tokens(text)) PROVE QuotesApart(t)
  <2> SUFFICES ASSUME NEW k \in 2 .. Len(t) - 1, t[k] = Quote
               PROVE  Blank \in {t[k - 1], t[k + 1]}
    BY DEF QuotesApart
  <2>1. PICK x \in Text, y \in Text : t \in Text /\ text = x \o t \o y
    BY TokensAreParts DEF IsPart
  <2>2. /\ Len(text) = Len(x) + Len(t) + Len(y)
        /\ Len(x) \in Nat /\ Len(t) \in Nat /\ Len(y) \in Nat
        /\ \A j \in 1 .. Len(t) : text[Len(x) + j] = t[j]
    <3>1. x \in Text /\ t \in Text /\ y \in Text
      BY <2>1
    <3> QED  BY ONLY <2>1, <3>1, Three
  <2> DEFINE i == Len(x) + k
  <2>3. /\ i \in 2 .. Len(text) - 1 /\ i - 1 = Len(x) + (k - 1) /\ i + 1 = Len(x) + (k + 1)
        /\ k \in 1 .. Len(t) /\ k - 1 \in 1 .. Len(t) /\ k + 1 \in 1 .. Len(t)
    BY <2>2
  <2>4. text[i] = t[k] /\ text[i - 1] = t[k - 1] /\ text[i + 1] = t[k + 1]
    BY <2>2, <2>3, SMTT(30)
  <2> HIDE DEF i
  <2> QED  BY <1>1, <2>3, <2>4 DEF QuotesApart
<1>2. ASSUME \A t \in ToSet(Tokens(text)) : QuotesApart(t) PROVE QuotesApart(text)
  <2> SUFFICES ASSUME NEW i \in 2 .. Len(text) - 1, text[i] = Quote,
                      text[i - 1] # Blank, text[i + 1] # Blank
               PROVE  FALSE
    BY DEF QuotesApart
  <2>1. text[i] # Blank
    BY LowAtoms
  <2>2. PICK t \in ToSet(Tokens(text)), k \in Int : k \in 2 .. Len(t) - 1 /\ t[k] = text[i]
    BY <2>1, WithinToken
  <2>3. Blank \in {t[k - 1], t[k + 1]}
    BY <1>2, <2>2 DEF QuotesApart
  <2>4. \A j \in 1 .. Len(t) : t[j] # Blank
    BY TokensAreParts DEF Words
  <2>5. k - 1 \in 1 .. Len(t) /\ k + 1 \in 1 .. Len(t)
    <3>1. Len(t) \in Nat
      BY TokensAreParts DEF Words, Text
    <3> QED  BY <2>2, <3>1
  <2> QED  BY <2>3, <2>4, <2>5
<1> QED  BY <1>1, <1>2

\* What the words that are read make when they are joined.
Shown(st) == JoinTokens(Ended(st).over)
Gap(st) == IF st.over # <<>> /\ st.open = <<>> THEN <<Blank>> ELSE <<>>

LEMMA JoinIsText == ASSUME NEW tokens \in Seq(Text) PROVE JoinTokens(tokens) \in Text
<1>1. PICK join : /\ \A n \in 0 .. Len(tokens) : join[n] \in Text
                  /\ JoinTokens(tokens) = join[Len(tokens)]
  BY EachTokenIsJoined
<1>2. Len(tokens) \in 0 .. Len(tokens)
  OBVIOUS
<1> QED  BY <1>1, <1>2

LEMMA ShownIsText == ASSUME NEW st \in Reading PROVE Shown(st) \in Text /\ Gap(st) \in Text
<1>1. Ended(st).over \in Seq(Text)
  BY EndedType DEF Reading
<1> QED  BY <1>1, JoinIsText, BlankIsText, EmptyReading DEF Shown, Gap

LEMMA JoinOfOneMore ==
    ASSUME NEW tokens \in Seq(Text), NEW t \in Text
    PROVE  JoinTokens(Append(tokens, t))
               = IF tokens = <<>> THEN t ELSE JoinTokens(tokens) \o <<Blank>> \o t
<1> DEFINE more == Append(tokens, t)  N == Len(tokens)
<1>1. /\ N \in Nat /\ more \in Seq(Text) /\ Len(more) = N + 1 /\ more[N + 1] = t
      /\ \A n \in 1 .. N : more[n] = tokens[n]
  OBVIOUS
<1>2. PICK f : /\ f[0] = <<>>
               /\ \A n \in 1 .. N : f[n] = Joined(f[n - 1], tokens, n)
               /\ JoinTokens(tokens) = f[N]
  BY EachTokenIsJoined
<1>3. tokens = <<>> <=> N = 0
  BY EmptySeq
<1> HIDE DEF more, N
<1>4. PICK g : /\ g[0] = <<>>
               /\ \A n \in 1 .. N + 1 : g[n] = Joined(g[n - 1], more, n)
               /\ JoinTokens(more) = g[N + 1]
  <2>1. PICK h : /\ h[0] = <<>>
                 /\ \A n \in 1 .. Len(more) : h[n] = Joined(h[n - 1], more, n)
                 /\ JoinTokens(more) = h[Len(more)]
    BY <1>1, EachTokenIsJoined
  <2> QED  BY <1>1, <2>1
<1> DEFINE S == {n \in 0 .. N : f[n] = g[n]}
<1>5. 0 \in S
  BY <1>1, <1>2, <1>4
<1>6. \A n \in 1 .. N : n - 1 \in S => n \in S
  <2> TAKE n \in 1 .. N
  <2> HAVE n - 1 \in S
  <2>1. n \in 1 .. N + 1 /\ n \in 0 .. N /\ (1 \in 1 .. N) /\ 1 \in 1 .. N + 1
    BY <1>1
  <2>2. f[n] = Joined(f[n - 1], tokens, n) /\ g[n] = Joined(g[n - 1], more, n)
        /\ f[n - 1] = g[n - 1] /\ more[n] = tokens[n] /\ more[1] = tokens[1]
    BY <1>1, <1>2, <1>4, <2>1
  <2> QED  BY <2>1, <2>2 DEF Joined
<1>7. f[N] = g[N]
  <2>1. N \in S
    <3> HIDE DEF S
    <3>1. N \in 0 .. N
      BY <1>1
    <3> QED  BY <1>1, <1>5, <1>6, <3>1, Upward
  <2> QED  BY <2>1
<1>8. g[N + 1] = Joined(g[N], more, N + 1)
  <2>1. N + 1 \in 1 .. N + 1 /\ (N + 1) - 1 = N
    BY <1>1
  <2> QED  BY <1>4, <2>1
<1>9. CASE N = 0
  <2>1. g[N + 1] = more[1] /\ more[1] = t
    BY <1>1, <1>8, <1>9 DEF Joined
  <2> QED  BY <1>3, <1>4, <1>9, <2>1 DEF more
<1>10. CASE N # 0
  <2>1. N + 1 # 1
    BY <1>1, <1>10
  <2>2. g[N + 1] = g[N] \o <<Blank>> \o t
    BY <1>1, <1>8, <2>1 DEF Joined
  <2> QED  BY <1>2, <1>3, <1>4, <1>7, <1>10, <2>2 DEF more
<1> QED  BY <1>9, <1>10

LEMMA JoinOfOne == ASSUME NEW t \in Text PROVE JoinTokens(<<t>>) = t
<1>1. <<>> \in Seq(Text) /\ Append(<<>>, t) = <<t>>
  BY EmptyReading
<1> QED  BY <1>1, JoinOfOneMore

\* What is shown is not changed by a blank, and goes on with any other atom.
LEMMA ShownGrows ==
    ASSUME NEW st \in Reading, NEW a \in Atoms
    PROVE  Shown(ReadAtom(st, a))
               = IF a = Blank THEN Shown(st) ELSE Shown(st) \o Gap(st) \o <<a>>
<1>1. st.over \in Seq(Text) /\ st.open \in Text /\ st = [over |-> st.over, open |-> st.open]
  BY DEF Reading
<1>2. CASE a = Blank
  <2>1. ReadAtom(st, a) = Ended(st) /\ Ended(Ended(st)) = Ended(st)
    BY <1>2 DEF ReadAtom, Ended
  <2> QED  BY <1>2, <2>1 DEF Shown
<1>3. CASE a # Blank
  <2> DEFINE on == ReadAtom(st, a)
  <2>1. on.over = st.over /\ on.open = Append(st.open, a)
    BY <1>3 DEF ReadAtom
  <2>2. Append(st.open, a) = st.open \o <<a>> /\ Append(st.open, a) \in Text /\ <<a>> \in Text
    BY <1>1, AppendedIs
  <2>3. on.open # <<>>
    BY <1>1, <2>1 DEF Text
  <2>4. Ended(on).over = Append(st.over, on.open)
    BY <2>1, <2>3 DEF Ended
  <2> HIDE DEF on
  <2>5. Shown(on) = IF st.over = <<>> THEN on.open
                    ELSE JoinTokens(st.over) \o <<Blank>> \o on.open
    BY <1>1, <2>1, <2>2, <2>4, JoinOfOneMore, ZenonT(30) DEF Shown
  <2>6. CASE st.open = <<>>
    <3>1. Shown(st) = JoinTokens(st.over) /\ on.open = <<a>>
      <4>1. Append(<<>>, a) = <<a>>
        OBVIOUS
      <4> QED  BY <2>1, <2>6, <4>1 DEF Shown, Ended
    <3>2. CASE st.over = <<>>
      <4>1. JoinTokens(<<>>) = <<>>
        <5>1. PICK join : join[0] = <<>> /\ JoinTokens(<<>>) = join[Len(<<>>)]
          BY EmptyReading, EachTokenIsJoined
        <5> QED  BY <5>1
      <4>2. Gap(st) = <<>> /\ Shown(st) = <<>>
        BY <3>1, <3>2, <4>1 DEF Gap
      <4>3. <<>> \o <<>> \o <<a>> = <<a>>
        BY <2>2, EmptyReading, ConcatEmptySeq DEF Text
      <4> QED  BY <1>3, <2>5, <3>1, <3>2, <4>2, <4>3 DEF on
    <3>3. CASE st.over # <<>>
      <4>1. Gap(st) = <<Blank>>
        BY <2>6, <3>3 DEF Gap
      <4> QED  BY <1>3, <2>5, <3>1, <3>3, <4>1 DEF on
    <3> QED  BY <3>2, <3>3
  <2>7. CASE st.open # <<>>
    <3>1. Ended(st).over = Append(st.over, st.open) /\ Gap(st) = <<>>
      BY <2>7 DEF Ended, Gap
    <3>2. Shown(st) = IF st.over = <<>> THEN st.open
                      ELSE JoinTokens(st.over) \o <<Blank>> \o st.open
      BY <1>1, <3>1, JoinOfOneMore DEF Shown
    <3>3. Shown(st) \o <<>> = Shown(st)
      BY ShownIsText, ConcatEmptySeq DEF Text
    <3>4. CASE st.over = <<>>
      BY <1>3, <2>1, <2>2, <2>5, <3>1, <3>2, <3>3, <3>4 DEF on
    <3>5. CASE st.over # <<>>
      <4> DEFINE b == JoinTokens(st.over) \o <<Blank>>
      <4>1. b \in Text
        BY <1>1, JoinIsText, BlankIsText, Two
      <4> HIDE DEF b
      <4>2. b \o st.open \o <<a>> = b \o (st.open \o <<a>>)
        BY <1>1, <2>2, <4>1, Regroup
      <4> QED  BY <1>3, <2>1, <2>2, <2>5, <3>1, <3>2, <3>3, <3>5, <4>2 DEF on, b
    <3> QED  BY <3>4, <3>5
  <2> QED  BY <2>6, <2>7 DEF on
<1> QED  BY <1>2, <1>3

\* p has read what q has, after something else: what q shows is the end of what
\* p shows.
Some(st) == st.over # <<>> \/ st.open # <<>>
Alike(p, q) ==
    /\ \E x \in Text : Shown(p) = x \o Shown(q)
    /\ Some(q) => Some(p) /\ (p.open = <<>> <=> q.open = <<>>)

LEMMA AlikeGoesOn ==
    ASSUME NEW p \in Reading, NEW q \in Reading, Alike(p, q), NEW a \in Atoms
    PROVE  Alike(ReadAtom(p, a), ReadAtom(q, a))
<1> DEFINE np == ReadAtom(p, a)  nq == ReadAtom(q, a)
<1>1. PICK x \in Text : Shown(p) = x \o Shown(q)
  BY DEF Alike
<1>2. Shown(np) = (IF a = Blank THEN Shown(p) ELSE Shown(p) \o Gap(p) \o <<a>>)
      /\ Shown(nq) = (IF a = Blank THEN Shown(q) ELSE Shown(q) \o Gap(q) \o <<a>>)
  BY ShownGrows
<1>3. /\ Shown(p) \in Text /\ Shown(q) \in Text /\ Gap(p) \in Text /\ Gap(q) \in Text
      /\ <<a>> \in Text
  BY ShownIsText DEF Text
<1>4. CASE a = Blank
  <2>1. np = Ended(p) /\ nq = Ended(q)
    BY <1>4 DEF ReadAtom
  <2>2. \A st \in Reading : Ended(st).open = <<>> /\ (Some(Ended(st)) <=> Some(st))
    <3> TAKE st \in Reading
    <3>1. st.over \in Seq(Text) /\ Append(st.over, st.open) # <<>>
      <4>1. st.over \in Seq(Text)
        BY DEF Reading
      <4> QED  BY ONLY <4>1
    <3> QED  BY <3>1 DEF Ended, Some
  <2>3. np.open = <<>> /\ nq.open = <<>> /\ (Some(np) <=> Some(p)) /\ (Some(nq) <=> Some(q))
    BY <2>1, <2>2
  <2> HIDE DEF np, nq
  <2> QED  BY <1>1, <1>2, <1>4, <2>3 DEF Alike, np, nq
<1>5. CASE a # Blank
  <2>1. np.open = Append(p.open, a) /\ nq.open = Append(q.open, a)
    BY <1>5 DEF ReadAtom
  <2>2. np.open # <<>> /\ nq.open # <<>>
    <3>1. p.open \in Text /\ q.open \in Text
      BY DEF Reading
    <3>2. \A o \in Text : Append(o, a) # <<>>
      BY DEF Text
    <3> HIDE DEF np, nq
    <3> QED  BY <2>1, <3>1, <3>2
  <2> HIDE DEF np, nq
  <2>3. CASE ~Some(q)
    <3>1. Shown(q) = <<>> /\ Gap(q) = <<>>
      <4>1. JoinTokens(<<>>) = <<>>
        <5>1. PICK join : join[0] = <<>> /\ JoinTokens(<<>>) = join[Len(<<>>)]
          BY EmptyReading, EachTokenIsJoined
        <5> QED  BY <5>1
      <4> QED  BY <2>3, <4>1 DEF Some, Shown, Gap, Ended
    <3>2. <<>> \o <<>> \o <<a>> = <<a>>
      BY <1>3, EmptyReading, ConcatEmptySeq DEF Text
    <3>3. Shown(p) \o Gap(p) \in Text
      BY <1>3, Two
    <3>4. Shown(nq) = <<a>>
      BY <1>2, <1>5, <3>1, <3>2
    <3> QED  BY <1>2, <1>5, <2>2, <3>3, <3>4 DEF Alike, Some, np, nq
  <2>4. CASE Some(q)
    <3>1. Gap(p) = Gap(q)
      BY <2>4 DEF Alike, Some, Gap
    <3>2. x \o Shown(q) \o Gap(q) \o <<a>> = x \o (Shown(q) \o Gap(q) \o <<a>>)
      <4> DEFINE sq == Shown(q)  gq == Gap(q)  ta == <<a>>  sg == sq \o gq
      <4>1. sq \in Text /\ gq \in Text /\ ta \in Text
        BY <1>3
      <4> HIDE DEF sq, gq, ta
      <4>2. sg \in Text
        BY <4>1, Two
      <4>3. x \o sq \o gq = x \o sg
        BY <4>1, Regroup
      <4> HIDE DEF sg
      <4>5. x \in Text
        OBVIOUS
      <4>4. x \o sg \o ta = x \o (sg \o ta)
        BY ONLY <4>1, <4>2, <4>5, Regroup, ZenonT(30)
      <4> QED  BY <4>3, <4>4 DEF sg, sq, gq, ta
    <3>3. Shown(np) = x \o Shown(nq)
      BY <1>1, <1>2, <1>5, <3>1, <3>2
    <3> QED  BY <2>2, <3>3 DEF Alike, Some, np, nq
  <2> QED  BY <2>3, <2>4
<1> QED  BY <1>4, <1>5

LEMMA ReadAlike ==
    ASSUME NEW st \in Reading, NEW text \in Text
    PROVE  Alike(ReadAtoms(st, text), ReadAtoms(Unread, text))
<1> DEFINE N == Len(text)
<1>1. PICK f : /\ f[0] = st
               /\ \A n \in 1 .. N : f[n] = ReadAtom(f[n - 1], text[n])
               /\ \A n \in 0 .. N : f[n] \in Reading
               /\ ReadAtoms(st, text) = f[N]
  BY EachAtomIsRead
<1>2. PICK g : /\ g[0] = Unread
               /\ \A n \in 1 .. N : g[n] = ReadAtom(g[n - 1], text[n])
               /\ \A n \in 0 .. N : g[n] \in Reading
               /\ ReadAtoms(Unread, text) = g[N]
  BY EmptyReading, EachAtomIsRead
<1>3. N \in Nat /\ (\A n \in 1 .. N : text[n] \in Atoms)
  BY DEF Text
<1> HIDE DEF N
<1> DEFINE S == {n \in 0 .. N : Alike(f[n], g[n])}
<1>4. 0 \in S
  <2>1. ~Some(Unread) /\ Shown(Unread) = <<>>
    <3>1. JoinTokens(<<>>) = <<>>
      <4>1. PICK join : join[0] = <<>> /\ JoinTokens(<<>>) = join[Len(<<>>)]
        BY EmptyReading, EachTokenIsJoined
      <4> QED  BY <4>1
    <3> QED  BY <3>1 DEF Some, Shown, Ended, Unread
  <2>2. Shown(st) \in Text /\ Shown(st) = Shown(st) \o <<>>
    BY ShownIsText, ConcatEmptySeq DEF Text
  <2>3. Alike(st, Unread)
    BY <2>1, <2>2 DEF Alike
  <2> QED  BY <1>1, <1>2, <1>3, <2>3
<1>5. \A n \in 1 .. N : n - 1 \in S => n \in S
  <2> TAKE n \in 1 .. N
  <2> HAVE n - 1 \in S
  <2>1. n - 1 \in 0 .. N /\ n \in 0 .. N
    BY <1>3
  <2>2. Alike(ReadAtom(f[n - 1], text[n]), ReadAtom(g[n - 1], text[n]))
    BY <1>1, <1>2, <1>3, <2>1, AlikeGoesOn
  <2> QED  BY <1>1, <1>2, <2>1, <2>2
<1>6. N \in S
  <2> HIDE DEF S
  <2>1. N \in 0 .. N
    BY <1>3
  <2> QED  BY <1>3, <1>4, <1>5, <2>1, Upward
<1> QED  BY <1>1, <1>2, <1>6

LEMMA ShownGoesOn ==
    ASSUME NEW st \in Reading, NEW text \in Text
    PROVE  \E y \in Text : Shown(ReadAtoms(st, text)) = Shown(st) \o y
<1> DEFINE N == Len(text)
           On(p) == \E y \in Text : Shown(p) = Shown(st) \o y
<1>1. PICK f : /\ f[0] = st
               /\ \A n \in 1 .. N : f[n] = ReadAtom(f[n - 1], text[n])
               /\ \A n \in 0 .. N : f[n] \in Reading
               /\ ReadAtoms(st, text) = f[N]
  BY EachAtomIsRead
<1>2. N \in Nat /\ (\A n \in 1 .. N : text[n] \in Atoms)
  BY DEF Text
<1> HIDE DEF N
<1> DEFINE S == {n \in 0 .. N : On(f[n])}
<1>3. On(st)
  BY ShownIsText, EmptyReading, ConcatEmptySeq DEF Text
<1>4. ASSUME NEW p \in Reading, On(p), NEW a \in Atoms PROVE On(ReadAtom(p, a))
  <2>1. Shown(ReadAtom(p, a)) = IF a = Blank THEN Shown(p) ELSE Shown(p) \o Gap(p) \o <<a>>
    BY ShownGrows
  <2>2. PICK y \in Text : Shown(p) = Shown(st) \o y
    BY <1>4
  <2>3. CASE a = Blank
    BY <2>1, <2>2, <2>3
  <2>4. CASE a # Blank
    <3> DEFINE ss == Shown(st)  g == Gap(p)  ta == <<a>>  yg == y \o g
    <3>1. ss \in Text /\ g \in Text /\ ta \in Text
      BY ShownIsText DEF Text
    <3> HIDE DEF ss, g, ta
    <3>2. yg \in Text
      BY <3>1, Two
    <3>3. ss \o y \o g = ss \o yg
      BY <3>1, Regroup
    <3> HIDE DEF yg
    <3>4. yg \o ta \in Text
      BY <3>1, <3>2, Two
    <3>5. ss \o yg \o ta = ss \o (yg \o ta)
      <4>1. ss \in Text /\ yg \in Text /\ ta \in Text
        BY <3>1, <3>2
      <4> QED  BY ONLY <4>1, Regroup, SMTT(30)
    <3>6. Shown(ReadAtom(p, a)) = ss \o (yg \o ta)
      BY <2>1, <2>2, <2>4, <3>3, <3>5 DEF ss, g, ta
    <3> QED  BY <3>4, <3>6 DEF ss
  <2> QED  BY <2>3, <2>4
<1> HIDE DEF On
<1>5. 0 \in S
  BY <1>1, <1>2, <1>3
<1>6. \A n \in 1 .. N : n - 1 \in S => n \in S
  <2> TAKE n \in 1 .. N
  <2> HAVE n - 1 \in S
  <2>1. n - 1 \in 0 .. N /\ n \in 0 .. N
    BY <1>2
  <2>2. On(ReadAtom(f[n - 1], text[n]))
    BY <1>1, <1>2, <1>4, <2>1
  <2> QED  BY <1>1, <2>1, <2>2
<1>7. N \in S
  <2> HIDE DEF S
  <2>1. N \in 0 .. N
    BY <1>2
  <2> QED  BY <1>2, <1>5, <1>6, <2>1, Upward
<1> QED  BY <1>1, <1>7 DEF On

\* What is in a text is in it as well when both are written with single blanks.
LEMMA PartIsShown ==
    ASSUME NEW text, NEW s, IsPart(s, text)
    PROVE  IsPart(JoinTokens(Tokens(s)), JoinTokens(Tokens(text)))
<1>1. PICK x \in Text, y \in Text : s \in Text /\ text = x \o s \o y
  BY DEF IsPart
<1> DEFINE p == ReadAtoms(Unread, x)  q == ReadAtoms(p, s)  r == ReadAtoms(Unread, s)
<1>2. p \in Reading /\ ReadAtoms(Unread, x \o s) = q
  BY <1>1, EmptyReading, ReadAtomsOn
<1> HIDE DEF p
<1>3. q \in Reading /\ r \in Reading /\ Alike(q, r)
  BY <1>1, <1>2, EmptyReading, ReadAtomsOn, ReadAlike
<1>4. JoinTokens(Tokens(s)) = Shown(r)
  BY DEF Tokens, Shown
<1> HIDE DEF q, r
<1>5. ReadAtoms(Unread, x \o s \o y) = ReadAtoms(q, y)
  <2>1. x \o s \in Text
    BY <1>1, Two
  <2> QED  BY <1>1, <1>2, <2>1, EmptyReading, ReadAtomsOn
<1>6. JoinTokens(Tokens(text)) = Shown(ReadAtoms(q, y))
  BY <1>1, <1>5 DEF Tokens, Shown
<1>7. PICK z \in Text : Shown(ReadAtoms(q, y)) = Shown(q) \o z
  BY <1>1, <1>3, ShownGoesOn
<1>8. PICK v \in Text : Shown(q) = v \o Shown(r)
  BY <1>3 DEF Alike
<1>9. Shown(r) \in Text
  BY <1>3, ShownIsText
<1> QED  BY <1>4, <1>6, <1>7, <1>8, <1>9 DEF IsPart

LEMMA PartOccurs ==
    ASSUME NEW text \in Text, NEW s, s # <<>>, IsPart(s, text)
    PROVE  Occurs(s, text)
<1>1. PICK x \in Text, y \in Text : s \in Text /\ text = x \o s \o y
  BY DEF IsPart
<1>2. /\ Len(text) = Len(x) + Len(s) + Len(y)
      /\ Len(x) \in Nat /\ Len(s) \in Nat /\ Len(y) \in Nat
      /\ \A i \in 1 .. Len(s) : text[Len(x) + i] = s[i]
  BY <1>1, Three
<1>3. Len(s) # 0
  BY <1>1 DEF Text
<1> DEFINE m == Len(x) + 1  k == m + Len(s) - 1  part == SubSeq(text, m, k)
<1>4. /\ m \in 1 .. Len(text) /\ k \in m .. Len(text) /\ k - m + 1 = Len(s)
      /\ \A i \in 1 .. Len(s) : m + i - 1 = Len(x) + i
      /\ k <= Len(text)
  BY <1>2, <1>3
<1>5. part = s
  <2>1. \A i \in m .. k : text[i] \in Atoms
    <3>1. \A i \in m .. k : i \in 1 .. Len(text)
      BY <1>4
    <3> QED  BY <3>1 DEF Text
  <2> HIDE DEF m, k
  <2>2. /\ part \in Seq(Atoms)
        /\ Len(part) = IF m <= k THEN k - m + 1 ELSE 0
        /\ \A i \in 1 .. k - m + 1 : part[i] = text[m + i - 1]
    BY <1>4, <2>1, SubSeqProperties
  <2>3. Len(part) = Len(s)
    BY <1>4, <2>2
  <2>4. \A i \in 1 .. Len(s) : part[i] = s[i]
    BY <1>2, <1>4, <2>2
  <2> HIDE DEF part
  <2> QED  BY <1>1, <2>2, <2>3, <2>4, SeqEqual DEF Text
<1>6. Stands(text, m, s)
  BY <1>4, <1>5 DEF Stands
<1>7. m \in DOMAIN text
  BY <1>4 DEF Text
<1> HIDE DEF m
<1> QED  BY <1>6, <1>7 DEF Occurs

\* A text that is not blank makes one that is not empty.
LEMMA SolidIsShown ==
    ASSUME NEW s \in Text, Solid(s)
    PROVE  JoinTokens(Tokens(s)) # <<>>
<1>1. PICK i \in 1 .. Len(s) : s[i] # Blank
  BY DEF Solid, Text
<1> DEFINE one == <<s[i]>>
<1>2. one \in Words
  <2>1. s[i] \in Atoms
    BY DEF Text
  <2>2. one \in Text /\ one # <<>> /\ Len(one) = 1 /\ one[1] = s[i]
    BY <2>1, ShortTexts DEF Text
  <2> HIDE DEF one
  <2>3. \A j \in 1 .. Len(one) : j = 1
    BY <2>2
  <2> QED  BY <1>1, <2>2, <2>3 DEF Words
<1>3. IsPart(one, s)
  <2>1. i \in 1 .. Len(s) + 1 /\ i \in i - 1 .. Len(s)
    BY DEF Text
  <2>2. LET x == SubSeq(s, 1, i - 1)
            t == SubSeq(s, i, i)
            y == SubSeq(s, i + 1, Len(s))
        IN  x \in Text /\ t \in Text /\ y \in Text /\ s = x \o t \o y
    BY <2>1, InThree DEF Text
  <2>3. SubSeq(s, i, i) = one
    BY SubSeqOfOne
  <2> HIDE DEF one
  <2> QED  BY <2>2, <2>3 DEF IsPart
<1>4. JoinTokens(Tokens(one)) = one /\ one \in Text /\ one # <<>>
  <2> HIDE DEF one
  <2>1. Tokens(one) = <<one>> /\ one \in Text /\ one # <<>>
    BY <1>2, TokensOfWord DEF Words
  <2> QED  BY <2>1, JoinOfOne
<1> HIDE DEF one
<1>5. PICK x \in Text, y \in Text : JoinTokens(Tokens(s)) = x \o one \o y
  <2>1. IsPart(JoinTokens(Tokens(one)), JoinTokens(Tokens(s)))
    BY <1>3, PartIsShown
  <2>2. IsPart(one, JoinTokens(Tokens(s)))
    BY <1>4, <2>1
  <2> QED  BY <2>2 DEF IsPart
<1>6. Len(x \o one \o y) = Len(x) + Len(one) + Len(y) /\ Len(x) \in Nat /\ Len(y) \in Nat
  BY <1>4, Three
<1>7. Len(one) \in Nat /\ Len(one) # 0
  BY <1>4 DEF Text
<1>8. Len(x \o one \o y) # 0
  BY <1>6, <1>7
<1> QED  BY <1>5, <1>8

\* The pieces of a text: each word is one of its own, and all are parts of it.
LEMMA NextPieceType ==
    ASSUME NEW pieces \in Seq(Text), NEW text \in Text, NEW i \in 1 .. Len(text)
    PROVE  NextPiece(pieces, text, i) \in Seq(Text)
<1> DEFINE a == text[i]  N == Len(pieces)
           grown == [pieces EXCEPT ![N] = Append(pieces[N], a)]
<1>1. a \in Atoms /\ N \in Nat
  BY DEF Text
<1>2. <<>> \in Text /\ <<a>> \in Text
  BY <1>1, EmptyReading, AppendedIs
<1>3. grown \in Seq(Text)
  <2>1. CASE N = 0
    <3>1. N \notin DOMAIN pieces
      BY <2>1
    <3>2. grown = pieces
      BY <3>1
    <3> QED  BY <3>2
  <2>2. CASE N # 0
    <3>1. N \in 1 .. Len(pieces) /\ pieces[N] \in Text
      BY <1>1, <2>2, ElementOfSeq
    <3>2. Append(pieces[N], a) \in Text
      BY <1>1, <3>1, AppendedIs
    <3> QED  BY <3>1, <3>2, ExceptSeq
  <2> QED  BY <2>1, <2>2
<1>4. Append(pieces, <<>>) \in Seq(Text) /\ Append(pieces, <<a>>) \in Seq(Text)
  BY <1>2, AppendProperties
<1> QED  BY <1>3, <1>4 DEF NextPiece

LEMMA EachPieceIsCut ==
    ASSUME NEW text \in Text
    PROVE  \E split : /\ split[0] = <<>>
                      /\ \A n \in 1 .. Len(text) : split[n] = NextPiece(split[n - 1], text, n)
                      /\ \A n \in 0 .. Len(text) : split[n] \in Seq(Text)
                      /\ Pieces(text) = Chosen(split[Len(text)],
                             {k \in DOMAIN split[Len(text)] : Solid(split[Len(text)][k])})
<1> DEFINE N == Len(text)  T == Seq(Text)
           step == [p \in T \X (1 .. N) |-> NextPiece(p[1], text, p[2])]
           Each(f) == [n \in 0 .. N |-> IF n = 0 THEN <<>> ELSE NextPiece(f[n - 1], text, n)]
<1>1. N \in Nat /\ <<>> \in T
  BY EmptyReading DEF Text
<1>2. \A p \in T, n \in 1 .. N : NextPiece(p, text, n) \in T
  BY NextPieceType
<1> HIDE DEF N, T
<1>3. \E f : f = Each(f)
  <2>1. PICK f : Steps(f, N, <<>>, step)
    BY <1>1, Recursion
  <2>2. /\ f = [n \in 0 .. N |-> f[n]]
        /\ f[0] = <<>>
        /\ \A n \in 1 .. N : f[n] = step[<<f[n - 1], n>>]
    <3> HIDE DEF step
    <3> QED  BY <2>1 DEF Steps
  <2> DEFINE S == {n \in 0 .. N : f[n] \in T}
  <2>3. \A n \in 1 .. N : f[n - 1] \in T =>
                              f[n] = NextPiece(f[n - 1], text, n) /\ f[n] \in T
    <3> TAKE n \in 1 .. N
    <3> HAVE f[n - 1] \in T
    <3>1. f[n] = NextPiece(f[n - 1], text, n)
      BY <2>2
    <3> QED  BY <1>2, <3>1
  <2> HIDE DEF step
  <2>4. \A n \in 0 .. N : f[n] \in T
    <3>1. 0 \in S
      BY <1>1, <2>2
    <3>2. \A n \in 1 .. N : n - 1 \in S => n \in S
      BY <1>1, <2>3
    <3>3. \A n \in 0 .. N : n \in S
      <4> HIDE DEF S
      <4> QED  BY <1>1, <3>1, <3>2, Upward
    <3> QED  BY <3>3
  <2>5. ASSUME NEW n \in 0 .. N PROVE f[n] = Each(f)[n]
    <3>1. CASE n = 0
      BY <2>2, <3>1
    <3>2. CASE n # 0
      <4>1. n \in 1 .. N /\ n - 1 \in 0 .. N
        BY <1>1, <3>2
      <4>2. f[n] = NextPiece(f[n - 1], text, n)
        BY <2>3, <2>4, <4>1
      <4> QED  BY <3>2, <4>2
    <3> QED  BY <3>1, <3>2
  <2>6. f = Each(f)
    <3>1. Each(f) = [n \in 0 .. N |-> Each(f)[n]]
      OBVIOUS
    <3> HIDE DEF Each
    <3> QED  BY <2>2, <2>5, <3>1
  <2> QED  BY <2>6
<1> DEFINE split == CHOOSE f : f = Each(f)
<1>4. split = Each(split)
  <2> HIDE DEF Each
  <2> QED  BY <1>3
<1>5. Pieces(text) = Chosen(split[N], {k \in DOMAIN split[N] : Solid(split[N][k])})
  BY DEF Pieces, N
<1> HIDE DEF split
<1>6. split[0] = <<>>
  <2>1. Each(split)[0] = <<>>
    BY <1>1
  <2> HIDE DEF Each
  <2> QED  BY <1>4, <2>1
<1>7. ASSUME NEW n \in 1 .. N PROVE split[n] = NextPiece(split[n - 1], text, n)
  <2>1. n \in 0 .. N /\ n # 0
    BY <1>1
  <2>2. Each(split)[n] = NextPiece(split[n - 1], text, n)
    BY <2>1
  <2> HIDE DEF Each
  <2> QED  BY <1>4, <2>2
<1>8. \A n \in 0 .. N : split[n] \in T
  <2> DEFINE S == {n \in 0 .. N : split[n] \in T}
  <2>1. 0 \in S
    BY <1>1, <1>6
  <2>2. \A n \in 1 .. N : n - 1 \in S => n \in S
    BY <1>1, <1>2, <1>7
  <2>3. \A n \in 0 .. N : n \in S
    <3> HIDE DEF S
    <3> QED  BY <1>1, <2>1, <2>2, Upward
  <2> QED  BY <2>3
<1> QED  BY <1>5, <1>6, <1>7, <1>8 DEF N, T

\* The pieces of u, of which the last one may still grow unless it is a word.
Divided(pieces, u) ==
    /\ u # <<>> => pieces # <<>>
    /\ \A k \in 1 .. Len(pieces) : IsPart(pieces[k], u)
    /\ pieces # <<>> => \E x \in Text : u = x \o pieces[Len(pieces)]
    /\ \A j \in 1 .. Len(u) : IsWord(u[j]) =>
           \E k \in 1 .. Len(pieces) : /\ pieces[k] = <<u[j]>>
                                       /\ k = Len(pieces) => IsWord(u[Len(u)])

LEMMA EmptyPart == ASSUME NEW u \in Text PROVE IsPart(<<>>, u)
<1>1. <<>> \in Text /\ u = u \o <<>> \o <<>>
  BY EmptyReading, ConcatEmptySeq DEF Text
<1> QED  BY <1>1 DEF IsPart

\* A piece that is added is the last atom or nothing.
LEMMA PieceIsAdded ==
    ASSUME NEW pieces \in Seq(Text), NEW u \in Text, Divided(pieces, u), NEW a \in Atoms,
           NEW p \in {<<>>, <<a>>}, IsWord(a) => p = <<a>>
    PROVE  Divided(Append(pieces, p), Append(u, a))
<1> DEFINE v == Append(u, a)  more == Append(pieces, p)  N == Len(pieces)
<1>1. /\ v \in Text /\ IsPart(u, v) /\ v = u \o <<a>> /\ <<a>> \in Text
  BY AppendedIs
<1>2. Len(v) = Len(u) + 1 /\ Len(u) \in Nat /\ v[Len(u) + 1] = a
      /\ \A j \in 1 .. Len(u) : v[j] = u[j]
  BY DEF Text
<1>3. p \in Text
  BY <1>1, EmptyReading
<1>4. /\ more \in Seq(Text) /\ Len(more) = N + 1 /\ N \in Nat /\ more[N + 1] = p
      /\ \A k \in 1 .. N : more[k] = pieces[k]
  BY <1>3
<1> HIDE DEF v, more, N
<1>5. \E x \in Text : v = x \o p
  <2>1. v = v \o <<>>
    BY <1>1, ConcatEmptySeq DEF Text
  <2> QED  BY <1>1, <2>1
<1>6. IsPart(p, v)
  <2>1. CASE p = <<>>
    BY <1>1, <2>1, EmptyPart
  <2>2. CASE p = <<a>>
    <3>1. u \o <<a>> = u \o <<a>> \o <<>> /\ <<>> \in Text
      BY <1>1, EmptyReading, ConcatEmptySeq DEF Text
    <3> QED  BY <1>1, <2>2, <3>1 DEF IsPart
  <2> QED  BY <2>1, <2>2
<1>7. ASSUME NEW k \in 1 .. N + 1 PROVE IsPart(more[k], v)
  <2>1. CASE k = N + 1
    BY <1>4, <1>6, <2>1
  <2>2. CASE k # N + 1
    <3>1. k \in 1 .. N
      BY <1>4, <2>2
    <3>2. IsPart(pieces[k], u)
      BY <3>1 DEF Divided, N
    <3> QED  BY <1>1, <1>4, <3>1, <3>2, PartOfPart
  <2> QED  BY <2>1, <2>2
<1>8. ASSUME NEW j \in 1 .. Len(v), IsWord(v[j])
      PROVE  \E k \in 1 .. N + 1 : more[k] = <<v[j]>> /\ (k = N + 1 => IsWord(v[Len(v)]))
  <2>1. CASE j = Len(v)
    <3>1. v[j] = a /\ N + 1 \in 1 .. N + 1
      BY <1>2, <1>4, <2>1
    <3> QED  BY <1>4, <1>8, <2>1, <3>1
  <2>2. CASE j # Len(v)
    <3>1. j \in 1 .. Len(u) /\ v[j] = u[j]
      BY <1>2, <2>2
    <3>2. PICK k \in 1 .. N : pieces[k] = <<u[j]>>
      BY <1>8, <3>1 DEF Divided, N
    <3>3. k \in 1 .. N + 1 /\ k # N + 1
      BY <1>4
    <3> QED  BY <1>4, <3>1, <3>2, <3>3
  <2> QED  BY <2>1, <2>2
<1>9. more # <<>>
  BY <1>4
<1> QED  BY <1>4, <1>5, <1>7, <1>8, <1>9 DEF Divided, v, more

\* A piece that is no word grows with what is neither a word nor a blank.
LEMMA PieceGrows ==
    ASSUME NEW pieces \in Seq(Text), NEW u \in Text, Divided(pieces, u), NEW a \in Atoms,
           u # <<>>, ~IsWord(u[Len(u)]), ~IsWord(a)
    PROVE  Divided([pieces EXCEPT ![Len(pieces)] = Append(pieces[Len(pieces)], a)], Append(u, a))
<1> DEFINE v == Append(u, a)  N == Len(pieces)  last == pieces[N]
           more == [pieces EXCEPT ![N] = Append(last, a)]
<1>1. /\ v \in Text /\ IsPart(u, v) /\ v = u \o <<a>> /\ <<a>> \in Text
  BY AppendedIs
<1>2. Len(v) = Len(u) + 1 /\ Len(u) \in Nat /\ v[Len(u) + 1] = a
      /\ \A j \in 1 .. Len(u) : v[j] = u[j]
  BY DEF Text
<1>3. N \in Nat /\ N \in 1 .. N
  <2>1. pieces # <<>> /\ N \in Nat
    BY DEF Divided
  <2>2. N # 0
    BY <2>1, EmptySeq
  <2> QED  BY <2>1, <2>2
<1>4. last \in Text /\ Append(last, a) \in Text /\ Append(last, a) = last \o <<a>>
  <2>1. last \in Text
    BY <1>3, ElementOfSeq
  <2> HIDE DEF last
  <2> QED  BY <2>1, AppendedIs
<1>5. /\ more \in Seq(Text) /\ Len(more) = N /\ more[N] = Append(last, a)
      /\ \A k \in 1 .. N : k # N => more[k] = pieces[k]
  <2>1. more \in Seq(Text) /\ Len(more) = N
        /\ \A k \in 1 .. N : more[k] = IF k = N THEN Append(last, a) ELSE pieces[k]
    BY <1>3, <1>4, ExceptSeq
  <2> QED  BY <1>3, <2>1
<1> HIDE DEF more
<1>6. PICK x \in Text : u = x \o last
  <2>1. pieces # <<>>
    BY DEF Divided
  <2> QED  BY <2>1 DEF Divided
<1> HIDE DEF v, N, last
<1>7. v = x \o Append(last, a)
  <2>1. x \o last \o <<a>> = x \o (last \o <<a>>)
    <3> DEFINE ta == <<a>>
    <3>1. x \in Text /\ last \in Text /\ ta \in Text
      BY <1>1, <1>4, <1>6
    <3> HIDE DEF ta
    <3>2. x \o last \o ta = x \o (last \o ta)
      BY ONLY <3>1, Regroup
    <3> QED  BY <3>2 DEF ta
  <2> QED  BY <1>1, <1>4, <1>6, <2>1
<1>8. IsPart(Append(last, a), v)
  <2>1. v = v \o <<>> /\ <<>> \in Text
    BY <1>1, EmptyReading, ConcatEmptySeq DEF Text
  <2> QED  BY <1>4, <1>6, <1>7, <2>1 DEF IsPart
<1>9. ASSUME NEW k \in 1 .. N PROVE IsPart(more[k], v)
  <2>1. CASE k = N
    BY <1>5, <1>8, <2>1
  <2>2. CASE k # N
    <3>1. IsPart(pieces[k], u)
      BY DEF Divided, N
    <3> QED  BY <1>1, <1>5, <2>2, <3>1, PartOfPart
  <2> QED  BY <2>1, <2>2
<1>10. ASSUME NEW j \in 1 .. Len(v), IsWord(v[j])
       PROVE  \E k \in 1 .. N : more[k] = <<v[j]>> /\ (k = N => IsWord(v[Len(v)]))
  <2>1. j # Len(v)
    BY <1>2, <1>10
  <2>2. j \in 1 .. Len(u) /\ v[j] = u[j]
    BY <1>2, <2>1
  <2>3. PICK k \in 1 .. N : pieces[k] = <<u[j]>> /\ (k = N => IsWord(u[Len(u)]))
    BY <1>10, <2>2 DEF Divided, N
  <2> QED  BY <1>5, <2>2, <2>3
<1>11. more # <<>>
  BY <1>3, <1>5, EmptySeq
<1>12. more[Len(more)] = Append(last, a)
  BY <1>5
<1>13. Divided(more, v)
  BY <1>5, <1>6, <1>7, <1>9, <1>10, <1>11, <1>12 DEF Divided
<1> QED  BY <1>13 DEF more, v, last, N

LEMMA PiecesOfText ==
    ASSUME NEW text \in Text
    PROVE  /\ Pieces(text) \in Seq(Text)
           /\ \A p \in ToSet(Pieces(text)) : IsPart(p, text) /\ Solid(p)
           /\ \A i \in 1 .. Len(text) :
                  IsWord(text[i]) => <<text[i]>> \in ToSet(Pieces(text))
<1> DEFINE N == Len(text)
           u(n) == SubSeq(text, 1, n)
<1>1. PICK f : /\ f[0] = <<>>
               /\ \A n \in 1 .. N : f[n] = NextPiece(f[n - 1], text, n)
               /\ \A n \in 0 .. N : f[n] \in Seq(Text)
               /\ Pieces(text) = Chosen(f[N], {k \in DOMAIN f[N] : Solid(f[N][k])})
  BY EachPieceIsCut
<1>2. N \in Nat /\ \A n \in 1 .. N : text[n] \in Atoms
  BY DEF Text
<1>3. u(0) = <<>> /\ u(N) = text
  BY DEF Text
<1>4. \A n \in 1 .. N : /\ u(n - 1) \in Text /\ u(n) = Append(u(n - 1), text[n])
                        /\ Len(u(n - 1)) = n - 1
                        /\ n > 1 => u(n - 1)[n - 1] = text[n - 1]
  BY DEF Text
<1> DEFINE S == {n \in 0 .. N : Divided(f[n], u(n))}
<1> HIDE DEF N, u
<1>5. 0 \in S
  <2>1. Divided(<<>>, <<>>)
    BY DEF Divided
  <2> QED  BY <1>1, <1>2, <1>3, <2>1
<1>6. \A n \in 1 .. N : n - 1 \in S => n \in S
  <2> TAKE n \in 1 .. N
  <2> HAVE n - 1 \in S
  <2> DEFINE pieces == f[n - 1]  before == u(n - 1)  a == text[n]
             afterWord == n > 1 /\ IsWord(text[n - 1])
  <2>1. n - 1 \in 0 .. N /\ n \in 0 .. N
    BY <1>2
  <2>2. pieces \in Seq(Text) /\ before \in Text /\ Divided(pieces, before) /\ a \in Atoms
    BY <1>1, <1>2, <1>4, <2>1
  <2>3. f[n] = NextPiece(pieces, text, n) /\ u(n) = Append(before, a)
        /\ Len(before) = n - 1 /\ (n > 1 => before[n - 1] = text[n - 1])
    BY <1>1, <1>4
  <2> HIDE DEF pieces, before, a
  <2>4. Divided(NextPiece(pieces, text, n), Append(before, a))
    <3>1. CASE a = Blank /\ ~afterWord
      <4>1. NextPiece(pieces, text, n) = Append(pieces, <<>>) /\ ~IsWord(a)
        BY <3>1, LowAtoms DEF NextPiece, a
      <4> QED  BY <2>2, <4>1, PieceIsAdded
    <3>2. CASE ~(a = Blank /\ ~afterWord) /\ (n = 1 \/ afterWord \/ IsWord(a))
      <4>1. NextPiece(pieces, text, n) = Append(pieces, <<a>>)
        BY <3>2 DEF NextPiece, a
      <4> QED  BY <2>2, <4>1, PieceIsAdded
    <3>3. CASE ~(a = Blank /\ ~afterWord) /\ ~(n = 1 \/ afterWord \/ IsWord(a))
      <4>1. NextPiece(pieces, text, n)
                = [pieces EXCEPT ![Len(pieces)] = Append(pieces[Len(pieces)], a)]
        BY <3>3 DEF NextPiece, a
      <4>2. n > 1 /\ ~IsWord(text[n - 1])
        BY <1>2, <3>3
      <4>3. before # <<>> /\ ~IsWord(before[Len(before)])
        BY <2>3, <4>2
      <4> QED  BY <2>2, <3>3, <4>1, <4>3, PieceGrows
    <3> QED  BY <3>1, <3>2, <3>3
  <2> QED  BY <2>1, <2>3, <2>4
<1>7. Divided(f[N], text) /\ f[N] \in Seq(Text)
  <2>1. N \in S
    <3> HIDE DEF S
    <3>1. N \in 0 .. N
      BY <1>2
    <3> QED  BY <1>2, <1>5, <1>6, <3>1, Upward
  <2> QED  BY <1>1, <1>3, <2>1
<1> DEFINE all == f[N]  solid == {k \in DOMAIN all : Solid(all[k])}
<1> HIDE DEF all
<1>8. /\ Pieces(text) \in Seq(Text) /\ ToSet(Pieces(text)) = {all[k] : k \in solid}
      /\ DOMAIN all = 1 .. Len(all)
  <2>1. all \in Seq(Text) /\ Pieces(text) = Chosen(all, solid) /\ solid \in SUBSET DOMAIN all
    BY <1>1, <1>7 DEF all
  <2> HIDE DEF solid
  <2> QED  BY <2>1, ChosenKeeps
<1>9. \A p \in ToSet(Pieces(text)) : IsPart(p, text) /\ Solid(p)
  BY <1>7, <1>8 DEF Divided, all
<1>10. ASSUME NEW i \in 1 .. Len(text), IsWord(text[i])
       PROVE  <<text[i]>> \in ToSet(Pieces(text))
  <2>1. PICK k \in 1 .. Len(all) : all[k] = <<text[i]>>
    BY <1>7, <1>10 DEF Divided, all
  <2>2. Solid(<<text[i]>>)
    <3>1. text[i] # Blank
      BY <1>10, LowAtoms
    <3>2. 1 \in DOMAIN <<text[i]>> /\ <<text[i]>>[1] = text[i]
      OBVIOUS
    <3> QED  BY <3>1, <3>2 DEF Solid
  <2>3. k \in solid
    BY <1>8, <2>1, <2>2
  <2> QED  BY <1>8, <2>1, <2>3
<1> QED  BY <1>8, <1>9, <1>10

\* The terms of a text: each word that is no stop word, and nothing that is not
\* in the text.
LEMMA LowSolid ==
    ASSUME NEW text \in Text
    PROVE  Solid(InLower(text)) <=> Solid(text)
<1>1. /\ InLower(text) \in Text /\ Len(InLower(text)) = Len(text)
      /\ \A i \in 1 .. Len(text) : InLower(text)[i] = InLowerCase(text[i])
  BY LowText
<1>2. \A i \in 1 .. Len(text) : InLower(text)[i] = Blank <=> text[i] = Blank
  BY <1>1, LowAtoms
<1>3. DOMAIN InLower(text) = 1 .. Len(text) /\ DOMAIN text = 1 .. Len(text)
  <2> DEFINE low == InLower(text)
  <2>1. low \in Seq(Atoms) /\ Len(low) = Len(text)
    BY <1>1 DEF Text
  <2> HIDE DEF low
  <2>2. DOMAIN low = 1 .. Len(text) /\ DOMAIN text = 1 .. Len(text)
    BY <2>1 DEF Text
  <2> QED  BY <2>2 DEF low
<1> QED  BY <1>2, <1>3 DEF Solid

LEMMA OneAtom ==
    ASSUME NEW w \in Atoms
    PROVE  /\ <<w>> \in Text /\ <<w>> # <<>> /\ Len(<<w>>) = 1 /\ <<w>>[1] = w
           /\ w # Blank => <<w>> \in Words /\ Solid(<<w>>)
           /\ w \notin DOMAIN Lower => InLower(<<w>>) = <<w>>
<1> DEFINE one == <<w>>
<1>1. one \in Text /\ one # <<>> /\ Len(one) = 1 /\ one[1] = w /\ DOMAIN one = {1}
  <2>1. one \in Text
    BY AppendedIs DEF Text
  <2> QED  BY <2>1, ShortTexts
<1> HIDE DEF one
<1>2. ASSUME w # Blank PROVE one \in Words /\ Solid(one)
  <2>1. \A j \in 1 .. Len(one) : j = 1
    BY <1>1
  <2> QED  BY <1>1, <1>2, <2>1 DEF Words, Solid
<1>3. ASSUME w \notin DOMAIN Lower PROVE InLower(one) = one
  <2> DEFINE low == InLower(one)
  <2>1. /\ low \in Text /\ Len(low) = Len(one)
        /\ \A i \in 1 .. Len(one) : low[i] = InLowerCase(one[i])
    BY <1>1, LowText
  <2> HIDE DEF low
  <2>2. \A i \in 1 .. Len(one) : low[i] = one[i]
    <3>1. \A j \in 1 .. Len(one) : j = 1
      BY <1>1
    <3> QED  BY <1>1, <1>3, <2>1, <3>1 DEF InLowerCase
  <2>3. low = one
    BY <1>1, <2>1, <2>2, SeqEqual DEF Text
  <2> QED  BY <2>3 DEF low
<1> QED  BY <1>1, <1>2, <1>3 DEF one

\* Not only blanks of the text are asked for.
Asks(t, low) == t \in Text /\ IsPart(InLower(t), low) /\ Solid(InLower(t))

LEMMA TermsOfText ==
    ASSUME NEW text \in Text
    PROVE  /\ StandardAnalyzer(text) \in Seq(Text)
           /\ \A t \in ToSet(StandardAnalyzer(text)) :
                  Asks(t, InLower(text)) /\ IsPart(t, InLower(text)) /\ Solid(t)
           /\ \A i \in 1 .. Len(text) :
                  IsWord(text[i]) /\ text[i] \notin DOMAIN Lower /\ text[i] \notin Stopwords
                      => <<text[i]>> \in ToSet(StandardAnalyzer(text))
<1> DEFINE pieces == Pieces(text)
           terms == [k \in DOMAIN pieces |-> InLower(pieces[k])]
           kept == {k \in DOMAIN terms : ~IsStopword(terms[k])}
           all == StandardAnalyzer(text)
<1>1. /\ pieces \in Seq(Text)
      /\ \A p \in ToSet(pieces) : IsPart(p, text) /\ Solid(p)
      /\ \A i \in 1 .. Len(text) : IsWord(text[i]) => <<text[i]>> \in ToSet(pieces)
  BY PiecesOfText
<1>2. all = Chosen(terms, kept)
  BY DEF StandardAnalyzer
<1> HIDE DEF pieces, all
<1>3. DOMAIN pieces = 1 .. Len(pieces) /\ Len(pieces) \in Nat
  BY <1>1
<1>4. \A k \in 1 .. Len(pieces) : pieces[k] \in Text /\ pieces[k] \in ToSet(pieces)
  BY <1>1, <1>3 DEF ToSet
<1>5. /\ terms \in Seq(Text) /\ DOMAIN terms = 1 .. Len(pieces)
      /\ \A k \in 1 .. Len(pieces) : terms[k] = InLower(pieces[k])
  <2>1. \A k \in 1 .. Len(pieces) : InLower(pieces[k]) \in Text
    BY <1>4, InLowerKeeps
  <2>2. terms \in [1 .. Len(pieces) -> Text]
    BY <1>3, <2>1
  <2>3. terms \in Seq(Text)
    <3> HIDE DEF terms
    <3> QED  BY <1>3, <2>2, FunctionIsList
  <2> QED  BY <1>3, <2>3
<1> HIDE DEF terms
<1>6. all \in Seq(Text) /\ ToSet(all) = {terms[k] : k \in kept}
  <2>1. kept \in SUBSET DOMAIN terms
    OBVIOUS
  <2> HIDE DEF kept
  <2> QED  BY <1>2, <1>5, <2>1, ChosenKeeps
<1>7. ASSUME NEW t \in ToSet(all)
      PROVE  Asks(t, InLower(text)) /\ IsPart(t, InLower(text)) /\ Solid(t)
  <2>1. PICK k \in 1 .. Len(pieces) : t = InLower(pieces[k])
    BY <1>5, <1>6
  <2>2. pieces[k] \in Text /\ IsPart(pieces[k], text) /\ Solid(pieces[k])
    BY <1>1, <1>4
  <2>3. IsPart(t, InLower(text)) /\ Solid(t) /\ t \in Text /\ InLower(t) = t
    BY <2>1, <2>2, LowPart, LowSolid, LowTwice, InLowerKeeps
  <2> QED  BY <2>3 DEF Asks
<1>8. ASSUME NEW i \in 1 .. Len(text), IsWord(text[i]), text[i] \notin DOMAIN Lower,
             text[i] \notin Stopwords
      PROVE  <<text[i]>> \in ToSet(all)
  <2> DEFINE w == text[i]
  <2>1. PICK k \in 1 .. Len(pieces) : pieces[k] = <<w>>
    BY <1>1, <1>3, <1>8 DEF ToSet
  <2>2. w \in Atoms
    BY DEF Text
  <2>3. InLower(<<w>>) = <<w>> /\ <<w>>[1] = w
    BY <1>8, <2>2, OneAtom
  <2>4. terms[k] = <<w>> /\ ~IsStopword(terms[k])
    BY <1>5, <1>8, <2>1, <2>3 DEF IsStopword
  <2>5. k \in kept
    BY <1>5, <2>4
  <2> QED  BY <1>6, <2>4, <2>5
<1> QED  BY <1>6, <1>7, <1>8 DEF all

\* What a term or a phrase query asks for.
LEMMA TermQueryAsks ==
    ASSUME NEW field, NEW value \in Text, Solid(value)
    PROVE  /\ TermQuery(field, value).field = field
           /\ \A t \in ToSet(TermQuery(field, value).terms) : Asks(t, InLower(value))
<1> DEFINE terms == StandardAnalyzer(value)
           t == IF terms # <<>> THEN terms[1] ELSE InLower(value)
<1>1. terms \in Seq(Text) /\ \A s \in ToSet(terms) : Asks(s, InLower(value))
  BY TermsOfText
<1>2. TermQuery(field, value).field = field /\ TermQuery(field, value).terms = <<t>>
  BY DEF TermQuery
<1> HIDE DEF terms
<1>3. Asks(t, InLower(value))
  <2>1. CASE terms # <<>>
    <3>1. terms[1] \in ToSet(terms)
      <4>1. 1 \in DOMAIN terms
        BY <1>1, <2>1
      <4> QED  BY <4>1 DEF ToSet
    <3> QED  BY <1>1, <2>1, <3>1
  <2>2. CASE terms = <<>>
    <3>1. InLower(value) \in Text /\ InLower(InLower(value)) = InLower(value)
      BY LowTwice, InLowerKeeps
    <3>2. Solid(InLower(value)) /\ IsPart(InLower(value), InLower(value))
      BY <3>1, LowSolid, OwnPart
    <3> QED  BY <2>2, <3>1, <3>2 DEF Asks
  <2> QED  BY <2>1, <2>2
<1> HIDE DEF t
<1>4. ToSet(<<t>>) = {t}
  <2>1. DOMAIN <<t>> = {1} /\ <<t>>[1] = t
    OBVIOUS
  <2> QED  BY <2>1 DEF ToSet
<1> QED  BY <1>2, <1>3, <1>4

LEMMA PhraseQueryAsks ==
    ASSUME NEW field, NEW phrase \in Text, Solid(phrase)
    PROVE  /\ PhraseQuery(field, phrase).field = field
           /\ \A t \in ToSet(PhraseQuery(field, phrase).terms) : Asks(t, InLower(phrase))
           /\ \A i \in 1 .. Len(phrase) :
                  /\ IsWord(phrase[i]) /\ phrase[i] \notin DOMAIN Lower
                  /\ phrase[i] \notin Stopwords
                  => <<phrase[i]>> \in ToSet(PhraseQuery(field, phrase).terms)
<1> DEFINE terms == StandardAnalyzer(phrase)
           asked == IF terms # <<>> THEN terms ELSE <<phrase>>
<1>1. /\ terms \in Seq(Text)
      /\ \A s \in ToSet(terms) : Asks(s, InLower(phrase))
      /\ \A i \in 1 .. Len(phrase) :
             IsWord(phrase[i]) /\ phrase[i] \notin DOMAIN Lower /\ phrase[i] \notin Stopwords
                 => <<phrase[i]>> \in ToSet(terms)
  BY TermsOfText
<1>2. /\ PhraseQuery(field, phrase).field = field
      /\ PhraseQuery(field, phrase).terms = asked
  BY DEF PhraseQuery
<1> HIDE DEF terms
<1>3. ToSet(<<phrase>>) = {phrase}
  <2>1. DOMAIN <<phrase>> = {1} /\ <<phrase>>[1] = phrase
    OBVIOUS
  <2> QED  BY <2>1 DEF ToSet
<1>4. Asks(phrase, InLower(phrase))
  <2>1. InLower(phrase) \in Text /\ Solid(InLower(phrase))
    BY LowSolid, InLowerKeeps
  <2> QED  BY <2>1, OwnPart DEF Asks
<1>5. \A t \in ToSet(asked) : Asks(t, InLower(phrase))
  <2>1. CASE terms # <<>>
    BY <1>1, <2>1
  <2>2. CASE terms = <<>>
    BY <1>3, <1>4, <2>2
  <2> QED  BY <2>1, <2>2
<1>6. ASSUME NEW i \in 1 .. Len(phrase), IsWord(phrase[i]), phrase[i] \notin DOMAIN Lower,
             phrase[i] \notin Stopwords
      PROVE  <<phrase[i]>> \in ToSet(asked)
  <2>1. <<phrase[i]>> \in ToSet(terms)
    BY <1>1, <1>6
  <2>2. terms # <<>>
    BY <2>1 DEF ToSet
  <2> QED  BY <2>1, <2>2
<1> QED  BY <1>2, <1>5, <1>6

\* A word is asked for as it is.
LEMMA WordIsAskedFor ==
    ASSUME NEW field, NEW w \in Atoms, IsWord(w), w \notin DOMAIN Lower, w \notin Stopwords
    PROVE  <<w>> \in ToSet(TermQuery(field, <<w>>).terms)
<1> DEFINE one == <<w>>  terms == StandardAnalyzer(one)
<1>1. /\ one \in Text /\ Len(one) = 1 /\ one[1] = w /\ InLower(one) = one
  BY OneAtom
<1> HIDE DEF one
<1>2. /\ terms \in Seq(Text)
      /\ \A t \in ToSet(terms) : IsPart(t, one) /\ Solid(t)
      /\ one \in ToSet(terms)
  <2>1. 1 \in 1 .. Len(one)
    BY <1>1
  <2> QED  BY <1>1, <2>1, TermsOfText DEF one
<1> HIDE DEF terms
<1>3. terms # <<>> /\ terms[1] \in ToSet(terms)
  <2>1. terms # <<>>
    BY <1>2 DEF ToSet
  <2>2. 1 \in DOMAIN terms
    BY <1>2, <2>1
  <2> QED  BY <2>1, <2>2 DEF ToSet
<1>4. ASSUME NEW t, IsPart(t, one), Solid(t) PROVE t = one
  <2>1. PICK x \in Text, y \in Text : t \in Text /\ one = x \o t \o y
    BY <1>4 DEF IsPart
  <2>2. /\ Len(one) = Len(x) + Len(t) + Len(y)
        /\ Len(x) \in Nat /\ Len(t) \in Nat /\ Len(y) \in Nat
        /\ \A j \in 1 .. Len(t) : one[Len(x) + j] = t[j]
    <3>1. t \in Text
      BY <2>1
    <3>2. /\ Len(x \o t \o y) = Len(x) + Len(t) + Len(y)
          /\ Len(x) \in Nat /\ Len(t) \in Nat /\ Len(y) \in Nat
          /\ \A j \in 1 .. Len(t) : (x \o t \o y)[Len(x) + j] = t[j]
      BY <3>1, Three
    <3> QED  BY <2>1, <3>2
  <2>3. Len(t) # 0
    BY <1>4, <2>1 DEF Solid, Text
  <2>4. Len(t) = 1 /\ Len(x) = 0
    BY <1>1, <2>2, <2>3
  <2>5. \A j \in 1 .. Len(t) : t[j] = one[j]
    BY <2>2, <2>4
  <2> QED  BY <1>1, <2>1, <2>4, <2>5, SeqEqual DEF Text
<1>5. terms[1] = one
  BY <1>2, <1>3, <1>4
<1>6. TermQuery(field, one).terms = <<one>>
  BY <1>3, <1>5 DEF TermQuery, terms
<1>7. one \in ToSet(<<one>>)
  <2>1. 1 \in DOMAIN <<one>> /\ <<one>>[1] = one
    OBVIOUS
  <2> QED  BY <2>1 DEF ToSet
<1> QED  BY <1>6, <1>7 DEF one

\* What is asked for is in the query.
LEMMA AskedOccurs ==
    ASSUME NEW low \in Text, InLower(low) = low, NEW t, Asks(t, low)
    PROVE  Occurs(Normalize(t), Normalize(low))
<1>1. t \in Text /\ IsPart(InLower(t), low) /\ Solid(InLower(t)) /\ InLower(t) \in Text
  BY InLowerKeeps DEF Asks
<1>2. IsPart(Normalize(t), Normalize(low))
  BY <1>1, PartIsShown DEF Normalize
<1>3. Normalize(t) # <<>>
  BY <1>1, SolidIsShown DEF Normalize
<1>4. Normalize(low) \in Text
  BY NormalizeKeeps
<1> QED  BY <1>2, <1>3, <1>4, PartOccurs

LEMMA AskedOfPart ==
    ASSUME NEW low, NEW part, NEW t, Asks(t, part), IsPart(part, low)
    PROVE  Asks(t, low)
BY PartOfPart DEF Asks

\* The tokens of two texts are those of the one and of the other if there is a
\* blank, or nothing, on either side of where they meet.
LEMMA TokensBeside ==
    ASSUME NEW s \in Text, NEW t \in Text, EndsBlank(s) \/ BeginsBlank(t)
    PROVE  /\ Tokens(s \o t) = Tokens(s) \o Tokens(t)
           /\ Tokens(s) \in Seq(Text) /\ Tokens(t) \in Seq(Text)
<1> DEFINE b == <<Blank>>
<1>1. Tokens(s) \in Seq(Text) /\ Tokens(t) \in Seq(Text)
  BY TokensOfTwo
<1>2. b \in Text /\ <<>> \in Text /\ Tokens(<<>>) = <<>>
  BY BlankIsText, EmptyReading, NoTokens
<1> DEFINE ts == Tokens(s)  tt == Tokens(t)
<1>3. ts \o <<>> = ts /\ <<>> \o tt = tt
  BY <1>1, ConcatEmptySeq
<1>4. s \o <<>> = s /\ <<>> \o t = t
  BY ConcatEmptySeq DEF Text
<1>5. CASE s = <<>>
  <2>1. s \o t = t /\ Tokens(s) = <<>>
    BY <1>2, <1>4, <1>5
  <2>2. Tokens(s) \o tt = tt
    BY <1>3, <2>1
  <2> QED  BY <1>1, <2>1, <2>2
<1>6. CASE t = <<>>
  <2>1. s \o t = s /\ Tokens(t) = <<>>
    BY <1>2, <1>4, <1>6
  <2>2. ts \o Tokens(t) = ts
    BY <1>3, <2>1
  <2> QED  BY <1>1, <2>1, <2>2
<1>7. CASE s # <<>> /\ s[Len(s)] = Blank
  <2> DEFINE r == SubSeq(s, 1, Len(s) - 1)
  <2>1. r \in Text /\ s = r \o b
    <3>1. Len(s) \in Nat /\ Len(s) # 0
      BY <1>7 DEF Text
    <3>2. r \in Text /\ s = Append(r, s[Len(s)])
      BY <3>1 DEF Text
    <3>3. Append(r, Blank) = r \o b
      <4> HIDE DEF r
      <4> QED  BY <3>2, AppendIsConcat DEF Text, Atoms
    <3> QED  BY <1>7, <3>2, <3>3
  <2> HIDE DEF r, b
  <2>2. Tokens(r \o b \o t) = Tokens(r) \o Tokens(t)
    BY <2>1, TokensOfTwo DEF b
  <2>3. Tokens(r \o b \o <<>>) = Tokens(r) \o <<>> /\ Tokens(r) \in Seq(Text)
    BY <1>2, <2>1, TokensOfTwo DEF b
  <2>4. Tokens(s) = Tokens(r)
    <3>1. Tokens(r) \o <<>> = Tokens(r)
      BY <2>3, ConcatEmptySeq
    <3> QED  BY <1>4, <2>1, <2>3, <3>1
  <2> QED  BY <1>1, <2>1, <2>2, <2>4
<1>8. CASE t # <<>> /\ t[1] = Blank
  <2> DEFINE r == SubSeq(t, 2, Len(t))
  <2>1. r \in Text /\ t = b \o r
    <3> DEFINE x == SubSeq(t, 1, 0)  c == SubSeq(t, 1, 1)
    <3>1. Len(t) \in Nat /\ Len(t) # 0
      BY <1>8 DEF Text
    <3>2. x \in Seq(Atoms) /\ c \in Seq(Atoms) /\ r \in Seq(Atoms) /\ t = x \o c \o r
          /\ Len(x) = 0
      <4> DEFINE m == 1
      <4>1. m - 1 = 0 /\ m + 1 = 2 /\ m = 1
        OBVIOUS
      <4>5. m \in 1 .. Len(t) + 1 /\ m \in m - 1 .. Len(t) /\ t \in Seq(Atoms)
        BY <3>1 DEF Text
      <4> HIDE DEF m
      <4>2. LET p == SubSeq(t, 1, m - 1)
                q == SubSeq(t, m, m)
                e == SubSeq(t, m + 1, Len(t))
            IN  /\ p \in Seq(Atoms) /\ q \in Seq(Atoms) /\ e \in Seq(Atoms)
                /\ t = p \o q \o e
                /\ Len(p) = m - 1 /\ Len(q) = m - m + 1 /\ Len(e) = Len(t) - m
        BY ONLY <4>5, InThree, ZenonT(60)
      <4>3. SubSeq(t, 1, m - 1) = x /\ SubSeq(t, m, m) = c /\ SubSeq(t, m + 1, Len(t)) = r
        BY <4>1
      <4> HIDE DEF x, c, r
      <4>4. x \in Seq(Atoms) /\ c \in Seq(Atoms) /\ r \in Seq(Atoms) /\ t = x \o c \o r
            /\ Len(x) = m - 1
        BY <4>2, <4>3
      <4> QED  BY <4>1, <4>4
    <3>3. c = b
      BY <1>8, SubSeqOfOne
    <3> HIDE DEF x, c, r
    <3>4. x = <<>> /\ <<>> \o c = c
      BY <3>2, EmptySeq, ConcatEmptySeq
    <3> QED  BY <3>2, <3>3, <3>4 DEF Text
  <2> HIDE DEF r, b
  <2>2. Tokens(s \o b \o r) = Tokens(s) \o Tokens(r)
    BY <2>1, TokensOfTwo DEF b
  <2> DEFINE e == <<>>
  <2>6. e \in Text /\ Tokens(e) = <<>>
    BY <1>2
  <2> HIDE DEF b, e
  <2>7. Tokens(e \o b \o r) = Tokens(e) \o Tokens(r) /\ Tokens(r) \in Seq(Text)
    BY <2>1, <2>6, TokensOfTwo DEF b
  <2>3. Tokens(<<>> \o b \o r) = <<>> \o Tokens(r) /\ Tokens(r) \in Seq(Text)
    BY <2>6, <2>7 DEF e
  <2>4. Tokens(t) = Tokens(r)
    <3>1. <<>> \o Tokens(r) = Tokens(r) /\ <<>> \o b = b
      BY <1>2, <2>3, ConcatEmptySeq DEF Text
    <3> QED  BY <2>1, <2>3, <3>1
  <2>5. s \o b \o r = s \o t
    <3>1. s \in Text /\ b \in Text /\ r \in Text
      BY <1>2, <2>1 DEF b
    <3>2. s \o b \o r = s \o (b \o r)
      BY ONLY <3>1, Regroup
    <3> QED  BY <2>1, <3>2 DEF b
  <2> QED  BY <1>1, <2>2, <2>4, <2>5
<1> QED  BY <1>1, <1>5, <1>6, <1>7, <1>8 DEF EndsBlank, BeginsBlank

\* A word that stands by itself is a token.
LEMMA AloneIsToken ==
    ASSUME NEW text \in Text, NEW i \in Alone(text)
    PROVE  <<text[i]>> \in ToSet(Tokens(text))
<1> DEFINE N == Len(text)  one == <<text[i]>>
           x == SubSeq(text, 1, i - 1)
           y == SubSeq(text, i + 1, N)
<1>1. /\ i \in 1 .. N /\ N \in Nat /\ IsWord(text[i])
      /\ i = 1 \/ text[i - 1] = Blank
      /\ i = N \/ text[i + 1] = Blank
      /\ text[i] \in Atoms
  BY DEF Alone, Text
<1>2. x \in Text /\ y \in Text /\ text = x \o one \o y /\ Len(x) = i - 1 /\ Len(y) = N - i
  <2>1. i \in 1 .. N + 1 /\ i \in i - 1 .. N
    BY <1>1
  <2>2. LET p == SubSeq(text, 1, i - 1)
            q == SubSeq(text, i, i)
            r == SubSeq(text, i + 1, N)
        IN  /\ p \in Seq(Atoms) /\ q \in Seq(Atoms) /\ r \in Seq(Atoms)
            /\ text = p \o q \o r
            /\ Len(p) = i - 1 /\ Len(q) = i - i + 1 /\ Len(r) = N - i
    <3>1. text \in Seq(Atoms)
      BY DEF Text
    <3> QED  BY ONLY <2>1, <3>1, InThree, ZenonT(60) DEF N
  <2>3. SubSeq(text, i, i) = one
    BY <1>1, SubSeqOfOne
  <2> HIDE DEF one
  <2> QED  BY <2>2, <2>3 DEF Text
<1>3. EndsBlank(x)
  <2>1. CASE i = 1
    <3>1. x = <<>>
      BY <1>2, <2>1, EmptySeq DEF Text
    <3> QED  BY <3>1 DEF EndsBlank
  <2>2. CASE i # 1
    <3>1. x[i - 1] = text[i - 1]
      BY <1>1, <2>2 DEF Text
    <3> QED  BY <1>1, <1>2, <2>2, <3>1 DEF EndsBlank
  <2> QED  BY <2>1, <2>2
<1>4. BeginsBlank(y)
  <2>1. CASE i = N
    <3>1. y = <<>>
      BY <1>2, <2>1, EmptySeq DEF Text
    <3> QED  BY <3>1 DEF BeginsBlank
  <2>2. CASE i # N
    <3>1. y[1] = text[i + 1]
      BY <1>1, <2>2 DEF Text
    <3> QED  BY <1>1, <2>2, <3>1 DEF BeginsBlank
  <2> QED  BY <2>1, <2>2
<1>5. one \in Words /\ one \in Text
  <2>1. text[i] # Blank
    BY <1>1, LowAtoms
  <2> QED  BY <1>1, <2>1, OneAtom
<1> HIDE DEF x, y, one, N
<1> DEFINE tx == Tokens(x)  ty == Tokens(y)
<1>6. Tokens(one) = <<one>>
  BY <1>5, TokensOfWord
<1>7. x \o one \in Text
  BY <1>2, <1>5, Two
<1>8. Tokens(x \o one) = tx \o <<one>> /\ tx \in Seq(Text) /\ <<one>> \in Seq(Text)
  <2>1. /\ Tokens(x \o one) = Tokens(x) \o Tokens(one)
        /\ Tokens(x) \in Seq(Text) /\ Tokens(one) \in Seq(Text)
    BY <1>2, <1>3, <1>5, TokensBeside
  <2> QED  BY <1>6, <2>1
<1>9. Tokens(text) = tx \o <<one>> \o ty /\ ty \in Seq(Text)
  <2> DEFINE xo == x \o one
  <2>1. xo \in Text /\ Tokens(xo) = tx \o <<one>> /\ text = xo \o y
    BY <1>2, <1>7, <1>8
  <2> HIDE DEF xo, tx
  <2>2. Tokens(xo \o y) = Tokens(xo) \o Tokens(y) /\ Tokens(y) \in Seq(Text)
    BY ONLY <1>2, <1>4, <2>1, TokensBeside
  <2> QED  BY ONLY <2>1, <2>2 DEF ty
<1> HIDE DEF tx, ty
<1>10. ToSet(tx \o <<one>> \o ty) = ToSet(tx) \cup ToSet(<<one>>) \cup ToSet(ty)
  <2> DEFINE l == tx \o <<one>>
  <2>1. l \in Seq(Text) /\ ToSet(l) = ToSet(tx) \cup ToSet(<<one>>)
    BY <1>8, ToSetOfConcat, ZenonT(30)
  <2> HIDE DEF l
  <2>2. ToSet(l \o ty) = ToSet(l) \cup ToSet(ty)
    BY <1>9, <2>1, ToSetOfConcat
  <2> QED  BY <2>1, <2>2 DEF l
<1>11. one \in ToSet(<<one>>)
  <2>1. 1 \in DOMAIN <<one>> /\ <<one>>[1] = one
    OBVIOUS
  <2> QED  BY <2>1 DEF ToSet
<1> QED  BY <1>9, <1>10, <1>11 DEF one

LEMMA OfThree ==
    ASSUME NEW x \in Text, NEW s \in Text, NEW y \in Text, NEW text, text = x \o s \o y
    PROVE  /\ Len(text) = Len(x) + Len(s) + Len(y)
           /\ Len(x) \in Nat /\ Len(y) \in Nat
           /\ \A i \in 1 .. Len(x) : text[i] = x[i]
           /\ \A i \in 1 .. Len(s) : text[Len(x) + i] = s[i]
           /\ \A i \in 1 .. Len(y) : text[Len(x) + Len(s) + i] = y[i]
           /\ x \o s \in Text
<1>1. /\ Len(x \o s \o y) = Len(x) + Len(s) + Len(y)
      /\ Len(x) \in Nat /\ Len(y) \in Nat /\ x \o s \in Text
  BY Three
<1>2. \A i \in 1 .. Len(x) : (x \o s \o y)[i] = x[i]
  BY Three
<1>3. \A i \in 1 .. Len(s) : (x \o s \o y)[Len(x) + i] = s[i]
  BY Three
<1>4. \A i \in 1 .. Len(y) : (x \o s \o y)[Len(x) + Len(s) + i] = y[i]
  BY Three
<1> QED  BY <1>1, <1>2, <1>3, <1>4

LEMMA TokenIsAlone ==
    ASSUME NEW text \in Text, NEW w \in Atoms, IsWord(w), <<w>> \in ToSet(Tokens(text))
    PROVE  \E i \in Alone(text) : text[i] = w
<1> DEFINE one == <<w>>
<1>1. one \in Text /\ Len(one) = 1 /\ one[1] = w
  BY OneAtom
<1>2. Apart(one, text)
  BY TokensAreParts
<1> HIDE DEF one
<1>3. PICK x \in Text, y \in Text :
         text = x \o one \o y /\ EndsBlank(x) /\ BeginsBlank(y)
  BY <1>2 DEF Apart
<1>4. /\ Len(text) = Len(x) + Len(one) + Len(y)
      /\ Len(x) \in Nat /\ Len(y) \in Nat
      /\ \A j \in 1 .. Len(x) : text[j] = x[j]
      /\ \A j \in 1 .. Len(one) : text[Len(x) + j] = one[j]
      /\ \A j \in 1 .. Len(y) : text[Len(x) + Len(one) + j] = y[j]
  <2>1. x \in Text /\ one \in Text /\ y \in Text /\ text = x \o one \o y
    BY <1>1, <1>3
  <2>2. Len(text) = Len(x) + Len(one) + Len(y) /\ Len(x) \in Nat /\ Len(y) \in Nat
    BY ONLY <2>1, OfThree
  <2>3. \A j \in 1 .. Len(x) : text[j] = x[j]
    BY ONLY <2>1, OfThree
  <2>4. \A j \in 1 .. Len(one) : text[Len(x) + j] = one[j]
    BY ONLY <2>1, OfThree
  <2>5. \A j \in 1 .. Len(y) : text[Len(x) + Len(one) + j] = y[j]
    BY ONLY <2>1, OfThree
  <2> QED  BY <2>2, <2>3, <2>4, <2>5
<1> DEFINE i == Len(x) + 1
<1>5. i \in 1 .. Len(text) /\ text[i] = w /\ DOMAIN text = 1 .. Len(text)
  <2>1. 1 \in 1 .. Len(one)
    BY <1>1
  <2> QED  BY <1>1, <1>4, <2>1 DEF Text
<1>6. i = 1 \/ text[i - 1] = Blank
  <2>1. CASE x = <<>>
    BY <2>1
  <2>2. CASE x # <<>>
    <3>1. Len(x) # 0
      BY <2>2, EmptySeq DEF Text
    <3>2. x[Len(x)] = Blank /\ Len(x) \in 1 .. Len(x) /\ i - 1 = Len(x)
      BY <1>3, <1>4, <2>2, <3>1 DEF EndsBlank
    <3> QED  BY <1>4, <3>2
  <2> QED  BY <2>1, <2>2
<1>7. i = Len(text) \/ text[i + 1] = Blank
  <2>1. CASE y = <<>>
    BY <1>1, <1>4, <2>1
  <2>2. CASE y # <<>>
    <3>1. Len(y) # 0
      BY <2>2, EmptySeq DEF Text
    <3>2. y[1] = Blank /\ 1 \in 1 .. Len(y) /\ i + 1 = Len(x) + Len(one) + 1
      BY <1>1, <1>3, <1>4, <2>2, <3>1 DEF BeginsBlank
    <3> QED  BY <1>4, <3>2
  <2> QED  BY <2>1, <2>2
<1> HIDE DEF i
<1> QED  BY <1>5, <1>6, <1>7 DEF Alone

\* A phrase in quotes.
Quoted(phrase) == <<Quote>> \o phrase \o <<Quote>>

LEMMA QuotedIs ==
    ASSUME NEW phrase \in Text
    PROVE  /\ Quoted(phrase) \in Text /\ Len(phrase) \in Nat
           /\ Len(Quoted(phrase)) = Len(phrase) + 2
           /\ Quoted(phrase)[1] = Quote /\ Quoted(phrase)[Len(phrase) + 2] = Quote
           /\ \A i \in 1 .. Len(phrase) : Quoted(phrase)[i + 1] = phrase[i]
<1> DEFINE q == <<Quote>>
<1>1. q \in Text /\ Len(q) = 1 /\ q[1] = Quote
  <2>1. Quote \in Atoms
    BY MarksAssumption DEF Atoms
  <2> QED  BY <2>1, OneAtom
<1> HIDE DEF q
<1>2. q \in Seq(Atoms) /\ phrase \in Seq(Atoms)
  BY <1>1 DEF Text
<1>3. q \o phrase \o q \in Text
      /\ Len(q \o phrase \o q) = Len(phrase) + 2
      /\ (q \o phrase \o q)[1] = Quote /\ (q \o phrase \o q)[Len(phrase) + 2] = Quote
      /\ \A i \in 1 .. Len(phrase) : (q \o phrase \o q)[i + 1] = phrase[i]
  <2> DEFINE all == q \o phrase \o q
  <2>1. /\ all \in Text
        /\ Len(all) = Len(q) + Len(phrase) + Len(q)
        /\ \A j \in 1 .. Len(q) : all[j] = q[j]
        /\ \A j \in 1 .. Len(phrase) : all[Len(q) + j] = phrase[j]
        /\ \A j \in 1 .. Len(q) : all[Len(q) + Len(phrase) + j] = q[j]
    <3>1. phrase \in Text
      OBVIOUS
    <3> QED  BY ONLY <1>1, <3>1, Three, ZenonT(30) DEF all
  <2>2. Len(phrase) \in Nat
    BY <1>2
  <2> HIDE DEF all
  <2>3. Len(all) = Len(phrase) + 2 /\ all[1] = Quote /\ all[Len(phrase) + 2] = Quote
    BY <1>1, <2>1, <2>2
  <2>4. \A i \in 1 .. Len(phrase) : all[i + 1] = phrase[i]
    BY <1>1, <2>1, <2>2
  <2> QED  BY <2>1, <2>3, <2>4 DEF all
<1> QED  BY <1>2, <1>3 DEF Quoted, q, Text

LEMMA ToSetOfThree ==
    ASSUME NEW V, NEW r \in Seq(V), NEW s \in Seq(V), NEW t \in Seq(V)
    PROVE  ToSet(r \o s \o t) = ToSet(r) \cup ToSet(s) \cup ToSet(t)
<1> DEFINE rs == r \o s
<1>1. rs \in Seq(V) /\ ToSet(rs) = ToSet(r) \cup ToSet(s)
  BY ToSetOfConcat
<1> HIDE DEF rs
<1>2. ToSet(rs \o t) = ToSet(rs) \cup ToSet(t)
  BY <1>1, ToSetOfConcat
<1> QED  BY <1>1, <1>2 DEF rs

\* A phrase is taken out with its quotes, from one place, or not at all.
LEMMA TakeOutIs ==
    ASSUME NEW text \in Text, NEW phrase \in Text
    PROVE  \/ TakeOut(text, phrase) = text
           \/ \E x \in Text, y \in Text : /\ text = x \o Quoted(phrase) \o y
                                          /\ TakeOut(text, phrase) = x \o y
<1> DEFINE quoted == Quoted(phrase)
           S == {k \in DOMAIN text : Stands(text, k, quoted)}
           i == IF S = {} THEN 0 ELSE Min(S)
           x == SubSeq(text, 1, i - 1)
           y == SubSeq(text, i + Len(quoted), Len(text))
<1>1. TakeOut(text, phrase) = IF i = 0 THEN text ELSE x \o y
  BY DEF TakeOut, FirstWhere, Quoted
<1>2. quoted \in Text /\ Len(quoted) \in Nat /\ Len(quoted) # 0
  BY QuotedIs
<1> HIDE DEF quoted
<1>3. text \in Seq(Atoms) /\ Len(text) \in Nat /\ S \in SUBSET (1 .. Len(text))
  BY DEF Text
<1>4. CASE i = 0
  BY <1>1, <1>4
<1>5. CASE i # 0
  <2>1. i \in S
    <3>1. S # {} /\ i = Min(S)
      BY <1>5
    <3> HIDE DEF S, i
    <3>2. IsFiniteSet(1 .. Len(text)) /\ S \in SUBSET Int
      BY <1>3, FS_Interval
    <3> QED  BY <1>3, <3>1, <3>2, FS_Subset, Bounds
  <2>2. /\ i \in 1 .. Len(text)
        /\ i + Len(quoted) - 1 <= Len(text)
        /\ SubSeq(text, i, i + Len(quoted) - 1) = quoted
    <3> HIDE DEF i
    <3> QED  BY <1>3, <2>1 DEF Stands
  <2> DEFINE b == i + Len(quoted) - 1
             s == SubSeq(text, i, b)
             z == SubSeq(text, b + 1, Len(text))
  <2>3. /\ x \in Seq(Atoms) /\ s \in Seq(Atoms) /\ z \in Seq(Atoms)
        /\ text = x \o s \o z
    <3> HIDE DEF i
    <3>1. i \in 1 .. Len(text) + 1 /\ b \in i - 1 .. Len(text)
      BY <1>2, <1>3, <2>2
    <3> HIDE DEF b
    <3> QED  BY ONLY <1>3, <3>1, InThree, ZenonT(60)
  <2>4. b + 1 = i + Len(quoted)
    <3> HIDE DEF i
    <3> QED  BY <1>2, <2>2
  <2>5. s = quoted /\ z = y
    BY <2>2, <2>4
  <2> HIDE DEF x, y, s, z, i
  <2>6. text = x \o quoted \o y /\ x \in Text /\ y \in Text
    BY <2>3, <2>5 DEF Text
  <2> QED  BY <1>1, <1>5, <2>6 DEF quoted
<1> QED  BY <1>4, <1>5

\* With a blank beside each quote, what is left has no tokens of its own.
Trimmed(phrase) ==
    phrase # <<>> /\ phrase[1] # Blank /\ phrase[Len(phrase)] # Blank
LEMMA TakeOutKeeps ==
    ASSUME NEW text \in Text, QuotesApart(text), NEW phrase \in Text, Trimmed(phrase)
    PROVE  /\ TakeOut(text, phrase) \in Text /\ QuotesApart(TakeOut(text, phrase))
           /\ ToSet(Tokens(TakeOut(text, phrase))) \subseteq ToSet(Tokens(text))
<1> DEFINE out == TakeOut(text, phrase)  q == Quoted(phrase)  m == Len(phrase)
<1>1. CASE out = text
  BY <1>1
<1>2. ASSUME NEW x \in Text, NEW y \in Text, text = x \o q \o y, out = x \o y
      PROVE  /\ out \in Text /\ QuotesApart(out)
             /\ ToSet(Tokens(out)) \subseteq ToSet(Tokens(text))
  <2> HIDE DEF out
  <2> DEFINE n == Len(x)
  <2> HIDE DEF m, n
  <2>1. /\ q \in Text /\ m \in Nat /\ Len(q) = m + 2 /\ q[1] = Quote /\ q[m + 2] = Quote
        /\ \A i \in 1 .. m : q[i + 1] = phrase[i]
    BY QuotedIs DEF m
  <2> HIDE DEF q
  <2>2. m # 0 /\ phrase[1] # Blank /\ phrase[m] # Blank
    <3>1. phrase # <<>> /\ phrase[1] # Blank /\ phrase[m] # Blank
      BY DEF Trimmed, m
    <3> QED  BY <3>1, EmptySeq DEF Text, m
  <2>3. /\ Len(text) = n + Len(q) + Len(y) /\ n \in Nat /\ Len(y) \in Nat
        /\ \A i \in 1 .. n : text[i] = x[i]
        /\ \A i \in 1 .. Len(q) : text[n + i] = q[i]
        /\ \A i \in 1 .. Len(y) : text[n + Len(q) + i] = y[i]
        /\ x \o q \in Text
    <3>1. /\ Len(text) = Len(x) + Len(q) + Len(y)
          /\ Len(x) \in Nat /\ Len(y) \in Nat
          /\ \A i \in 1 .. Len(x) : text[i] = x[i]
          /\ \A i \in 1 .. Len(q) : text[Len(x) + i] = q[i]
          /\ \A i \in 1 .. Len(y) : text[Len(x) + Len(q) + i] = y[i]
          /\ x \o q \in Text
      <4>1. x \in Text /\ q \in Text /\ y \in Text /\ text = x \o q \o y
        BY <1>2, <2>1
      <4>2. /\ Len(text) = Len(x) + Len(q) + Len(y)
            /\ Len(x) \in Nat /\ Len(y) \in Nat
        BY ONLY <4>1, OfThree
      <4>6. x \o q \in Text
        BY ONLY <4>1, Two
      <4>3. \A i \in 1 .. Len(x) : text[i] = x[i]
        BY ONLY <4>1, OfThree
      <4>4. \A i \in 1 .. Len(q) : text[Len(x) + i] = q[i]
        BY ONLY <4>1, OfThree
      <4>5. \A i \in 1 .. Len(y) : text[Len(x) + Len(q) + i] = y[i]
        BY ONLY <4>1, OfThree
      <4> QED  BY <4>2, <4>3, <4>4, <4>5, <4>6
    <3> QED  BY <3>1 DEF n
  <2>4. EndsBlank(x)
    <3>1. CASE n = 0
      <4>1. x = <<>>
        BY <3>1, EmptySeq DEF Text, n
      <4> QED  BY <4>1 DEF EndsBlank
    <3>2. CASE n # 0
      <4> DEFINE i == n + 1
      <4>1. i \in 2 .. Len(text) - 1 /\ i - 1 = n /\ i + 1 = n + 2 /\ n \in 1 .. n
            /\ 1 \in 1 .. Len(q) /\ 2 \in 1 .. Len(q) /\ 1 \in 1 .. m
        BY <2>1, <2>2, <2>3, <3>2
      <4>2. text[i] = Quote /\ text[i - 1] = x[n] /\ text[i + 1] = phrase[1]
        <5>1. text[n + 1] = Quote /\ text[n] = x[n] /\ text[n + 2] = q[2]
          BY <2>1, <2>3, <4>1
        <5>2. q[1 + 1] = phrase[1] /\ 1 + 1 = 2
          BY <2>1, <4>1
        <5> QED  BY <4>1, <5>1, <5>2
      <4> HIDE DEF i
      <4>3. Blank \in {text[i - 1], text[i + 1]}
        BY <4>1, <4>2 DEF QuotesApart
      <4>4. x[n] = Blank
        BY <2>2, <4>2, <4>3
      <4> QED  BY <4>4 DEF EndsBlank, n
    <3> QED  BY <3>1, <3>2
  <2>5. BeginsBlank(y)
    <3>1. CASE Len(y) = 0
      <4>1. y = <<>>
        BY <3>1, EmptySeq DEF Text
      <4> QED  BY <4>1 DEF BeginsBlank
    <3>2. CASE Len(y) # 0
      <4> DEFINE i == n + (m + 2)
      <4>1. i \in 2 .. Len(text) - 1 /\ i - 1 = n + (m + 1) /\ i + 1 = n + Len(q) + 1
            /\ m + 2 \in 1 .. Len(q) /\ m + 1 \in 1 .. Len(q) /\ m \in 1 .. m
            /\ 1 \in 1 .. Len(y)
        BY <2>1, <2>2, <2>3, <3>2
      <4>2. text[i] = Quote /\ text[i - 1] = phrase[m] /\ text[i + 1] = y[1]
        <5>1. text[n + (m + 2)] = Quote /\ text[n + (m + 1)] = q[m + 1]
              /\ text[n + Len(q) + 1] = y[1]
          BY <2>1, <2>3, <4>1
        <5>2. q[m + 1] = phrase[m]
          BY <2>1, <4>1
        <5> QED  BY <4>1, <5>1, <5>2
      <4> HIDE DEF i
      <4>3. Blank \in {text[i - 1], text[i + 1]}
        BY <4>1, <4>2 DEF QuotesApart
      <4>4. y[1] = Blank
        BY <2>2, <4>2, <4>3
      <4> QED  BY <4>4 DEF BeginsBlank
    <3> QED  BY <3>1, <3>2
  <2> DEFINE tx == Tokens(x)  ty == Tokens(y)  tq == Tokens(q)
  <2>6. out \in Text /\ Tokens(out) = tx \o ty /\ tx \in Seq(Text) /\ ty \in Seq(Text)
    <3>1. x \o y \in Text
      BY Two
    <3> QED  BY <1>2, <2>4, <3>1, TokensBeside
  <2>7. Tokens(x \o q) = tx \o tq /\ tq \in Seq(Text)
    BY <2>1, <2>4, TokensBeside
  <2>8. Tokens(text) = tx \o tq \o ty
    <3> DEFINE xq == x \o q
    <3>1. xq \in Text /\ text = xq \o y /\ Tokens(xq) = tx \o tq
      BY <1>2, <2>3, <2>7
    <3> HIDE DEF xq
    <3>2. Tokens(xq \o y) = Tokens(xq) \o ty
      BY <2>5, <3>1, TokensBeside
    <3> QED  BY <3>1, <3>2
  <2> HIDE DEF tx, ty, tq
  <2>9. /\ ToSet(Tokens(out)) = ToSet(tx) \cup ToSet(ty)
        /\ ToSet(Tokens(text)) = ToSet(tx) \cup ToSet(tq) \cup ToSet(ty)
    <3>1. ToSet(tx \o ty) = ToSet(tx) \cup ToSet(ty)
      BY <2>6, ToSetOfConcat
    <3>2. ToSet(tx \o tq \o ty) = ToSet(tx) \cup ToSet(tq) \cup ToSet(ty)
      BY <2>6, <2>7, ToSetOfThree
    <3> QED  BY <2>6, <2>8, <3>1, <3>2
  <2>10. QuotesApart(out)
    <3>1. \A t \in ToSet(Tokens(text)) : QuotesApart(t)
      BY ApartByTokens
    <3>2. \A t \in ToSet(Tokens(out)) : QuotesApart(t)
      BY <2>9, <3>1
    <3> QED  BY <2>6, <3>2, ApartByTokens
  <2> QED  BY <2>6, <2>9, <2>10
<1> QED
  <2> HIDE DEF out, m
  <2> USE DEF q
  <2>1. CASE out = text
    BY <1>1, <2>1 DEF out, m
  <2>2. CASE out # text
    <3>1. PICK x \in Text, y \in Text : text = x \o q \o y /\ out = x \o y
      BY <2>2, TakeOutIs DEF out
    <3> QED  BY <1>2, <3>1 DEF out, m
  <2> QED  BY <2>1, <2>2

\* A word that stands alone stays alone, unless it is taken out.
LEMMA TakeOutLeaves ==
    ASSUME NEW text \in Text, NEW phrase \in Text, NEW i \in Alone(text)
    PROVE  \/ \E j \in Alone(TakeOut(text, phrase)) : TakeOut(text, phrase)[j] = text[i]
           \/ \E k \in 1 .. Len(phrase) : phrase[k] = text[i]
<1> DEFINE out == TakeOut(text, phrase)  q == Quoted(phrase)  m == Len(phrase)
<1>1. CASE out = text
  BY <1>1
<1>2. CASE out # text
  <2>1. PICK x \in Text, y \in Text : text = x \o q \o y /\ out = x \o y
    BY <1>2, TakeOutIs
  <2> HIDE DEF out
  <2> DEFINE n == Len(x)
  <2> HIDE DEF m, n
  <2>2. /\ q \in Text /\ m \in Nat /\ Len(q) = m + 2 /\ q[1] = Quote /\ q[m + 2] = Quote
        /\ \A j \in 1 .. m : q[j + 1] = phrase[j]
    BY QuotedIs DEF m
  <2> HIDE DEF q
  <2>3. /\ Len(text) = n + Len(q) + Len(y) /\ n \in Nat /\ Len(y) \in Nat
        /\ \A j \in 1 .. n : text[j] = x[j]
        /\ \A j \in 1 .. Len(q) : text[n + j] = q[j]
        /\ \A j \in 1 .. Len(y) : text[n + Len(q) + j] = y[j]
    <3>1. x \in Text /\ q \in Text /\ y \in Text /\ text = x \o q \o y
      BY <2>1, <2>2
    <3>2. Len(text) = Len(x) + Len(q) + Len(y) /\ Len(x) \in Nat /\ Len(y) \in Nat
      BY ONLY <3>1, OfThree
    <3>3. \A j \in 1 .. Len(x) : text[j] = x[j]
      BY ONLY <3>1, OfThree
    <3>4. \A j \in 1 .. Len(q) : text[Len(x) + j] = q[j]
      BY ONLY <3>1, OfThree
    <3>5. \A j \in 1 .. Len(y) : text[Len(x) + Len(q) + j] = y[j]
      BY ONLY <3>1, OfThree
    <3> QED  BY <3>2, <3>3, <3>4, <3>5 DEF n
  <2>4. /\ out \in Text /\ Len(out) = n + Len(y) /\ DOMAIN out = 1 .. n + Len(y)
        /\ \A j \in 1 .. n : out[j] = x[j]
        /\ \A j \in 1 .. Len(y) : out[n + j] = y[j]
    <3> DEFINE xy == x \o y
    <3>1. /\ xy \in Text /\ Len(xy) = Len(x) + Len(y)
          /\ \A j \in 1 .. Len(x) : xy[j] = x[j]
          /\ \A j \in 1 .. Len(y) : xy[Len(x) + j] = y[j]
      BY Two
    <3> HIDE DEF xy
    <3>2. DOMAIN xy = 1 .. Len(xy)
      BY <3>1 DEF Text
    <3> QED  BY <2>1, <3>1, <3>2 DEF n, xy
  <2>5. /\ i \in 1 .. Len(text) /\ IsWord(text[i])
        /\ i = 1 \/ text[i - 1] = Blank
        /\ i = Len(text) \/ text[i + 1] = Blank
    BY DEF Alone, Text
  <2>6. Quote # Blank /\ ~IsWord(Quote)
    BY LowAtoms
  <2>7. CASE i <= n
    <3>1. i \in 1 .. n /\ i \in 1 .. Len(out) /\ out[i] = text[i]
      BY <2>3, <2>4, <2>5, <2>7
    <3>2. i # n
      <4>1. text[n + 1] = Quote
        <5>1. 1 \in 1 .. Len(q)
          BY <2>2
        <5> QED  BY <2>2, <2>3, <5>1
      <4>2. n # Len(text)
        BY <2>2, <2>3
      <4> QED  BY <2>5, <2>6, <4>1, <4>2
    <3>3. i = 1 \/ out[i - 1] = Blank
      <4>1. CASE i # 1
        <5>1. i - 1 \in 1 .. n
          BY <2>3, <3>1, <4>1
        <5> QED  BY <2>3, <2>4, <2>5, <4>1, <5>1
      <4> QED  BY <4>1
    <3>4. out[i + 1] = Blank
      <4>1. i + 1 \in 1 .. n /\ i # Len(text)
        BY <2>2, <2>3, <3>1, <3>2
      <4> QED  BY <2>3, <2>4, <2>5, <4>1
    <3>5. i \in Alone(out)
      BY <2>4, <2>5, <3>1, <3>3, <3>4 DEF Alone
    <3> QED  BY <3>1, <3>5 DEF out
  <2>8. CASE i > n /\ i <= n + Len(q)
    <3> DEFINE j == i - n
    <3>1. j \in 1 .. m + 2 /\ q[j] = text[i]
      <4>1. j \in 1 .. Len(q) /\ n + j = i
        BY <2>2, <2>3, <2>5, <2>8
      <4> QED  BY <2>2, <2>3, <4>1
    <3> HIDE DEF j
    <3>2. j # 1 /\ j # m + 2
      BY <2>2, <2>5, <2>6, <3>1
    <3>3. j - 1 \in 1 .. m /\ (j - 1) + 1 = j
      BY <2>2, <3>1, <3>2
    <3>4. phrase[j - 1] = text[i]
      BY <2>2, <3>1, <3>3
    <3> QED  BY <3>3, <3>4 DEF m
  <2>9. CASE i > n + Len(q)
    <3> DEFINE j == i - n - Len(q)
    <3>1. j \in 1 .. Len(y) /\ n + Len(q) + j = i
      BY <2>2, <2>3, <2>5, <2>9
    <3> HIDE DEF j
    <3>2. y[j] = text[i]
      BY <2>3, <3>1
    <3> DEFINE l == n + j
    <3>3. l \in 1 .. Len(out) /\ out[l] = text[i] /\ l >= 1
      BY <2>3, <2>4, <3>1, <3>2
    <3>4. j # 1
      <4>1. text[n + Len(q)] = Quote
        <5>1. m + 2 \in 1 .. Len(q) /\ m + 2 = Len(q)
          BY <2>2
        <5> QED  BY <2>2, <2>3, <5>1
      <4>2. i # 1
        BY <2>2, <2>3, <2>9
      <4>3. j = 1 => i - 1 = n + Len(q)
        BY <2>2, <2>3, <3>1
      <4> QED  BY <2>5, <2>6, <4>1, <4>2, <4>3
    <3>5. out[l - 1] = Blank
      <4>1. j - 1 \in 1 .. Len(y) /\ l - 1 = n + (j - 1) /\ i - 1 = n + Len(q) + (j - 1)
            /\ i # 1
        BY <2>2, <2>3, <3>1, <3>4
      <4>2. text[i - 1] = Blank
        BY <2>5, <4>1
      <4>3. text[n + Len(q) + (j - 1)] = y[j - 1] /\ out[n + (j - 1)] = y[j - 1]
        BY <2>3, <2>4, <4>1
      <4> HIDE DEF l
      <4> QED  BY <4>1, <4>2, <4>3
    <3>6. l = Len(out) \/ out[l + 1] = Blank
      <4>1. CASE j # Len(y)
        <5>1. j + 1 \in 1 .. Len(y) /\ l + 1 = n + (j + 1) /\ i + 1 = n + Len(q) + (j + 1)
              /\ i # Len(text)
          BY <2>2, <2>3, <3>1, <4>1
        <5>2. text[i + 1] = Blank
          BY <2>5, <5>1
        <5>3. text[n + Len(q) + (j + 1)] = y[j + 1] /\ out[n + (j + 1)] = y[j + 1]
          BY <2>3, <2>4, <5>1
        <5> HIDE DEF l
        <5> QED  BY <5>1, <5>2, <5>3
      <4>2. CASE j = Len(y)
        BY <2>4, <4>2
      <4> QED  BY <4>1, <4>2
    <3> HIDE DEF l
    <3>7. l \in Alone(out)
      BY <2>4, <2>5, <3>3, <3>5, <3>6 DEF Alone
    <3> QED  BY <3>3, <3>7 DEF out
  <2> QED  BY <2>2, <2>3, <2>5, <2>7, <2>8, <2>9
<1> QED  BY <1>1, <1>2

\* What is left of a text when phrases are taken out of it.
Left(text, phrases) ==
    {l \in Text : /\ QuotesApart(text) =>
                         /\ QuotesApart(l)
                         /\ ToSet(Tokens(l)) \subseteq ToSet(Tokens(text))
                  /\ \A i \in Alone(text) :
                         \/ \E j \in Alone(l) : l[j] = text[i]
                         \/ \E p \in ToSet(phrases) : \E k \in 1 .. Len(p) : p[k] = text[i]}

LEMMA LeftStays ==
    ASSUME NEW text, NEW phrases \in Seq(Text), \A p \in ToSet(phrases) : Trimmed(p),
           NEW l \in Left(text, phrases), NEW n \in 1 .. Len(phrases)
    PROVE  TakeOut(l, phrases[n]) \in Left(text, phrases)
<1> DEFINE p == phrases[n]  out == TakeOut(l, p)
<1>1. p \in Text /\ p \in ToSet(phrases) /\ Trimmed(p)
  <2>1. n \in DOMAIN phrases
    OBVIOUS
  <2>2. p \in ToSet(phrases)
    BY <2>1 DEF ToSet
  <2> QED  BY <2>1, <2>2, ElementOfSeq
<1>2. /\ l \in Text
      /\ QuotesApart(text) => QuotesApart(l) /\ ToSet(Tokens(l)) \subseteq ToSet(Tokens(text))
      /\ \A i \in Alone(text) :
             \/ \E j \in Alone(l) : l[j] = text[i]
             \/ \E r \in ToSet(phrases) : \E k \in 1 .. Len(r) : r[k] = text[i]
  BY DEF Left
<1> HIDE DEF p
<1>3. /\ out \in Text
      /\ QuotesApart(l) => QuotesApart(out) /\ ToSet(Tokens(out)) \subseteq ToSet(Tokens(l))
  <2>1. out \in Text
    <3>1. CASE out = l
      BY <1>2, <3>1
    <3>2. CASE out # l
      <4>3. l \in Text /\ p \in Text
        BY <1>1, <1>2
      <4>4. \/ TakeOut(l, p) = l
            \/ \E x \in Text, y \in Text : /\ l = x \o Quoted(p) \o y
                                           /\ TakeOut(l, p) = x \o y
        BY ONLY <4>3, TakeOutIs
      <4>1. PICK x \in Text, y \in Text : out = x \o y
        BY <3>2, <4>4
      <4>2. x \o y \in Text
        BY Two
      <4> HIDE DEF out
      <4> QED  BY <4>1, <4>2
    <3> QED  BY <3>1, <3>2
  <2>2. QuotesApart(l) => QuotesApart(out) /\ ToSet(Tokens(out)) \subseteq ToSet(Tokens(l))
    BY <1>1, <1>2, TakeOutKeeps
  <2> QED  BY <2>1, <2>2
<1>4. \A j \in Alone(l) : \/ \E i \in Alone(out) : out[i] = l[j]
                          \/ \E k \in 1 .. Len(p) : p[k] = l[j]
  BY <1>1, <1>2, TakeOutLeaves
<1> HIDE DEF out
<1>5. ASSUME NEW i \in Alone(text)
      PROVE  \/ \E j \in Alone(out) : out[j] = text[i]
             \/ \E r \in ToSet(phrases) : \E k \in 1 .. Len(r) : r[k] = text[i]
  <2>1. CASE \E j \in Alone(l) : l[j] = text[i]
    <3>1. PICK j \in Alone(l) : l[j] = text[i]
      BY <2>1
    <3> QED  BY <1>1, <1>4, <3>1
  <2>2. CASE \E r \in ToSet(phrases) : \E k \in 1 .. Len(r) : r[k] = text[i]
    BY <2>2
  <2> QED  BY <1>2, <2>1, <2>2
<1>6. out \in Left(text, phrases)
  BY <1>2, <1>3, <1>5 DEF Left
<1> QED  BY <1>6 DEF out, p

LEMMA RemainingKeeps ==
    ASSUME NEW text \in Text, NEW phrases \in Seq(Text),
           \A p \in ToSet(phrases) : Trimmed(p)
    PROVE  Remaining(text, phrases) \in Left(text, phrases)
<1> DEFINE N == Len(phrases)  T == Left(text, phrases)
           step == [p \in T \X (1 .. N) |-> TakeOut(p[1], phrases[p[2]])]
           Each(f) == [n \in 0 .. N |-> IF n = 0 THEN text ELSE TakeOut(f[n - 1], phrases[n])]
<1>1. N \in Nat /\ text \in T
  BY DEF Left
<1>2. \A l \in T, n \in 1 .. N : TakeOut(l, phrases[n]) \in T
  BY LeftStays
<1> HIDE DEF N, T
<1>3. \E f : f = Each(f)
  <2>1. PICK f : Steps(f, N, text, step)
    BY <1>1, Recursion
  <2>2. /\ f = [n \in 0 .. N |-> f[n]]
        /\ f[0] = text
        /\ \A n \in 1 .. N : f[n] = step[<<f[n - 1], n>>]
    <3> HIDE DEF step
    <3> QED  BY <2>1 DEF Steps
  <2> DEFINE S == {n \in 0 .. N : f[n] \in T}
  <2>3. \A n \in 1 .. N : f[n - 1] \in T =>
                              f[n] = TakeOut(f[n - 1], phrases[n]) /\ f[n] \in T
    <3> TAKE n \in 1 .. N
    <3> HAVE f[n - 1] \in T
    <3>1. f[n] = TakeOut(f[n - 1], phrases[n])
      BY <2>2
    <3> QED  BY <1>2, <3>1
  <2> HIDE DEF step
  <2>4. \A n \in 0 .. N : f[n] \in T
    <3>1. 0 \in S
      BY <1>1, <2>2
    <3>2. \A n \in 1 .. N : n - 1 \in S => n \in S
      BY <1>1, <2>3
    <3>3. \A n \in 0 .. N : n \in S
      <4> HIDE DEF S
      <4> QED  BY <1>1, <3>1, <3>2, Upward
    <3> QED  BY <3>3
  <2>5. ASSUME NEW n \in 0 .. N PROVE f[n] = Each(f)[n]
    <3>1. CASE n = 0
      BY <2>2, <3>1
    <3>2. CASE n # 0
      <4>1. n \in 1 .. N /\ n - 1 \in 0 .. N
        BY <1>1, <3>2
      <4>2. f[n] = TakeOut(f[n - 1], phrases[n])
        BY <2>3, <2>4, <4>1
      <4> QED  BY <3>2, <4>2
    <3> QED  BY <3>1, <3>2
  <2>6. f = Each(f)
    <3>1. Each(f) = [n \in 0 .. N |-> Each(f)[n]]
      OBVIOUS
    <3> HIDE DEF Each
    <3> QED  BY <2>2, <2>5, <3>1
  <2> QED  BY <2>6
<1> DEFINE left == CHOOSE f : f = Each(f)
<1>4. left = Each(left)
  <2> HIDE DEF Each
  <2> QED  BY <1>3
<1>5. Remaining(text, phrases) = left[N]
  BY DEF Remaining, N
<1> HIDE DEF left
<1>6. left[0] = text
  <2>1. Each(left)[0] = text
    BY <1>1
  <2> HIDE DEF Each
  <2> QED  BY <1>4, <2>1
<1>7. ASSUME NEW n \in 1 .. N PROVE left[n] = TakeOut(left[n - 1], phrases[n])
  <2>1. n \in 0 .. N /\ n # 0
    BY <1>1
  <2>2. Each(left)[n] = TakeOut(left[n - 1], phrases[n])
    BY <2>1
  <2> HIDE DEF Each
  <2> QED  BY <1>4, <2>2
<1> DEFINE S == {n \in 0 .. N : left[n] \in T}
<1>8. 0 \in S
  BY <1>1, <1>6
<1>9. \A n \in 1 .. N : n - 1 \in S => n \in S
  BY <1>1, <1>2, <1>7
<1>10. \A n \in 0 .. N : n \in S
  <2> HIDE DEF S
  <2> QED  BY <1>1, <1>8, <1>9, Upward
<1>11. left[N] \in T
  BY <1>1, <1>10
<1> QED  BY <1>5, <1>11 DEF T

\* What Trim makes of a text is nothing or the part without blanks around it.
LEMMA TrimIs ==
    ASSUME NEW text \in Text
    PROVE  /\ Trim(text) \in Text /\ IsPart(Trim(text), text)
           /\ Trim(text) # <<>> => Trimmed(Trim(text)) /\ Solid(Trim(text))
           /\ Solid(text) => Trim(text) # <<>>
<1> DEFINE in == {i \in DOMAIN text : text[i] # Blank}
           a == Min(in)  b == Max(in)  s == SubSeq(text, a, b)
<1>1. Trim(text) = IF in = {} THEN <<>> ELSE s
  BY DEF Trim
<1>2. /\ text \in Seq(Atoms) /\ Len(text) \in Nat /\ in \in SUBSET (1 .. Len(text))
      /\ DOMAIN text = 1 .. Len(text)
  BY DEF Text
<1>3. Solid(text) <=> in # {}
  BY DEF Solid
<1>4. CASE in = {}
  <2>1. Trim(text) = <<>>
    BY <1>1, <1>4
  <2> QED  BY <1>3, <1>4, <2>1, EmptyPart, EmptyReading
<1>5. CASE in # {}
  <2>1. a \in in /\ b \in in /\ a <= b
    <3>1. IsFiniteSet(1 .. Len(text))
      BY <1>2, FS_Interval
    <3>2. IsFiniteSet(in) /\ in \in SUBSET Int
      BY <1>2, <3>1, FS_Subset
    <3> HIDE DEF in
    <3>3. a \in in /\ b \in in /\ \A i \in in : a <= i /\ i <= b
      BY <1>5, <3>2, Bounds
    <3> QED  BY <3>3
  <2>2. a \in 1 .. Len(text) /\ b \in a .. Len(text) /\ text[a] # Blank /\ text[b] # Blank
    <3>1. a \in 1 .. Len(text) /\ b \in 1 .. Len(text)
      BY <1>2, <2>1
    <3>2. text[a] # Blank /\ text[b] # Blank
      BY <2>1
    <3> HIDE DEF a, b
    <3> QED  BY <2>1, <3>1, <3>2
  <2> HIDE DEF a, b, in
  <2> DEFINE x == SubSeq(text, 1, a - 1)  y == SubSeq(text, b + 1, Len(text))
  <2>3. /\ x \in Seq(Atoms) /\ s \in Seq(Atoms) /\ y \in Seq(Atoms)
        /\ text = x \o s \o y /\ Len(s) = b - a + 1
    <3>1. a \in 1 .. Len(text) + 1 /\ b \in a - 1 .. Len(text)
      BY <1>2, <2>2
    <3> QED  BY ONLY <1>2, <3>1, InThree, ZenonT(60)
  <2>4. s[1] = text[a] /\ s[Len(s)] = text[b]
    <3>1. \A j \in 1 .. b - a + 1 : s[j] = text[a + j - 1]
      BY <1>2, <2>2
    <3>2. 1 \in 1 .. b - a + 1 /\ b - a + 1 \in 1 .. b - a + 1 /\ a + 1 - 1 = a
          /\ a + (b - a + 1) - 1 = b
      BY <2>2
    <3> HIDE DEF s
    <3> QED  BY <2>3, <3>1, <3>2
  <2> HIDE DEF s, x, y
  <2>5. s # <<>> /\ 1 \in DOMAIN s
    <3>1. Len(s) # 0 /\ Len(s) \in Nat
      BY <2>2, <2>3
    <3> QED  BY <2>3, <3>1
  <2>6. Trimmed(s) /\ Solid(s)
    BY <2>2, <2>4, <2>5 DEF Trimmed, Solid
  <2>7. IsPart(s, text) /\ s \in Text
    BY <2>3 DEF IsPart, Text
  <2> QED  BY <1>1, <1>5, <2>5, <2>6, <2>7
<1> QED  BY <1>4, <1>5

LEMMA SubSeqIsPart ==
    ASSUME NEW text \in Text, NEW a \in 1 .. Len(text) + 1, NEW b \in 0 .. Len(text)
    PROVE  IsPart(SubSeq(text, a, b), text)
<1> DEFINE s == SubSeq(text, a, b)
<1>1. text \in Seq(Atoms) /\ Len(text) \in Nat
  BY DEF Text
<1>2. CASE b < a - 1
  <2>1. s = <<>>
    BY <1>1, <1>2
  <2> QED  BY <2>1, EmptyPart
<1>3. CASE ~(b < a - 1)
  <2> DEFINE x == SubSeq(text, 1, a - 1)  y == SubSeq(text, b + 1, Len(text))
  <2>1. /\ x \in Seq(Atoms) /\ s \in Seq(Atoms) /\ y \in Seq(Atoms)
        /\ text = x \o s \o y
    <3>1. a \in 1 .. Len(text) + 1 /\ b \in a - 1 .. Len(text)
      BY <1>1, <1>3
    <3> QED  BY ONLY <1>1, <3>1, InThree
  <2> HIDE DEF x, y, s
  <2> QED  BY <2>1 DEF IsPart, Text, s
<1> QED  BY <1>2, <1>3

\* A phrase is a part of the text, with no blanks around it.
LEMMA PhrasesOfText ==
    ASSUME NEW text \in Text
    PROVE  /\ ExtractPhrases(text) \in Seq(Text)
           /\ \A p \in ToSet(ExtractPhrases(text)) :
                  p \in Text /\ IsPart(p, text) /\ Trimmed(p) /\ Solid(p)
<1> DEFINE N == Len(text)
           places == [i \in DOMAIN text |-> i]
           quoted == {i \in DOMAIN text : text[i] = Quote}
           quotes == Chosen(places, quoted)
           M == Len(quotes) \div 2
           inner == [k \in 1 .. M |->
                        Trim(SubSeq(text, quotes[2 * k - 1] + 1, quotes[2 * k] - 1))]
           kept == {k \in DOMAIN inner : inner[k] # <<>>}
           all == ExtractPhrases(text)
<1>1. all = Chosen(inner, kept)
  BY DEF ExtractPhrases
<1>2. N \in Nat /\ DOMAIN text = 1 .. N
  BY DEF Text
<1> HIDE DEF N, all
<1>3. quotes \in Seq(1 .. N)
  <2>1. places \in [1 .. N -> 1 .. N] /\ quoted \in SUBSET (1 .. N)
    BY <1>2
  <2> HIDE DEF places, quoted
  <2>2. places \in Seq(1 .. N) /\ DOMAIN places = 1 .. N
    BY <1>2, <2>1, FunctionIsList
  <2> QED  BY <2>1, <2>2, ChosenKeeps
<1> HIDE DEF quotes
<1>4. M \in Nat /\ 2 * M <= Len(quotes) /\ Len(quotes) \in Nat
  BY <1>3
<1> HIDE DEF M
<1>5. ASSUME NEW k \in 1 .. M
      PROVE  /\ inner[k] \in Text /\ IsPart(inner[k], text)
             /\ inner[k] # <<>> => Trimmed(inner[k]) /\ Solid(inner[k])
  <2> DEFINE s == SubSeq(text, quotes[2 * k - 1] + 1, quotes[2 * k] - 1)
  <2>1. quotes[2 * k - 1] \in 1 .. N /\ quotes[2 * k] \in 1 .. N
    <3>1. 2 * k - 1 \in 1 .. Len(quotes) /\ 2 * k \in 1 .. Len(quotes)
      BY <1>4
    <3> QED  BY <1>3, <3>1, ElementOfSeq
  <2>2. IsPart(s, text)
    <3> DEFINE a == quotes[2 * k - 1] + 1  b == quotes[2 * k] - 1
    <3>1. a \in 1 .. Len(text) + 1 /\ b \in 0 .. Len(text)
      BY <1>2, <2>1 DEF N
    <3> HIDE DEF a, b
    <3>2. IsPart(SubSeq(text, a, b), text)
      BY <3>1, SubSeqIsPart
    <3> QED  BY <3>2 DEF a, b
  <2>3. inner[k] = Trim(s)
    OBVIOUS
  <2> HIDE DEF s, inner
  <2>4. s \in Text
    BY <2>2 DEF IsPart
  <2>5. /\ Trim(s) \in Text /\ IsPart(Trim(s), s)
        /\ Trim(s) # <<>> => Trimmed(Trim(s)) /\ Solid(Trim(s))
    BY <2>4, TrimIs
  <2>6. IsPart(Trim(s), text)
    BY <2>2, <2>5, PartOfPart
  <2> QED  BY <2>3, <2>5, <2>6
<1>6. inner \in Seq(Text) /\ DOMAIN inner = 1 .. M
  <2>1. inner = [k \in 1 .. M |-> inner[k]]
    OBVIOUS
  <2> HIDE DEF inner
  <2>2. inner \in [1 .. M -> Text]
    BY <1>5, <2>1
  <2> QED  BY <1>4, <2>2, FunctionIsList
<1>7. all \in Seq(Text) /\ ToSet(all) = {inner[k] : k \in kept}
  <2>1. kept \in SUBSET DOMAIN inner
    OBVIOUS
  <2> HIDE DEF kept, inner
  <2> QED  BY <1>1, <1>6, <2>1, ChosenKeeps
<1>8. \A p \in ToSet(all) : p \in Text /\ IsPart(p, text) /\ Trimmed(p) /\ Solid(p)
  <2>1. \A k \in kept : k \in 1 .. M /\ inner[k] # <<>>
    OBVIOUS
  <2> HIDE DEF kept, inner
  <2> QED  BY <1>5, <1>7, <2>1
<1> QED  BY <1>7, <1>8 DEF all

LEMMA OnlyMember ==
    ASSUME NEW V, NEW s \in Seq(V), s # <<>>, ~(Len(s) > 1)
    PROVE  ToSet(s) = {s[1]}
<1>1. Len(s) = 1
  <2>1. Len(s) # 0 /\ Len(s) \in Nat
    BY EmptySeq
  <2> QED  BY <2>1
<1>2. DOMAIN s = {1}
  BY <1>1
<1> QED  BY <1>2 DEF ToSet

\* The clauses of a query without operators: one for each term and each phrase
\* in each field, which are all the clauses when there is one.
LEMMA ClausesAre ==
    ASSUME NEW V, NEW fields \in Seq(V), fields # <<>>, NEW text, NEW W,
           ExtractPhrases(text) \in Seq(W),
           Tokens(Remaining(Normalize(text), ExtractPhrases(text))) \in Seq(W)
    PROVE  ParseRegular(text, fields).clauses =
               {TermQuery(f, t) : f \in ToSet(fields),
                    t \in ToSet(Tokens(Remaining(Normalize(text), ExtractPhrases(text))))}
               \cup {PhraseQuery(f, p) : f \in ToSet(fields), p \in ToSet(ExtractPhrases(text))}
<1> DEFINE phrases == ExtractPhrases(text)
           terms == Tokens(Remaining(Normalize(text), phrases))
           all == {TermQuery(f, t) : f \in ToSet(fields), t \in ToSet(terms)}
                  \cup {PhraseQuery(f, p) : f \in ToSet(fields), p \in ToSet(phrases)}
           many == Len(terms) > 1 \/ phrases # <<>> \/ Len(fields) > 1
<1>1. ParseRegular(text, fields)
          = IF many THEN Or(all)
            ELSE IF terms # <<>> THEN Single(TermQuery(fields[1], terms[1]))
            ELSE Or({})
  BY DEF ParseRegular
<1>2. /\ phrases \in Seq(W) /\ terms \in Seq(W)
      /\ Len(terms) \in Nat /\ Len(fields) \in Nat
  OBVIOUS
<1> HIDE DEF phrases, terms
<1>3. CASE many
  <2>1. Or(all).clauses = all
    BY DEF Or
  <2> QED  BY <1>1, <1>3, <2>1 DEF phrases, terms
<1>4. CASE ~many
  <2>1. ToSet(phrases) = {}
    BY <1>4 DEF ToSet
  <2>2. ToSet(fields) = {fields[1]}
    BY <1>2, <1>4, OnlyMember
  <2>3. CASE terms # <<>>
    <3>1. ToSet(terms) = {terms[1]}
      BY <1>2, <1>4, <2>3, OnlyMember
    <3>2. all = {TermQuery(fields[1], terms[1])}
      BY <2>1, <2>2, <3>1
    <3>3. Single(TermQuery(fields[1], terms[1])).clauses = {TermQuery(fields[1], terms[1])}
      BY DEF Single
    <3> HIDE DEF many, all
    <3>4. ParseRegular(text, fields).clauses = all
      BY <1>1, <1>4, <2>3, <3>2, <3>3
    <3> QED  BY <3>4 DEF phrases, terms, all
  <2>4. CASE terms = <<>>
    <3>1. ToSet(terms) = {}
      BY <2>4 DEF ToSet
    <3>2. all = {}
      BY <2>1, <3>1
    <3>3. Or({}).clauses = {}
      BY DEF Or
    <3> HIDE DEF many, all
    <3>4. ParseRegular(text, fields).clauses = all
      BY <1>1, <1>4, <2>4, <3>2, <3>3
    <3> QED  BY <3>4 DEF phrases, terms, all
  <2> QED  BY <2>3, <2>4
<1> QED  BY <1>3, <1>4

\* A clause is for one of the fields, each word that stands alone is asked for in
\* every field, and what is asked for is in the query if there is a blank beside
\* each quote.
LEMMA RegularAsks ==
    ASSUME NEW text \in Text, NEW V, NEW fields \in Seq(V), fields # <<>>
    PROVE  /\ \A c \in ParseRegular(text, fields).clauses :
                  /\ c.field \in ToSet(fields)
                  /\ QuotesApart(text) => \A t \in ToSet(c.terms) : Asks(t, InLower(text))
           /\ \A f \in ToSet(fields), i \in Alone(InLower(text)) :
                  InLower(text)[i] \notin Stopwords =>
                      \E c \in ParseRegular(text, fields).clauses :
                          c.field = f /\ <<InLower(text)[i]>> \in ToSet(c.terms)
<1> DEFINE low == InLower(text)  norm == Normalize(text)
           phrases == ExtractPhrases(text)
           rest == Remaining(norm, phrases)
           terms == Tokens(rest)
           clauses == ParseRegular(text, fields).clauses
<1>1. /\ low \in Text /\ InLower(low) = low
      /\ \A i \in 1 .. Len(low) : low[i] \notin DOMAIN Lower
      /\ DOMAIN low = 1 .. Len(low)
  <2>1. low \in Text /\ InLower(low) = low
    BY InLowerKeeps, LowTwice
  <2>2. Len(low) = Len(text) /\ \A i \in 1 .. Len(text) : low[i] \notin DOMAIN Lower
    BY LowText
  <2> HIDE DEF low
  <2> QED  BY <2>1, <2>2 DEF Text
<1>2. ASSUME QuotesApart(text) PROVE QuotesApart(low)
  <2>1. /\ Len(low) = Len(text)
        /\ \A i \in 1 .. Len(text) : low[i] = InLowerCase(text[i])
    BY LowText
  <2> HIDE DEF low
  <2> SUFFICES ASSUME NEW i \in 2 .. Len(text) - 1, low[i] = Quote
               PROVE  Blank \in {low[i - 1], low[i + 1]}
    BY <2>1 DEF QuotesApart
  <2>2. /\ i \in 1 .. Len(text) /\ i - 1 \in 1 .. Len(text) /\ i + 1 \in 1 .. Len(text)
    BY DEF Text
  <2>3. text[i] = Quote
    BY <2>1, <2>2, LowAtoms
  <2>4. Blank \in {text[i - 1], text[i + 1]}
    BY <1>2, <2>3 DEF QuotesApart
  <2>5. /\ text[i - 1] = Blank => low[i - 1] = Blank
        /\ text[i + 1] = Blank => low[i + 1] = Blank
    BY <2>1, <2>2, LowAtoms
  <2> QED  BY <2>4, <2>5
<1>3. norm \in Text /\ Tokens(norm) = Tokens(low)
  BY NormalizeKeeps
<1> HIDE DEF norm
<1>4. ASSUME QuotesApart(text) PROVE QuotesApart(norm)
  <2>1. \A t \in ToSet(Tokens(low)) : QuotesApart(t)
    BY <1>1, <1>2, <1>4, ApartByTokens
  <2> HIDE DEF low
  <2>2. \A t \in ToSet(Tokens(norm)) : QuotesApart(t)
    BY <1>3, <2>1
  <2> QED  BY <1>3, <2>2, ApartByTokens
<1>5. /\ phrases \in Seq(Text)
      /\ \A p \in ToSet(phrases) : p \in Text /\ IsPart(p, text) /\ Trimmed(p) /\ Solid(p)
  BY PhrasesOfText
<1>6. clauses = {TermQuery(f, t) : f \in ToSet(fields), t \in ToSet(terms)}
                \cup {PhraseQuery(f, p) : f \in ToSet(fields), p \in ToSet(phrases)}
      /\ terms \in Seq(Text) /\ rest \in Left(norm, phrases)
  <2>1. rest \in Left(norm, phrases)
    <3> HIDE DEF phrases
    <3> QED  BY <1>3, <1>5, RemainingKeeps
  <2>2. rest \in Text
    BY <2>1 DEF Left
  <2>3. terms \in Seq(Text)
    <3> HIDE DEF rest
    <3> QED  BY <2>2, TokensOfTwo
  <2>4. ExtractPhrases(text) \in Seq(Text)
        /\ Tokens(Remaining(Normalize(text), ExtractPhrases(text))) \in Seq(Text)
    BY <1>5, <2>3 DEF norm
  <2>5. ParseRegular(text, fields).clauses =
            {TermQuery(f, t) : f \in ToSet(fields),
                 t \in ToSet(Tokens(Remaining(Normalize(text), ExtractPhrases(text))))}
            \cup {PhraseQuery(f, p) : f \in ToSet(fields), p \in ToSet(ExtractPhrases(text))}
    BY <2>4, ClausesAre
  <2> QED  BY <2>1, <2>3, <2>5 DEF norm
<1> HIDE DEF phrases, rest, terms, clauses
<1>7. ASSUME QuotesApart(text), NEW t \in ToSet(terms)
      PROVE  t \in Text /\ Solid(t) /\ IsPart(t, low)
  <2>1. t \in ToSet(Tokens(low))
    BY <1>3, <1>4, <1>6, <1>7 DEF Left, terms
  <2> HIDE DEF low
  <2>2. IsPart(t, low) /\ t \in Words
    BY <1>1, <2>1, TokensAreParts
  <2>3. t \in Text /\ t # <<>> /\ \A i \in 1 .. Len(t) : t[i] # Blank
    BY <2>2 DEF Words
  <2>4. 1 \in DOMAIN t /\ t[1] # Blank
    <3>1. Len(t) \in Nat /\ Len(t) # 0
      BY <2>3 DEF Text
    <3> QED  BY <2>3, <3>1 DEF Text
  <2>5. Solid(t)
    BY <2>4 DEF Solid
  <2> QED  BY <2>2, <2>3, <2>5
<1>8. ASSUME NEW f \in ToSet(fields), NEW t \in ToSet(terms)
      PROVE  /\ TermQuery(f, t) \in clauses /\ TermQuery(f, t).field = f
             /\ QuotesApart(text) =>
                    \A s \in ToSet(TermQuery(f, t).terms) : Asks(s, low)
  <2>1. TermQuery(f, t) \in clauses
    BY <1>6
  <2>2. TermQuery(f, t).field = f
    BY DEF TermQuery
  <2>3. ASSUME QuotesApart(text)
        PROVE  \A s \in ToSet(TermQuery(f, t).terms) : Asks(s, low)
    <3>1. t \in Text /\ Solid(t) /\ IsPart(t, low)
      BY <1>7, <2>3
    <3>2. \A s \in ToSet(TermQuery(f, t).terms) : Asks(s, InLower(t))
      BY <3>1, TermQueryAsks
    <3>3. IsPart(InLower(t), low)
      <4>1. IsPart(InLower(t), InLower(low))
        BY <3>1, LowPart
      <4> QED  BY <1>1, <4>1
    <3> HIDE DEF low
    <3> QED  BY <3>2, <3>3, AskedOfPart
  <2> HIDE DEF low
  <2> QED  BY <2>1, <2>2, <2>3
<1>9. ASSUME NEW f \in ToSet(fields), NEW p \in ToSet(phrases)
      PROVE  /\ PhraseQuery(f, p) \in clauses /\ PhraseQuery(f, p).field = f
             /\ \A s \in ToSet(PhraseQuery(f, p).terms) : Asks(s, low)
             /\ \A k \in 1 .. Len(p) :
                    IsWord(p[k]) /\ p[k] \notin DOMAIN Lower /\ p[k] \notin Stopwords
                        => <<p[k]>> \in ToSet(PhraseQuery(f, p).terms)
  <2>1. PhraseQuery(f, p) \in clauses
    BY <1>6
  <2>2. /\ PhraseQuery(f, p).field = f
        /\ \A s \in ToSet(PhraseQuery(f, p).terms) : Asks(s, InLower(p))
        /\ \A k \in 1 .. Len(p) :
               IsWord(p[k]) /\ p[k] \notin DOMAIN Lower /\ p[k] \notin Stopwords
                   => <<p[k]>> \in ToSet(PhraseQuery(f, p).terms)
    BY <1>5, PhraseQueryAsks
  <2>3. IsPart(InLower(p), low)
    BY <1>5, LowPart
  <2> HIDE DEF low
  <2> QED  BY <2>1, <2>2, <2>3, AskedOfPart
<1> HIDE DEF low
<1>10. ASSUME NEW c \in clauses
       PROVE  /\ c.field \in ToSet(fields)
              /\ QuotesApart(text) => \A t \in ToSet(c.terms) : Asks(t, low)
  <2>1. CASE \E f \in ToSet(fields), t \in ToSet(terms) : c = TermQuery(f, t)
    BY <1>8, <2>1
  <2>2. CASE \E f \in ToSet(fields), p \in ToSet(phrases) : c = PhraseQuery(f, p)
    BY <1>9, <2>2
  <2> QED  BY <1>6, <2>1, <2>2
<1>11. ASSUME NEW f \in ToSet(fields), NEW i \in Alone(low), low[i] \notin Stopwords
       PROVE  \E c \in clauses : c.field = f /\ <<low[i]>> \in ToSet(c.terms)
  <2> DEFINE w == low[i]
  <2>1. i \in 1 .. Len(low) /\ IsWord(w)
    BY <1>1 DEF Alone
  <2>2. w \in Atoms /\ w \notin DOMAIN Lower
    <3>1. low \in Seq(Atoms)
      BY <1>1 DEF Text
    <3> QED  BY <1>1, <2>1, <3>1, ElementOfSeq
  <2>3. PICK j \in Alone(norm) : norm[j] = w
    <3>1. <<w>> \in ToSet(Tokens(norm))
      BY <1>1, <1>3, AloneIsToken
    <3> HIDE DEF w
    <3> QED  BY <1>3, <2>1, <2>2, <3>1, TokenIsAlone
  <2> HIDE DEF w
  <2>4. CASE \E k \in Alone(rest) : rest[k] = w
    <3>1. PICK k \in Alone(rest) : rest[k] = w
      BY <2>4
    <3>2. rest \in Text
      BY <1>6 DEF Left
    <3>3. <<w>> \in ToSet(terms)
      BY <3>1, <3>2, AloneIsToken DEF terms
    <3>4. <<w>> \in ToSet(TermQuery(f, <<w>>).terms)
      BY <1>11, <2>1, <2>2, WordIsAskedFor DEF w
    <3>5. TermQuery(f, <<w>>) \in clauses /\ TermQuery(f, <<w>>).field = f
      BY <1>8, <3>3
    <3> QED  BY <3>4, <3>5 DEF w
  <2>5. CASE \E p \in ToSet(phrases) : \E k \in 1 .. Len(p) : p[k] = w
    <3>1. PICK p \in ToSet(phrases) : \E k \in 1 .. Len(p) : p[k] = w
      BY <2>5
    <3>2. <<w>> \in ToSet(PhraseQuery(f, p).terms)
      BY <1>9, <1>11, <2>1, <2>2, <3>1 DEF w
    <3>3. PhraseQuery(f, p) \in clauses /\ PhraseQuery(f, p).field = f
      BY <1>9
    <3> QED  BY <3>2, <3>3 DEF w
  <2>6. \/ \E k \in Alone(rest) : rest[k] = w
        \/ \E p \in ToSet(phrases) : \E k \in 1 .. Len(p) : p[k] = w
    BY <1>6, <2>3 DEF Left
  <2> QED  BY <2>4, <2>5, <2>6
<1> QED  BY <1>10, <1>11 DEF low, clauses
-----------------------------------------------------------------------------
\* What is known of a request's places is what its two services find, what it
\* is expanded to follows from its entities, and what it is parsed into from
\* the request alone.
ExpandedFrom(entities) ==
    IF kind = "search" THEN ExpandQuery(Query, <<>>, <<>>)
    ELSE ExpandQuery(Query, entities.businessTypes, entities.services)
QueriesIInv ==
    /\ raw \in RawQueries
    /\ Has("entities") => found.entities = ExtractEntities(Query)
    /\ Has("location") => found.location = ProcessLocationQuery(Query, user)
    /\ Has("expanded") => Has("entities") /\ found.expanded = ExpandedFrom(found.entities)
    /\ Has("parsed") => found.parsed = Parse(raw)

LEMMA QueriesInit == QueryInit => QueriesIInv
  BY DEF QueryInit, QueriesIInv, Has

\* A service that learns something else leaves the places, and what the query
\* is expanded to and parsed into, as they were.
LEMMA LearnsOther ==
    ASSUME QueriesIInv, NEW field, NEW value, Learn(field, value),
           field \notin {"entities", "location", "expanded", "parsed"}
    PROVE  QueriesIInv'
<1>1. Query' = Query /\ user' = user /\ raw' = raw /\ kind' = kind
  BY DEF Learn, Query
<1>2. \A f \in {"entities", "location", "expanded", "parsed"} :
         (f \in DOMAIN found' <=> f \in DOMAIN found)
         /\ (f \in DOMAIN found => found'[f] = found[f])
  BY DEF Learn
<1> QED  BY <1>1, <1>2 DEF QueriesIInv, Has, ExpandedFrom

LEMMA QueriesStep == QueriesIInv /\ [QueryNext]_queryVars => QueriesIInv'
<1> SUFFICES ASSUME QueriesIInv, [QueryNext]_queryVars PROVE QueriesIInv'
  OBVIOUS
<1>1. ASSUME NEW k \in Kinds, NEW q \in RawQueries, NEW from \in Users, Ask(k, q, from)
      PROVE  QueriesIInv'
  <2>1. DOMAIN found' = {} /\ raw' = q
    BY <1>1 DEF Ask
  <2> QED  BY <2>1 DEF QueriesIInv, Has
<1>2. CASE ProcessQuery
  <2>1. Query' = Query /\ user' = user /\ raw' = raw /\ kind' = kind
    BY <1>2 DEF ProcessQuery, Learn, Query
  <2>2. /\ found'["parsed"] = Parse(raw)
        /\ \A f \in {"entities", "location", "expanded"} :
               (f \in DOMAIN found' <=> f \in DOMAIN found)
               /\ (f \in DOMAIN found => found'[f] = found[f])
    BY <1>2 DEF ProcessQuery, Learn
  <2> QED  BY <2>1, <2>2 DEF QueriesIInv, Has, ExpandedFrom
<1>3. CASE Entities
  <2>1. Query' = Query /\ user' = user /\ raw' = raw /\ kind' = kind
    BY <1>3 DEF Entities, Learn, Query
  <2>2. /\ found'["entities"] = ExtractEntities(Query)
        /\ "location" \in DOMAIN found' =>
               "location" \in DOMAIN found /\ found'["location"] = found["location"]
        /\ "parsed" \in DOMAIN found' =>
               "parsed" \in DOMAIN found /\ found'["parsed"] = found["parsed"]
        /\ "expanded" \in DOMAIN found' => "expanded" \in DOMAIN found
        /\ "entities" \notin DOMAIN found
    BY <1>3 DEF Entities, Learn, Has
  <2> QED  BY <2>1, <2>2 DEF QueriesIInv, Has
<1>4. CASE Location
  <2>1. Query' = Query /\ user' = user /\ raw' = raw /\ kind' = kind
    BY <1>4 DEF Location, Learn, Query
  <2>2. /\ found'["location"] = ProcessLocationQuery(Query, user)
        /\ \A f \in {"entities", "expanded", "parsed"} :
               (f \in DOMAIN found' <=> f \in DOMAIN found)
               /\ (f \in DOMAIN found => found'[f] = found[f])
    BY <1>4 DEF Location, Learn
  <2> QED  BY <2>1, <2>2 DEF QueriesIInv, Has, ExpandedFrom
<1>5. CASE Intent
  BY <1>5, LearnsOther DEF Intent
<1>6. CASE Expand
  <2>1. Query' = Query /\ user' = user /\ raw' = raw /\ kind' = kind
    BY <1>6 DEF Expand, Learn, Query
  <2>2. /\ "entities" \in DOMAIN found
        /\ found'["expanded"] = ExpandedFrom(found.entities)
        /\ \A f \in {"entities", "location", "parsed"} :
               (f \in DOMAIN found' <=> f \in DOMAIN found)
               /\ (f \in DOMAIN found => found'[f] = found[f])
    BY <1>6 DEF Expand, Learn, Has, ExpandedFrom
  <2> QED  BY <2>1, <2>2 DEF QueriesIInv, Has, ExpandedFrom
<1>7. CASE SimplifyQuery
  BY <1>7, LearnsOther DEF SimplifyQuery
<1>8. ASSUME NEW hits \in HitLists, Filter(hits)
      PROVE  QueriesIInv'
  BY <1>8, LearnsOther DEF Filter
<1>9. CASE Respond \/ Leave \/ UNCHANGED queryVars
  <2>1. UNCHANGED <<kind, raw, user, found>>
    BY <1>9 DEF Respond, Leave, queryVars
  <2> QED  BY <2>1 DEF QueriesIInv, Has, Query, ExpandedFrom
<1> QED  BY <1>1, <1>2, <1>3, <1>4, <1>5, <1>6, <1>7, <1>8, <1>9 DEF QueryNext

\* What is asked, and a query that is looked at, are texts.
LEMMA QueryIsText ==
    ASSUME QueriesIInv
    PROVE  raw.text \in Text /\ Query \in Text
<1>1. raw.text \in Text
  <2>1. raw.text \in Seq(STRING) /\ STRING \subseteq Atoms
    BY RawAssumption DEF QueriesIInv, Atoms
  <2> QED  BY <2>1, SeqMonotonic DEF Text
<1>2. Query \in {raw.text, <<>>}
  BY DEF Query, SearchText, QueryText
<1> QED  BY <1>1, <1>2, EmptyReading

\* The two services agree on every query: one finds the user's place where the
\* other one does, and none overlooks a place with a name that the other one
\* has found.
THEOREM ServicesAgree == QuerySpec => []LocationsAgree
<1>1. QueriesIInv => LocationsAgree
  <2> SUFFICES ASSUME QueriesIInv, Has("entities"), Has("location")
               PROVE  LocationsAgree
    BY DEF LocationsAgree
  <2>1. /\ found.entities = ExtractEntities(Query)
        /\ found.location = ProcessLocationQuery(Query, user)
    BY DEF QueriesIInv
  <2> QED  BY <2>1, QueryIsText, PlacesAgree DEF LocationsAgree, Mine
<1> QED  BY <1>1, QueriesInit, QueriesStep, PTL DEF QuerySpec

\* What a query is expanded to, of any text, begins with the words of the
\* query, each once, and what is added to them are synonyms of one of the types
\* and one of the services that are found in it; a search adds nothing.
THEOREM ExpansionsKeepTheQuery == QuerySpec => []ExpansionKeepsQuery
<1>1. QueriesIInv => ExpansionKeepsQuery
  <2> SUFFICES ASSUME QueriesIInv, Has("expanded")
               PROVE  ExpansionKeepsQuery
    BY DEF ExpansionKeepsQuery
  <2> DEFINE types == found.entities.businessTypes
             services == found.entities.services
             own == Distinct(Tokens(Query))
             all == Tokens(found.expanded)
             added == ToSet(SubSeq(all, Len(own) + 1, Len(all)))
             causes == ToSet(types) \cup ToSet(services)
             From(type, service) == ToSet(SynonymsOf(type) \o SynonymsOf(service))
             Of(from) == UNION {ToSet(Tokens(s)) : s \in from}
  <2>1. /\ found.entities = ExtractEntities(Query)
        /\ found.expanded = ExpandedFrom(found.entities)
    BY DEF QueriesIInv
  <2>2. Query \in Text
    BY QueryIsText
  <2>3. PICK V : types \in Seq(V) /\ services \in Seq(V)
    BY <2>1, EntitiesAreLists
  <2>4. /\ kind = "search" => Follows(own, all, {})
        /\ \E type \in causes \cup {<<>>}, service \in causes \cup {<<>>} :
               Follows(own, all, From(type, service))
    <3> HIDE DEF types, services
    <3>1. CASE kind = "search"
      <4> DEFINE none == <<>>
      <4>1. none \in Seq(V)
        BY EmptySeq
      <4>2. found.expanded = ExpandQuery(Query, none, none)
        BY <2>1, <3>1 DEF ExpandedFrom
      <4>3. none = <<>> /\ ToSet(none) = {}
        BY DEF ToSet
      <4> HIDE DEF none
      <4>4. Follows(own, all, {}) /\ Follows(own, all, From(none, none))
        <5>1. Follows(own, all, {})
          BY <2>2, <4>1, <4>2, <4>3, ExpandQueryKeeps
        <5>2. Follows(own, all, From(none, none))
          <6> HIDE DEF own, all, From
          <6> QED  BY <5>1 DEF Follows
        <5> QED  BY <5>1, <5>2
      <4> HIDE DEF own, all, From
      <4> QED  BY <4>3, <4>4
    <3>2. CASE kind # "search"
      <4>1. found.expanded = ExpandQuery(Query, types, services)
        BY <2>1, <3>2 DEF ExpandedFrom, types, services
      <4>2. \E type \in ToSet(types) \cup {<<>>}, service \in ToSet(services) \cup {<<>>} :
               Follows(own, all, From(type, service))
        BY <2>2, <2>3, <4>1, ExpandQueryKeeps
      <4> HIDE DEF own, all, From
      <4> QED  BY <3>2, <4>2
    <3> QED  BY <3>1, <3>2
  <2> HIDE DEF own, all, From, causes
  <2>5. PICK type \in causes \cup {<<>>}, service \in causes \cup {<<>>} :
           Follows(own, all, From(type, service))
    BY <2>4
  <2>6. /\ FirstOf(all, Len(own)) = own
        /\ added \cap ToSet(own) = {}
        /\ added \subseteq Of(From(type, service))
    BY <2>5 DEF Follows
  <2>7. kind = "search" => added = {}
    <3>1. kind = "search" => added \subseteq Of({})
      BY <2>4 DEF Follows
    <3> QED  BY <3>1
  <2> QED  BY <2>6, <2>7 DEF ExpansionKeepsQuery, own, all, From, causes
<1> QED  BY <1>1, QueriesInit, QueriesStep, PTL DEF QuerySpec

\* A word of a query that stands by itself and is no stop word is asked for in
\* every field, and, with a blank beside each quote, nothing is asked for that
\* is not in the query: of any text, any fields and any stop words.
THEOREM EveryWordIsAskedFor == QuerySpec => []AskedEverywhere
<1>1. QueriesIInv => AskedEverywhere
  <2> SUFFICES ASSUME QueriesIInv, Has("parsed"), raw.form \in {"string", "term"},
                      found.parsed.type # "match_all",
                      ~(raw.form = "string" /\ IsWildcard(raw.text))
               PROVE  AskedEverywhere
    BY DEF AskedEverywhere
  <2> DEFINE text == InLower(raw.text)
             list == IF raw.form = "string" THEN raw.fields ELSE FieldsOf(raw)
             clauses == found.parsed.clauses
  <2>1. /\ raw \in RawQueries /\ raw.text \in Text
        /\ raw.fields \in Seq(STRING) /\ raw.fields # <<>>
        /\ found.parsed = Parse(raw)
    BY RawAssumption, QueryIsText DEF QueriesIInv
  <2>2. found.parsed = ParseRegular(raw.text, list)
    <3>1. CASE raw.form = "string"
      <4>1. found.parsed = ParseString(raw)
        BY <2>1, <3>1 DEF Parse
      <4>2. ~AsksForAll(raw.text)
        BY <4>1 DEF ParseString, MatchAll
      <4> QED  BY <3>1, <4>1, <4>2 DEF ParseString
    <3>2. CASE raw.form = "term"
      BY <2>1, <3>2 DEF Parse
    <3> QED  BY <3>1, <3>2
  <2>3. \E V : list \in Seq(V) /\ list # <<>>
    <3>1. CASE raw.form = "string"
      BY <2>1, <3>1
    <3>2. CASE raw.form # "string" /\ raw.field # NoField
      <4> DEFINE one == Strip(raw.field)
      <4>1. list = <<one>>
        BY <3>2 DEF FieldsOf
      <4> HIDE DEF one, list
      <4>2. <<one>> \in Seq({one}) /\ <<one>> # <<>>
        OBVIOUS
      <4> QED  BY <4>1, <4>2
    <3>3. CASE raw.form # "string" /\ raw.field = NoField
      <4> DEFINE n == Len(raw.fields)
                 stripped == StripAll(raw.fields)
                 V == {Strip(raw.fields[i]) : i \in 1 .. n}
      <4>1. n \in Nat /\ n # 0 /\ DOMAIN raw.fields = 1 .. n
        BY <2>1, EmptySeq
      <4>2. stripped \in [1 .. n -> V]
        BY <4>1 DEF StripAll
      <4>3. list = stripped
        BY <3>3 DEF FieldsOf
      <4> HIDE DEF n, V, stripped, list
      <4>4. stripped \in Seq(V) /\ Len(stripped) = n
        BY <4>1, <4>2, FunctionIsList
      <4>5. stripped # <<>>
        BY <4>1, <4>4, EmptySeq
      <4> QED  BY <4>3, <4>4, <4>5
    <3> QED  BY <3>1, <3>2, <3>3
  <2> HIDE DEF list
  <2>4. PICK V : list \in Seq(V) /\ list # <<>>
    BY <2>3
  <2>5. /\ \A c \in clauses :
               /\ c.field \in ToSet(list)
               /\ QuotesApart(raw.text) => \A t \in ToSet(c.terms) : Asks(t, text)
        /\ \A f \in ToSet(list), i \in Alone(text) :
               text[i] \notin Stopwords =>
                   \E c \in clauses : c.field = f /\ <<text[i]>> \in ToSet(c.terms)
    <3> DEFINE q == raw.text
    <3>1. q \in Text /\ list \in Seq(V) /\ list # <<>>
      BY <2>1, <2>4
    <3> HIDE DEF q
    <3>2. \A c \in ParseRegular(q, list).clauses :
              /\ c.field \in ToSet(list)
              /\ QuotesApart(q) => \A t \in ToSet(c.terms) : Asks(t, InLower(q))
      BY ONLY <3>1, RegularAsks
    <3>3. \A f \in ToSet(list), i \in Alone(InLower(q)) :
              InLower(q)[i] \notin Stopwords =>
                  \E c \in ParseRegular(q, list).clauses :
                      c.field = f /\ <<InLower(q)[i]>> \in ToSet(c.terms)
      BY ONLY <3>1, RegularAsks
    <3>4. clauses = ParseRegular(q, list).clauses /\ text = InLower(q)
      BY <2>2 DEF q
    <3> HIDE DEF clauses, text
    <3> QED  BY <3>2, <3>3, <3>4 DEF q
  <2>6. text \in Text /\ InLower(text) = text
    BY <2>1, InLowerKeeps, LowTwice
  <2> HIDE DEF text, clauses
  <2>7. \A c \in clauses :
            /\ c.field \in ToSet(list)
            /\ QuotesApart(raw.text) =>
                   \A t \in ToSet(c.terms) : Occurs(Normalize(t), Normalize(text))
    BY <2>5, <2>6, AskedOccurs
  <2> QED  BY <2>5, <2>7 DEF AskedEverywhere, text, clauses, list
<1> QED  BY <1>1, QueriesInit, QueriesStep, PTL DEF QuerySpec
=============================================================================
