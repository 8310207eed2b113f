-------------------------- MODULE BulkIndexingProofs --------------------------
(***************************************************************************)
(* What the runs check of BulkIndexing for two documents and two requests, *)
(* proved for any documents, requests, operations and sizes of batches,    *)
(* any number of faults and any number of crashes.                         *)
(***************************************************************************)
EXTENDS BulkIndexing, TLAPS, FiniteSetTheorems, SequenceTheorems

DocMaps == UNION {[S -> Contents] : S \in SUBSET Docs}

States == {"none", "waiting", "active", "delayed", "completed", "failed", "removed"}
Stages == {"none", "check", "select", "write", "index", "call", "update"}

Job ==
    [state : States, docs : DocMaps, attempts : Nat, stalls : Nat, tries : Nat,
     at : Stages, todo : SUBSET Docs, doc : Docs \cup {Absent}, seen : BOOLEAN,
     errors : SUBSET Docs, sub : SUBSET Docs, tally : Nat]

Places ==
    {"idle", "verify", "clear", "snapshot", "queue", "add", "delayed", "list", "remove",
     "tally", "store", "ok", "failed"}

Request ==
    [op : Ops, docs : SUBSET Docs, at : Places, left : DocMaps, list : SUBSET Jobs,
     tally : Nat]

IndexCall ==
    [job : Jobs, try : Nat, doc : Docs, at : {"upsert", "read", "save", "confirm"}]

Typed ==
    /\ rows \in [Docs -> Contents]
    /\ job \in [Jobs -> Job]
    /\ req \in [Requests -> Request]
    /\ calls \subseteq IndexCall

\* The batches that a request has added are the first ones of its numbers.
AddedFirst(r, n) ==
    \A b \in Batches : /\ job[<<r, b>>].state # "none" <=> b <= n
                       /\ job[<<r, b>>].state = "none" => job[<<r, b>>].docs = NoDocs

\* Requests that have not come to their batches, or have, and their numbers are
\* enough for what is left.
Early == {"idle", "verify", "clear", "snapshot", "queue"}
Room(r, n) ==
    /\ req[r].at \in Early => n = 0
    /\ req[r].at = "add" =>
          /\ DOMAIN req[r].left # {}
          /\ n * BatchSize + Cardinality(DOMAIN req[r].left) <= Cardinality(Docs)
Numbered == \A r \in Requests : \E n \in Nat : AddedFirst(r, n) /\ Room(r, n)

\* A job is in Bull's list once, and only while it waits; one with a handler is
\* active.
Queued ==
    /\ wait \in Seq(Jobs)
    /\ \A i \in DOMAIN wait : job[wait[i]].state = "waiting"
    /\ \A i, k \in DOMAIN wait : wait[i] = wait[k] => i = k
    /\ \A j \in Jobs : Running(j) => job[j].state = "active"

\* What batches bring and rebuilds read: no row without content, unless the
\* document was deleted.
Real(f) == \A d \in DOMAIN f : f[d] # Absent /\ (f[d] = Blank => d \in erased)
AllReal ==
    /\ \A j \in Jobs : Real(job[j].docs)
    /\ \A r \in Requests : Real(req[r].left)

\* The document was stored, and has not been lost since but by a deletion.
Kept(d) == d \in erased \/ rows[d] \in Sent(d)
AllKept(S) == \A d \in S : Kept(d)

\* How far a handler is, and what it has stored by then.
Progress(j) ==
    /\ job[j].at = "check" => job[j].todo = DOMAIN job[j].docs
    /\ job[j].at \in {"select", "write"} =>
          /\ job[j].todo \subseteq DOMAIN job[j].docs
          /\ AllKept(DOMAIN job[j].docs \ (job[j].todo \cup job[j].errors))
    /\ job[j].at = "write" =>
          /\ job[j].doc \in job[j].todo
          /\ job[j].seen => Stored(job[j].doc) \/ job[j].doc \in erased
    /\ job[j].at \in {"index", "call", "update"} =>
          /\ job[j].todo \subseteq DOMAIN job[j].docs
          /\ AllKept(job[j].todo)
    /\ job[j].at \in {"index", "call", "update"} \/ job[j].state = "completed" =>
          AllKept(DOMAIN job[j].docs \ job[j].errors)

CalledKept == \A c \in calls : Kept(c.doc)

IInv ==
    /\ Typed /\ Numbered /\ Queued /\ AllReal
    /\ NoBlankRows /\ CalledKept
    /\ \A j \in Jobs : Progress(j)

-------------------------------------------------------------------------------
(* Data.                                                                   *)

\* No request is one of the special contents.
LEMMA Names ==
    /\ Absent \in Contents /\ Blank \in Contents /\ Old \in Contents
    /\ Requests \subseteq Contents
    /\ Blank # Absent /\ Old # Absent /\ Old # Blank
    /\ \A r \in Requests : r \notin {Absent, Blank, Old}
  BY BulkAssumption DEF Contents, Absent, Blank, Old

LEMMA MapsType ==
    /\ \A f \in DocMaps : DOMAIN f \subseteq Docs /\ \A d \in DOMAIN f : f[d] \in Contents
    /\ \A S \in SUBSET Docs : \A f \in [S -> Contents] : f \in DocMaps
    /\ NoDocs \in DocMaps /\ DOMAIN NoDocs = {}
  BY DEF DocMaps, NoDocs

\* What Without leaves (the batches that queueBulkIndexing cuts off).
LEMMA WithoutType ==
    ASSUME NEW f \in DocMaps, NEW S
    PROVE  /\ Without(f, S) \in DocMaps
           /\ DOMAIN Without(f, S) = DOMAIN f \ S
           /\ \A d \in DOMAIN f \ S : Without(f, S)[d] = f[d]
<1>1. DOMAIN f \ S \in SUBSET Docs /\ \A d \in DOMAIN f \ S : f[d] \in Contents
  BY MapsType
<1>2. Without(f, S) \in [DOMAIN f \ S -> Contents]
  BY <1>1 DEF Without
<1> QED  BY <1>1, <1>2, MapsType DEF Without

LEMMA TotalType == Total \in Nat
<1>1. IsFiniteSet({d \in Docs : Stored(d)})
  BY BulkAssumption, FS_Subset
<1> QED  BY <1>1, FS_CardinalityType DEF Total

\* The list that job.remove leaves: the others, in their order.
LEMMA RemovedFromList ==
    ASSUME NEW s \in Seq(Jobs), NEW j \in Jobs, NEW t, t = RemoveFirst(s, j),
           \A i, k \in DOMAIN s : s[i] = s[k] => i = k
    PROVE  /\ t \in Seq(Jobs)
           /\ \A i \in DOMAIN t : t[i] # j /\ \E k \in DOMAIN s : t[i] = s[k]
           /\ \A i, k \in DOMAIN t : t[i] = t[k] => i = k
<1>1. DOMAIN s = 1 .. Len(s) /\ Len(s) \in Nat /\ \A i \in 1 .. Len(s) : s[i] \in Jobs
  BY LenProperties
<1>2. CASE ~\E i \in 1 .. Len(s) : s[i] = j
  <2>1. t = s
    BY <1>2 DEF RemoveFirst
  <2> QED  BY <1>1, <1>2, <2>1
<1>3. CASE \E i \in 1 .. Len(s) : s[i] = j
  <2>1. PICK n \in 1 .. Len(s) : s[n] = j
    BY <1>3
  <2>2. {i \in 1 .. Len(s) : s[i] = j} = {n}
    BY <1>1, <2>1
  <2>3. SelectInSeq(s, LAMBDA v : v = j) = n
    <3>1. \A i \in {n} : i = n
      OBVIOUS
    <3>2. Min({n}) = n
      BY <1>1, <2>1 DEF Min
    <3> QED  BY <2>2, <3>2 DEF SelectInSeq
  <2>4. t = SubSeq(s, 1, n - 1) \o SubSeq(s, n + 1, Len(s))
    BY <1>3, <2>3 DEF RemoveFirst, RemoveAt
  <2> DEFINE u == SubSeq(s, 1, n - 1)
             v == SubSeq(s, n + 1, Len(s))
  <2>5. /\ u \in Seq(Jobs) /\ Len(u) = n - 1
        /\ \A i \in 1 .. n - 1 : u[i] = s[i]
    <3>1. \A i \in 1 .. n - 1 : s[i] \in Jobs
      BY <1>1
    <3> QED  BY <1>1, <3>1, SubSeqProperties
  <2>6. /\ v \in Seq(Jobs) /\ Len(v) = Len(s) - n
        /\ \A i \in 1 .. Len(s) - n : v[i] = s[n + i]
    <3>1. \A i \in n + 1 .. Len(s) : s[i] \in Jobs
      BY <1>1
    <3>2. n + 1 \in Int /\ Len(s) \in Int
      BY <1>1
    <3>3. /\ v \in Seq(Jobs)
          /\ Len(v) = IF n + 1 <= Len(s) THEN Len(s) - (n + 1) + 1 ELSE 0
          /\ \A i \in 1 .. Len(s) - (n + 1) + 1 : v[i] = s[(n + 1) + i - 1]
      BY <3>1, <3>2, SubSeqProperties
    <3> HIDE DEF v
    <3>4. Len(s) - (n + 1) + 1 = Len(s) - n /\ \A i \in 1 .. Len(s) - n : (n + 1) + i - 1 = n + i
      BY <1>1
    <3>5. \A l \in Nat : \A m \in 1 .. l : (IF m + 1 <= l THEN l - (m + 1) + 1 ELSE 0) = l - m
      OBVIOUS
    <3>6. Len(v) = Len(s) - n
      BY <1>1, <3>3, <3>5, Zenon
    <3> QED  BY <3>3, <3>4, <3>6
  <2>7. t = u \o v
    BY <2>4
  <2> HIDE DEF u, v
  <2>8. /\ u \o v \in Seq(Jobs) /\ Len(u \o v) = Len(u) + Len(v)
        /\ \A i \in 1 .. Len(u) + Len(v) : (u \o v)[i] = IF i <= Len(u) THEN u[i] ELSE v[i - Len(u)]
    BY <2>5, <2>6, ConcatProperties
  <2>9. /\ t \in Seq(Jobs) /\ Len(t) = Len(u) + Len(v)
        /\ \A i \in 1 .. Len(u) + Len(v) : t[i] = IF i <= Len(u) THEN u[i] ELSE v[i - Len(u)]
    BY <2>7, <2>8, Zenon
  <2>10. DOMAIN t = 1 .. Len(s) - 1
    BY <1>1, <2>5, <2>6, <2>9, LenProperties
  <2>11. \A i \in 1 .. Len(s) - 1 : t[i] = IF i < n THEN s[i] ELSE s[i + 1]
    <3>1. TAKE i \in 1 .. Len(s) - 1
    <3>2. n \in Nat /\ i \in Nat /\ i \in 1 .. Len(u) + Len(v)
      BY <1>1, <2>5, <2>6
    <3>3. CASE i < n
      <4>1. i <= Len(u) /\ i \in 1 .. n - 1
        BY <2>5, <3>2, <3>3
      <4> QED  BY <2>5, <2>9, <3>2, <3>3, <4>1
    <3>4. CASE ~(i < n)
      <4>1. ~(i <= Len(u)) /\ i - Len(u) \in 1 .. Len(s) - n /\ n + (i - Len(u)) = i + 1
        BY <1>1, <2>5, <3>2, <3>4
      <4> QED  BY <2>6, <2>9, <3>2, <3>4, <4>1
    <3> QED  BY <3>3, <3>4
  <2>12. \A i \in DOMAIN t : t[i] # j /\ \E k \in DOMAIN s : t[i] = s[k]
    BY <1>1, <2>1, <2>10, <2>11
  <2>13. \A i, k \in DOMAIN t : t[i] = t[k] => i = k
    <3>1. TAKE i, k \in DOMAIN t
    <3> DEFINE Was(m) == IF m < n THEN m ELSE m + 1
    <3>2. /\ Was(i) \in DOMAIN s /\ t[i] = s[Was(i)]
          /\ Was(k) \in DOMAIN s /\ t[k] = s[Was(k)]
      BY <1>1, <2>10, <2>11
    <3>3. Was(i) = Was(k) => i = k
      BY <1>1, <2>10
    <3> HIDE DEF Was
    <3> QED  BY <3>2, <3>3
  <2> QED  BY <2>9, <2>12, <2>13
<1> QED  BY <1>2, <1>3

\* The number of the next batch of a request (the index i of the loop of
\* queueBulkIndexing): one more than it has added.
LEMMA NextNumber ==
    ASSUME NEW r \in Requests, NEW n \in Nat, AddedFirst(r, n), n + 1 \in Batches
    PROVE  1 + Cardinality({k \in Jobs : k[1] = r /\ job[k].state # "none"}) = n + 1
<1> DEFINE N == (Cardinality(Docs) + BatchSize - 1) \div BatchSize
           U == {k \in Jobs : k[1] = r /\ job[k].state # "none"}
           m == IF n <= N THEN n ELSE N
           f == [i \in 1 .. m |-> <<r, i>>]
<1>1. Cardinality(Docs) \in Nat
  BY BulkAssumption, FS_CardinalityType
<1>2. N \in Nat
  BY <1>1, BulkAssumption
<1>3. Batches = 1 .. N
  BY DEF Batches
<1> HIDE DEF N
<1>4. m \in Nat /\ 1 .. m = {b \in Batches : b <= n}
  BY <1>2, <1>3
<1> HIDE DEF m
<1>5. U = {<<r, b>> : b \in 1 .. m}
  BY <1>4 DEF AddedFirst, Jobs
<1> HIDE DEF U
<1>6. f \in Bijection(1 .. m, U)
  <2>1. f \in [1 .. m -> U] /\ \A i \in 1 .. m : f[i] = <<r, i>>
    BY <1>5
  <2> HIDE DEF f
  <2>2. \A i, k \in 1 .. m : f[i] = f[k] => i = k
    BY <2>1
  <2>3. \A u \in U : \E i \in 1 .. m : f[i] = u
    BY <1>5, <2>1
  <2> QED  BY <2>1, <2>2, <2>3 DEF Bijection, Injection, IsInjective, Surjection
<1>7. Cardinality(U) = m
  <2>1. IsFiniteSet(1 .. m) /\ Cardinality(1 .. m) = m
    <3>1. 1 \in Int /\ m \in Int /\ (IF 1 > m THEN 0 ELSE m - 1 + 1) = m
      BY <1>4
    <3>2. IsFiniteSet(1 .. m) /\ Cardinality(1 .. m) = IF 1 > m THEN 0 ELSE m - 1 + 1
      BY <3>1, FS_Interval
    <3> QED  BY <3>1, <3>2
  <2>2. ExistsBijection(1 .. m, U)
    BY <1>6 DEF ExistsBijection
  <2> QED  BY <2>1, <2>2, FS_Bijection
<1>8. m = n
  BY <1>2, <1>3 DEF m
<1> QED  BY <1>3, <1>7, <1>8 DEF U

-------------------------------------------------------------------------------
(* What is kept.                                                           *)

\* What every step respects: deletions are remembered, a batch stays what it
\* is, and a row only changes to what was sent, or because of a deletion.
Keeps ==
    /\ erased \subseteq erased'
    /\ \A j \in Jobs : job'[j].docs = job[j].docs \/ job[j].docs = NoDocs
    /\ \A r \in Requests : req'[r].op = req[r].op /\ req'[r].docs = req[r].docs
    /\ \A d \in Docs : rows'[d] = rows[d] \/ rows'[d] \in Sent(d) \/ d \in erased'

LEMMA SentStays ==
    ASSUME Keeps, NEW d
    PROVE  Sent(d) \subseteq Sent(d)'
<1>1. ASSUME NEW j \in Jobs, d \in DOMAIN job[j].docs
      PROVE  d \in DOMAIN job'[j].docs /\ job'[j].docs[d] = job[j].docs[d]
  BY <1>1, MapsType DEF Keeps
<1>2. ASSUME NEW r \in Requests, req[r].op = "put", d \in req[r].docs
      PROVE  req'[r].op = "put" /\ d \in req'[r].docs
  BY <1>2 DEF Keeps
<1> QED  BY <1>1, <1>2 DEF Sent

LEMMA KeptStays ==
    ASSUME Keeps, NEW d \in Docs, Kept(d)
    PROVE  Kept(d)'
  BY SentStays DEF Keeps, Kept

\* What was sent is a row.
LEMMA SentIsReal ==
    ASSUME AllReal, NEW d, NEW x \in Sent(d)
    PROVE  x # Absent /\ (x = Blank => d \in erased)
  BY Names DEF Sent, AllReal, Real

LEMMA StoredStays ==
    ASSUME Keeps, AllReal, NEW d \in Docs, Stored(d) \/ d \in erased
    PROVE  Stored(d)' \/ d \in erased'
  BY SentIsReal DEF Keeps, Stored

LEMMA NoBlankRowsStays ==
    ASSUME Keeps, AllReal, NoBlankRows
    PROVE  NoBlankRows'
  BY SentIsReal DEF Keeps, NoBlankRows

LEMMA RealStays ==
    ASSUME Keeps, NEW f, Real(f)
    PROVE  Real(f)'
  BY DEF Keeps, Real

\* What a step does to a job that it does not process.
Aside(j) ==
    /\ job'[j].docs = job[j].docs
    /\ \/ job'[j] = job[j]
       \/ job'[j].at = "none" /\ job'[j].state # "completed"
       \/ /\ job'[j].at = "none" /\ job'[j].state = job[j].state
          /\ job'[j].errors = job[j].errors

LEMMA AsideProgress ==
    ASSUME IInv, Keeps, NEW j \in Jobs, Aside(j)
    PROVE  Progress(j)'
<1>1. DOMAIN job[j].docs \subseteq Docs
  BY MapsType DEF IInv, Typed, Job
<1>2. \A S \in SUBSET Docs : AllKept(S) => AllKept(S)'
  BY KeptStays DEF AllKept
<1>3. Progress(j)
  BY DEF IInv
<1>4. CASE job'[j] = job[j]
  <2>1. \A d \in Docs : Stored(d) \/ d \in erased => Stored(d)' \/ d \in erased'
    BY StoredStays DEF IInv
  <2>2. AllKept(DOMAIN job[j].docs \ (job[j].todo \cup job[j].errors)) =>
            AllKept(DOMAIN job[j].docs \ (job[j].todo \cup job[j].errors))'
    BY <1>1, <1>2, <1>4
  <2>3. AllKept(DOMAIN job[j].docs \ job[j].errors) =>
            AllKept(DOMAIN job[j].docs \ job[j].errors)'
    BY <1>1, <1>2, <1>4
  <2>4. job[j].todo \subseteq DOMAIN job[j].docs /\ AllKept(job[j].todo) => AllKept(job[j].todo)'
    BY <1>1, <1>2, <1>4
  <2> QED  BY <1>1, <1>3, <1>4, <2>1, <2>2, <2>3, <2>4 DEF Progress
<1>5. CASE job'[j].at = "none" /\ job'[j].state # "completed"
  BY <1>5 DEF Progress
<1>6. CASE /\ job'[j].at = "none" /\ job'[j].state = job[j].state
           /\ job'[j].errors = job[j].errors /\ job'[j].docs = job[j].docs
  <2>1. AllKept(DOMAIN job[j].docs \ job[j].errors) =>
            AllKept(DOMAIN job[j].docs \ job[j].errors)'
    BY <1>1, <1>2, <1>6
  <2> QED  BY <1>3, <1>6, <2>1 DEF Progress
<1> QED  BY <1>4, <1>5, <1>6 DEF Aside

LEMMA QueueStays ==
    ASSUME Queued, wait' = wait,
           \A j \in Jobs : /\ job[j].state = "waiting" => job'[j].state = "waiting"
                           /\ Running(j)' => job'[j].state = "active"
    PROVE  Queued'
<1>1. \A i \in DOMAIN wait : wait[i] \in Jobs
  BY LenProperties DEF Queued
<1> QED  BY <1>1 DEF Queued

\* How a request gets to its batches: with x it is no further back than it was.
Onward(r, x) ==
    /\ x.at \in Early => req[r].at \in Early
    /\ x.at = "add" =>
          \/ req[r].at = "add" /\ x.left = req[r].left
          \/ req[r].at \in Early /\ DOMAIN x.left \in (SUBSET Docs) \ {{}}

LEMMA NumbersStay ==
    ASSUME Numbered,
           \A j \in Jobs : /\ job'[j].state = "none" <=> job[j].state = "none"
                           /\ job'[j].docs = job[j].docs,
           \A r \in Requests : Onward(r, req'[r])
    PROVE  Numbered'
<1>1. \A r \in Requests, b \in Batches : <<r, b>> \in Jobs
  BY DEF Jobs
<1>2. ASSUME NEW r \in Requests, NEW n \in Nat, AddedFirst(r, n), Room(r, n)
      PROVE  AddedFirst(r, n)' /\ Room(r, n)'
  <2>1. AddedFirst(r, n)'
    BY <1>1, <1>2 DEF AddedFirst
  <2>2. CASE req'[r].at = "add" /\ req[r].at = "add" /\ req'[r].left = req[r].left
    BY <2>1, <1>2, <2>2 DEF Room, Early
  <2>3. CASE /\ req'[r].at = "add" /\ req[r].at \in Early
             /\ DOMAIN req'[r].left \in (SUBSET Docs) \ {{}}
    <3>1. n = 0
      BY <1>2, <2>3 DEF Room
    <3>2. IsFiniteSet(Docs) /\ BatchSize \in Nat
      BY BulkAssumption
    <3>3. /\ Cardinality(DOMAIN req'[r].left) <= Cardinality(Docs)
          /\ Cardinality(DOMAIN req'[r].left) \in Nat
      BY <2>3, <3>2, FS_Subset, FS_CardinalityType
    <3>4. n * BatchSize = 0
      BY <3>1, <3>2
    <3>5. n * BatchSize + Cardinality(DOMAIN req'[r].left) <= Cardinality(Docs)
      BY <3>3, <3>4
    <3> QED  BY <2>1, <2>3, <3>5 DEF Room, Early
  <2>4. CASE req'[r].at # "add"
    BY <1>2, <2>1, <2>4 DEF Onward, Room
  <2> QED  BY <2>1, <2>2, <2>3, <2>4 DEF Onward
<1> QED  BY <1>2 DEF Numbered

LEMMA SameOnward ==
    ASSUME NEW r \in Requests, req'[r] = req[r]
    PROVE  Onward(r, req'[r])
  BY DEF Onward

\* The state of one request.
LEMMA RequestTyped ==
    ASSUME IInv, NEW r \in Requests, NEW x \in Request, req' = [req EXCEPT ![r] = x],
           x.op = req[r].op, x.docs = req[r].docs, Real(x.left), Onward(r, x)
    PROVE  /\ req' \in [Requests -> Request]
           /\ \A s \in Requests : /\ req'[s].op = req[s].op /\ req'[s].docs = req[s].docs
                                  /\ Real(req'[s].left) /\ Onward(s, req'[s])
  BY SameOnward DEF IInv, Typed, AllReal

\* What a request does that changes no job, no row and no call.
LEMMA RequestStep ==
    ASSUME IInv, NEW r \in Requests, NEW x \in Request, req' = [req EXCEPT ![r] = x],
           x.op = req[r].op, x.docs = req[r].docs, Real(x.left), Onward(r, x),
           UNCHANGED <<rows, job, wait, calls, erased>>
    PROVE  IInv'
<1>1. /\ req' \in [Requests -> Request]
      /\ \A s \in Requests : /\ req'[s].op = req[s].op /\ req'[s].docs = req[s].docs
                             /\ Real(req'[s].left) /\ Onward(s, req'[s])
  BY RequestTyped
<1>2. Keeps
  BY <1>1 DEF Keeps
<1>3. Typed'
  BY <1>1 DEF IInv, Typed
<1>4. Numbered' /\ Queued'
  BY <1>1, NumbersStay, QueueStays DEF IInv, Queued, Running
<1>5. AllReal'
  BY <1>1, <1>2, RealStays DEF IInv, AllReal
<1>6. NoBlankRows'
  BY <1>2, NoBlankRowsStays DEF IInv
<1>7. CalledKept'
  BY <1>2, KeptStays DEF IInv, CalledKept, Typed, IndexCall
<1>8. \A j \in Jobs : Progress(j)'
  BY <1>2, AsideProgress DEF Aside
<1> QED  BY <1>3, <1>4, <1>5, <1>6, <1>7, <1>8 DEF IInv

\* What a handler does with its job, and what its calls do with theirs, keeps
\* what was stored ...
LEMMA HandlerKeeps ==
    ASSUME IInv, NEW j \in Jobs, NEW x \in Job, job' = [job EXCEPT ![j] = x],
           x.docs = job[j].docs,
           UNCHANGED <<req, erased>>,
           \A d \in Docs : rows'[d] = rows[d] \/ rows'[d] \in Sent(d) \/ d \in erased
    PROVE  Keeps
<1>1. \A k \in Jobs : job'[k].docs = job[k].docs
  BY DEF IInv, Typed
<1> QED  BY <1>1 DEF Keeps

\* ... and the invariant, if the job itself is as far as it says.
LEMMA HandlerStep ==
    ASSUME IInv, NEW j \in Jobs, NEW x \in Job, job' = [job EXCEPT ![j] = x],
           x.docs = job[j].docs,
           UNCHANGED <<req, erased, wait>>,
           \A d \in Docs : rows'[d] = rows[d] \/ rows'[d] \in Sent(d) \/ d \in erased,
           rows' \in [Docs -> Contents],
           calls' \subseteq IndexCall, CalledKept',
           job[j].state = "active", x.state # "none", x.at # "none" => x.state = "active",
           Progress(j)'
    PROVE  IInv'
<1>1. Keeps
  BY HandlerKeeps
<1>2. job' \in [Jobs -> Job] /\ \A k \in Jobs : job'[k] = IF k = j THEN x ELSE job[k]
  BY DEF IInv, Typed
<1>3. Typed'
  BY <1>2 DEF IInv, Typed
<1>4. Numbered'
  BY <1>2, SameOnward, NumbersStay DEF IInv
<1>5. Queued'
  <2>1. \A k \in Jobs : /\ job[k].state = "waiting" => job'[k].state = "waiting"
                        /\ Running(k)' => job'[k].state = "active"
    BY <1>2 DEF IInv, Queued, Running
  <2> QED  BY <2>1, QueueStays DEF IInv
<1>6. AllReal'
  BY <1>1, <1>2, RealStays DEF IInv, AllReal
<1>7. NoBlankRows'
  BY <1>1, NoBlankRowsStays DEF IInv
<1>8. \A k \in Jobs : Progress(k)'
  BY <1>1, <1>2, AsideProgress DEF Aside
<1> QED  BY <1>3, <1>4, <1>5, <1>6, <1>7, <1>8 DEF IInv

-------------------------------------------------------------------------------
(* The steps of a handler (processBatchDocuments).                         *)

LEMMA QuietHandlerStep ==
    ASSUME IInv, NEW j \in Jobs, NEW x \in Job, job' = [job EXCEPT ![j] = x],
           x.docs = job[j].docs,
           UNCHANGED <<rows, calls, req, erased, wait>>,
           job[j].state = "active", x.state # "none", x.at # "none" => x.state = "active",
           Keeps => Progress(j)'
    PROVE  IInv'
<1>1. Keeps
  BY HandlerKeeps
<1>2. CalledKept'
  BY <1>1, KeptStays DEF IInv, CalledKept, Typed, IndexCall
<1>3. rows' \in [Docs -> Contents] /\ calls' \subseteq IndexCall
  BY DEF IInv, Typed
<1> QED  BY <1>1, <1>2, <1>3, HandlerStep

LEMMA ThrowStep ==
    ASSUME IInv, NEW j \in Jobs, job[j].state = "active", Throw(j),
           UNCHANGED <<rows, calls, req, erased, wait>>
    PROVE  IInv'
<1> DEFINE tried == job[j].attempts + 1
           ended == IF tried < Attempts THEN "delayed" ELSE "failed"
           x == [job[j] EXCEPT !.at = "none", !.attempts = tried, !.state = ended]
<1>1. job[j] \in Job
  BY DEF IInv, Typed
<1>2. /\ x \in Job /\ x.docs = job[j].docs /\ x.at = "none"
      /\ x.state \in {"delayed", "failed"}
  <2>1. tried \in Nat /\ ended \in {"delayed", "failed"}
    BY <1>1 DEF Job
  <2> HIDE DEF tried, ended
  <2> QED  BY <1>1, <2>1 DEF Job, States, Stages
<1>3. job' = [job EXCEPT ![j] = x]
  BY DEF Throw
<1> HIDE DEF x
<1>4. job'[j] = x
  BY <1>3 DEF IInv, Typed
<1>5. Progress(j)'
  BY <1>2, <1>4 DEF Progress
<1> QED  BY <1>2, <1>3, <1>5, QuietHandlerStep

LEMMA CheckJobStep ==
    ASSUME IInv, NEW j \in Jobs, CheckJob(j)
    PROVE  IInv'
<1>1. UNCHANGED <<rows, calls, req, erased, wait>>
  BY DEF CheckJob, db, queue, history, Fault
<1>2. job[j].state = "active" /\ job[j].at = "check"
  BY DEF CheckJob, At
<1>3. CASE job' = [job EXCEPT ![j].at = "select"]
  <2> DEFINE x == [job[j] EXCEPT !.at = "select"]
  <2>1. job[j] \in Job
    BY DEF IInv, Typed
  <2>2. /\ x \in Job /\ x.docs = job[j].docs /\ x.todo = job[j].todo /\ x.at = "select"
        /\ x.state = "active"
    BY <1>2, <2>1 DEF Job, States, Stages
  <2>3. job' = [job EXCEPT ![j] = x]
    BY <1>3
  <2> HIDE DEF x
  <2>4. job'[j] = x
    BY <2>3 DEF IInv, Typed
  <2>5. job[j].todo = DOMAIN job[j].docs
    BY <1>2 DEF IInv, Progress
  <2>6. Progress(j)'
    BY <2>2, <2>4, <2>5 DEF Progress, AllKept
  <2> QED  BY <1>1, <1>2, <2>2, <2>3, <2>6, QuietHandlerStep
<1> QED  BY <1>1, <1>2, <1>3, ThrowStep DEF CheckJob

\* The next document: this one was stored, or is reported.
LEMMA StoreNextStep ==
    ASSUME IInv, NEW j \in Jobs, job[j].state = "active", job[j].at \in {"select", "write"},
           NEW d \in job[j].todo, NEW failed \in SUBSET {d}, StoreNext(j, d, failed),
           UNCHANGED <<calls, req, erased, wait>>, rows' \in [Docs -> Contents],
           \A e \in Docs : rows'[e] = rows[e] \/ rows'[e] \in Sent(e) \/ e \in erased,
           d \notin failed => rows'[d] \in Sent(d) \/ d \in erased
    PROVE  IInv'
<1> DEFINE left == job[j].todo \ {d}
           errors == job[j].errors \cup failed
           x == [job[j] EXCEPT !.errors = errors, !.doc = Absent, !.seen = FALSE,
                               !.at = IF left = {} THEN "index" ELSE "select",
                               !.todo = IF left = {} THEN DOMAIN job[j].docs \ errors
                                        ELSE left]
<1>1. /\ job[j] \in Job /\ DOMAIN job[j].docs \subseteq Docs
      /\ job[j].todo \subseteq DOMAIN job[j].docs
  BY MapsType DEF IInv, Typed, Job, Progress
<1>2. errors \subseteq Docs /\ left \subseteq Docs /\ d \in Docs
  BY <1>1 DEF Job, States, Stages
<1>3. /\ x \in Job /\ x.docs = job[j].docs /\ x.state = "active" /\ x.errors = errors
      /\ IF left = {} THEN x.at = "index" /\ x.todo = DOMAIN job[j].docs \ errors
                      ELSE x.at = "select" /\ x.todo = left
  BY <1>1, <1>2 DEF Job, States, Stages
<1>4. job' = [job EXCEPT ![j] = x]
  BY DEF StoreNext
<1> HIDE DEF x
<1>5. job'[j] = x
  BY <1>4 DEF IInv, Typed
<1>6. Keeps
  BY <1>3, <1>4, HandlerKeeps
<1>7. CalledKept' /\ calls' \subseteq IndexCall
  BY <1>6, KeptStays DEF IInv, CalledKept, Typed, IndexCall
<1>8. AllKept(DOMAIN job[j].docs \ (job[j].todo \cup job[j].errors))
  BY DEF IInv, Progress
<1>9. \A e \in DOMAIN job[j].docs \ (left \cup errors) : Kept(e)'
  <2>1. TAKE e \in DOMAIN job[j].docs \ (left \cup errors)
  <2>2. CASE e = d
    <3>1. d \notin failed
      BY <2>2
    <3> QED  BY <1>2, <1>6, <2>2, <3>1, SentStays DEF Kept, Keeps
  <2>3. CASE e # d
    BY <1>1, <1>6, <1>8, <2>3, KeptStays DEF AllKept
  <2> QED  BY <2>2, <2>3
<1>10. Progress(j)'
  BY <1>1, <1>3, <1>5, <1>9 DEF Progress, AllKept
<1> QED  BY <1>3, <1>4, <1>7, <1>10, HandlerStep

LEMMA SelectExistingStep ==
    ASSUME IInv, NEW j \in Jobs, SelectExisting(j)
    PROVE  IInv'
<1>1. UNCHANGED <<rows, calls, req, erased, wait>>
  BY DEF SelectExisting, db, queue, history, Fault
<1>2. job[j].state = "active" /\ job[j].at = "select"
  BY DEF SelectExisting, At
<1>3. rows' \in [Docs -> Contents]
  BY <1>1 DEF IInv, Typed
<1>4. ASSUME NEW d \in job[j].todo,
             job' = [job EXCEPT ![j].doc = d, ![j].seen = Stored(d), ![j].at = "write"]
      PROVE  IInv'
  <2> DEFINE x == [job[j] EXCEPT !.doc = d, !.seen = Stored(d), !.at = "write"]
  <2>1. job[j] \in Job /\ DOMAIN job[j].docs \subseteq Docs /\ d \in Docs /\ Stored(d) \in BOOLEAN
    BY <1>4, MapsType DEF IInv, Typed, Job, Stored
  <2>2. /\ x \in Job /\ x.docs = job[j].docs /\ x.todo = job[j].todo /\ x.errors = job[j].errors
        /\ x.at = "write" /\ x.doc = d /\ x.seen = Stored(d) /\ x.state = "active"
    BY <1>2, <2>1 DEF Job, States, Stages
  <2>3. job' = [job EXCEPT ![j] = x]
    BY <1>4
  <2> HIDE DEF x
  <2>4. job'[j] = x
    BY <2>3 DEF IInv, Typed
  <2>5. Keeps
    BY <1>1, <2>2, <2>3, HandlerKeeps
  <2>6. /\ job[j].todo \subseteq DOMAIN job[j].docs
        /\ AllKept(DOMAIN job[j].docs \ (job[j].todo \cup job[j].errors))
    BY <1>2 DEF IInv, Progress
  <2>7. \A e \in DOMAIN job[j].docs \ (job[j].todo \cup job[j].errors) : Kept(e)'
    BY <2>1, <2>5, <2>6, KeptStays DEF AllKept
  <2>8. Progress(j)'
    BY <1>1, <2>2, <2>4, <2>6, <2>7 DEF Progress, AllKept, Stored
  <2> QED  BY <1>1, <1>2, <2>2, <2>3, <2>8, QuietHandlerStep
<1>5. ASSUME NEW d \in job[j].todo, StoreNext(j, d, {d})
      PROVE  IInv'
  BY <1>1, <1>2, <1>3, <1>5, StoreNextStep
<1> QED  BY <1>4, <1>5 DEF SelectExisting

LEMMA WriteDocumentStep ==
    ASSUME IInv, NEW j \in Jobs, WriteDocument(j)
    PROVE  IInv'
<1> DEFINE d == job[j].doc
<1>1. UNCHANGED <<calls, req, erased, wait>>
  BY DEF WriteDocument, queue, history, Fault
<1>2. job[j].state = "active" /\ job[j].at = "write"
  BY DEF WriteDocument, At
<1>3. /\ job[j].todo \subseteq DOMAIN job[j].docs /\ d \in job[j].todo
      /\ job[j].seen => Stored(d) \/ d \in erased
  BY <1>2 DEF IInv, Progress
<1>4. /\ DOMAIN job[j].docs \subseteq Docs /\ job[j].seen \in BOOLEAN
      /\ \A e \in DOMAIN job[j].docs : job[j].docs[e] \in Contents
  BY MapsType DEF IInv, Typed, Job
<1>5. d \in Docs /\ job[j].docs[d] \in Contents /\ job[j].docs[d] \in Sent(d)
  BY <1>3, <1>4 DEF Sent
<1>6. rows \in [Docs -> Contents]
  BY DEF IInv, Typed
<1> HIDE DEF d
<1>7. CASE /\ job[j].seen \/ (exists /\ ~Stored(d))
           /\ rows' = [rows EXCEPT ![d] = IF job[j].seen <=> Stored(d) THEN job[j].docs[d] ELSE @]
           /\ StoreNext(j, d, {})
  <2>1. CASE job[j].seen <=> Stored(d)
    <3>1. rows' = [rows EXCEPT ![d] = job[j].docs[d]]
      BY <1>7, <2>1
    <3>2. /\ rows' \in [Docs -> Contents]
          /\ \A e \in Docs : rows'[e] = IF e = d THEN job[j].docs[d] ELSE rows[e]
      BY <1>5, <1>6, <3>1
    <3>3. {} \in SUBSET {d}
      OBVIOUS
    <3> QED  BY <1>1, <1>2, <1>3, <1>5, <1>7, <3>2, <3>3, StoreNextStep
  <2>2. CASE ~(job[j].seen <=> Stored(d))
    <3>1. d \in erased
      BY <1>3, <1>4, <1>7, <2>2 DEF Stored
    <3>2. rows' = rows
      BY <1>6, <1>7, <2>2
    <3>3. {} \in SUBSET {d}
      OBVIOUS
    <3> QED  BY <1>1, <1>2, <1>3, <1>6, <1>7, <3>1, <3>2, <3>3, StoreNextStep
  <2> QED  BY <2>1, <2>2
<1>8. CASE StoreNext(j, d, {d}) /\ UNCHANGED rows
  BY <1>1, <1>2, <1>3, <1>6, <1>8, StoreNextStep
<1> QED  BY <1>7, <1>8 DEF WriteDocument, d

\* A job whose documents are all stored, apart from those it reports.
LEMMA StoredProgress ==
    ASSUME IInv, Keeps, NEW j \in Jobs, NEW x \in Job, job'[j] = x, x.docs = job[j].docs,
           job[j].at \in {"index", "call", "update"},
           x.at \in {"index", "call", "update", "none"},
           x.todo \subseteq job[j].todo, job[j].errors \subseteq x.errors
    PROVE  Progress(j)'
<1>1. DOMAIN job[j].docs \subseteq Docs
  BY MapsType DEF IInv, Typed, Job
<1>2. /\ job[j].todo \subseteq DOMAIN job[j].docs /\ AllKept(job[j].todo)
      /\ AllKept(DOMAIN job[j].docs \ job[j].errors)
  BY DEF IInv, Progress
<1>3. /\ \A d \in x.todo : Kept(d)'
      /\ \A d \in DOMAIN x.docs \ x.errors : Kept(d)'
  BY <1>1, <1>2, KeptStays DEF AllKept
<1> QED  BY <1>2, <1>3 DEF Progress, AllKept

LEMMA StartSubBatchStep ==
    ASSUME IInv, NEW j \in Jobs, StartSubBatch(j)
    PROVE  IInv'
<1>1. PICK S \in SUBSET job[j].todo :
        /\ job' = [job EXCEPT ![j].at = "call", ![j].sub = S, ![j].todo = @ \ S]
        /\ calls' = calls \cup {[job |-> j, try |-> job[j].tries, doc |-> d,
                                 at |-> "upsert"] : d \in S}
  BY DEF StartSubBatch
<1>2. UNCHANGED <<rows, req, erased, wait>>
  BY DEF StartSubBatch, db, queue, history
<1>3. job[j].state = "active" /\ job[j].at = "index"
  BY DEF StartSubBatch, At
<1> DEFINE x == [job[j] EXCEPT !.at = "call", !.sub = S, !.todo = @ \ S]
<1>4. /\ job[j] \in Job /\ DOMAIN job[j].docs \subseteq Docs
      /\ job[j].todo \subseteq DOMAIN job[j].docs /\ AllKept(job[j].todo)
  BY <1>3, MapsType DEF IInv, Typed, Job, Progress
<1>5. S \subseteq Docs /\ job[j].todo \ S \subseteq Docs
  BY <1>4
<1>6. /\ x \in Job /\ x.docs = job[j].docs /\ x.at = "call" /\ x.state = "active"
      /\ x.todo = job[j].todo \ S /\ x.errors = job[j].errors
  BY <1>3, <1>4, <1>5 DEF Job, Stages
<1>7. job' = [job EXCEPT ![j] = x]
  BY <1>1
<1> HIDE DEF x
<1>8. job'[j] = x
  BY <1>7 DEF IInv, Typed
<1>9. Keeps
  BY <1>2, <1>6, <1>7, HandlerKeeps
<1>10. calls' \subseteq IndexCall
  BY <1>1, <1>4, <1>5 DEF IInv, Typed, IndexCall, Job
<1>11. CalledKept'
  <2>1. \A c \in calls : Kept(c.doc)'
    BY <1>9, KeptStays DEF IInv, CalledKept, Typed, IndexCall
  <2>2. \A d \in S : Kept(d)'
    BY <1>4, <1>5, <1>9, KeptStays DEF AllKept
  <2> QED  BY <1>1, <2>1, <2>2 DEF CalledKept
<1>12. Progress(j)'
  BY <1>3, <1>6, <1>8, <1>9, StoredProgress
<1>13. rows' \in [Docs -> Contents]
  BY <1>2 DEF IInv, Typed
<1> QED  BY <1>2, <1>3, <1>6, <1>7, <1>10, <1>11, <1>12, <1>13, HandlerStep

\* The handler goes on, with no more to index than before and no less
\* reported.
LEMMA OnwardStep ==
    ASSUME IInv, NEW j \in Jobs, NEW x \in Job, job' = [job EXCEPT ![j] = x],
           x.docs = job[j].docs, job[j].state = "active",
           job[j].at \in {"index", "call", "update"},
           \/ x.state = "active" /\ x.at \in {"index", "call", "update"}
           \/ x.state = "completed" /\ x.at = "none",
           x.todo = job[j].todo, job[j].errors \subseteq x.errors,
           UNCHANGED <<rows, req, erased, wait>>, calls' \subseteq calls
    PROVE  IInv'
<1>1. Keeps
  BY HandlerKeeps
<1>2. job'[j] = x
  BY DEF IInv, Typed
<1>3. Progress(j)'
  BY <1>1, <1>2, StoredProgress
<1>4. CalledKept' /\ calls' \subseteq IndexCall /\ rows' \in [Docs -> Contents]
  BY <1>1, KeptStays DEF IInv, CalledKept, Typed, IndexCall
<1> QED  BY <1>3, <1>4, HandlerStep

LEMMA NotIndexedStep ==
    ASSUME IInv, NEW j \in Jobs, job[j].state = "active", job[j].at \in {"call", "update"},
           NotIndexed(j), UNCHANGED <<rows, req, erased, wait>>, calls' \subseteq calls
    PROVE  IInv'
<1> DEFINE x == [job[j] EXCEPT !.errors = @ \cup job[j].sub, !.sub = {}, !.at = "index"]
<1>1. job[j] \in Job
  BY DEF IInv, Typed
<1>2. job[j].errors \cup job[j].sub \subseteq Docs
  BY <1>1 DEF Job
<1>3. /\ x \in Job /\ x.docs = job[j].docs /\ x.at = "index" /\ x.state = "active"
      /\ x.todo = job[j].todo /\ x.errors = job[j].errors \cup job[j].sub
  BY <1>1, <1>2 DEF Job, Stages
<1>4. job' = [job EXCEPT ![j] = x]
  BY DEF NotIndexed
<1> HIDE DEF x
<1> QED  BY <1>3, <1>4, OnwardStep

LEMMA CountDocumentsStep ==
    ASSUME IInv, NEW j \in Jobs, CountDocuments(j)
    PROVE  IInv'
<1>1. UNCHANGED <<rows, calls, req, erased, wait>>
  BY DEF CountDocuments, db, queue, history, Fault
<1>2. job[j].state = "active" /\ job[j].at = "call"
  BY DEF CountDocuments, At
<1>3. CASE job' = [job EXCEPT ![j].tally = Total, ![j].at = "update"]
  <2> DEFINE x == [job[j] EXCEPT !.tally = Total, !.at = "update"]
  <2>1. job[j] \in Job
    BY DEF IInv, Typed
  <2>2. /\ x \in Job /\ x.docs = job[j].docs /\ x.at = "update" /\ x.state = "active"
        /\ x.todo = job[j].todo /\ x.errors = job[j].errors
    BY <1>2, <2>1, TotalType DEF Job, Stages
  <2>3. job' = [job EXCEPT ![j] = x]
    BY <1>3
  <2> HIDE DEF x
  <2> QED  BY <1>1, <1>2, <2>2, <2>3, OnwardStep
<1>4. CASE NotIndexed(j)
  BY <1>1, <1>2, <1>4, NotIndexedStep
<1> QED  BY <1>3, <1>4 DEF CountDocuments

LEMMA UpdateCountStep ==
    ASSUME IInv, NEW j \in Jobs, UpdateCount(j)
    PROVE  IInv'
<1>1. UNCHANGED <<rows, calls, req, erased, wait>>
  BY DEF UpdateCount, queue, history, Fault
<1>2. job[j].state = "active" /\ job[j].at = "update"
  BY DEF UpdateCount, At
<1>3. CASE job' = [job EXCEPT ![j].at = "index", ![j].sub = {}, ![j].tally = 0]
  <2> DEFINE x == [job[j] EXCEPT !.at = "index", !.sub = {}, !.tally = 0]
  <2>1. job[j] \in Job
    BY DEF IInv, Typed
  <2>2. /\ x \in Job /\ x.docs = job[j].docs /\ x.at = "index" /\ x.state = "active"
        /\ x.todo = job[j].todo /\ x.errors = job[j].errors
    BY <1>2, <2>1 DEF Job, Stages
  <2>3. job' = [job EXCEPT ![j] = x]
    BY <1>3
  <2> HIDE DEF x
  <2> QED  BY <1>1, <1>2, <2>2, <2>3, OnwardStep
<1>4. CASE NotIndexed(j)
  BY <1>1, <1>2, <1>4, NotIndexedStep
<1> QED  BY <1>3, <1>4 DEF UpdateCount

LEMMA CompleteStep ==
    ASSUME IInv, NEW j \in Jobs, Complete(j)
    PROVE  IInv'
<1> DEFINE x == [job[j] EXCEPT !.state = "completed", !.at = "none"]
<1>1. UNCHANGED <<rows, calls, req, erased, wait>>
  BY DEF Complete, db, queue, history
<1>2. job[j].state = "active" /\ job[j].at = "index"
  BY DEF Complete, At
<1>3. job[j] \in Job
  BY DEF IInv, Typed
<1>4. /\ x \in Job /\ x.docs = job[j].docs /\ x.at = "none" /\ x.state = "completed"
      /\ x.todo = job[j].todo /\ x.errors = job[j].errors
  BY <1>3 DEF Job, Stages, States
<1>5. job' = [job EXCEPT ![j] = x]
  BY DEF Complete
<1> HIDE DEF x
<1> QED  BY <1>1, <1>2, <1>4, <1>5, OnwardStep

LEMMA HandleStep ==
    ASSUME IInv, NEW j \in Jobs, Handle(j)
    PROVE  IInv'
  BY CheckJobStep, SelectExistingStep, WriteDocumentStep, StartSubBatchStep,
     CountDocumentsStep, UpdateCountStep, CompleteStep DEF Handle

-------------------------------------------------------------------------------
(* The calls of IndexingService.indexDocument.                             *)

LEMMA RejectStep ==
    ASSUME IInv, NEW c \in calls, Reject(c), UNCHANGED <<rows, req, erased, wait>>
    PROVE  IInv'
<1>1. c.job \in Jobs /\ job[c.job] \in Job /\ job = [j \in Jobs |-> job[j]]
  BY DEF IInv, Typed, IndexCall
<1>2. CASE Awaited(c)
  <2>1. job[c.job].state = "active" /\ job[c.job].at = "call"
    BY <1>2 DEF Awaited, At
  <2> QED  BY <1>1, <1>2, <2>1, NotIndexedStep DEF Reject
<1>3. CASE UNCHANGED job /\ calls' = calls \ {c}
  <2>1. Keeps
    BY <1>3 DEF Keeps
  <2>2. Typed' /\ CalledKept'
    BY <1>3, <2>1, KeptStays DEF IInv, Typed, CalledKept, IndexCall
  <2>3. Numbered' /\ Queued'
    BY <1>3, SameOnward, NumbersStay, QueueStays DEF IInv, Queued, Running
  <2>4. AllReal' /\ NoBlankRows'
    BY <1>3 DEF IInv, AllReal, Real, NoBlankRows
  <2>5. \A j \in Jobs : Progress(j)'
    BY <1>3, <2>1, AsideProgress DEF Aside
  <2> QED  BY <2>2, <2>3, <2>4, <2>5 DEF IInv
<1> QED  BY <1>2, <1>3 DEF Reject

\* A call that goes on.
LEMMA AdvanceStep ==
    ASSUME IInv, NEW c \in calls, NEW label \in {"read", "save", "confirm"},
           Advance(c, label) \/ calls' = calls \ {c},
           rows' \in [Docs -> Contents],
           \A d \in Docs : rows'[d] = rows[d] \/ d \in erased,
           UNCHANGED <<job, req, erased, wait>>
    PROVE  IInv'
<1>1. Keeps
  BY DEF Keeps
<1>2. c \in IndexCall
  BY DEF IInv, Typed
<1>3. [c EXCEPT !.at = label] \in IndexCall /\ [c EXCEPT !.at = label].doc = c.doc
  BY <1>2 DEF IndexCall
<1>4. calls' \subseteq IndexCall /\ \A b \in calls' : b \in calls \/ b.doc = c.doc
  BY <1>3 DEF IInv, Typed, Advance
<1>5. Typed'
  BY <1>4 DEF IInv, Typed
<1>6. CalledKept'
  <2>1. \A b \in calls : Kept(b.doc)'
    BY <1>1, KeptStays DEF IInv, CalledKept, Typed, IndexCall
  <2> QED  BY <1>4, <2>1 DEF CalledKept
<1>7. Numbered' /\ Queued'
  BY SameOnward, NumbersStay, QueueStays DEF IInv, Queued, Running
<1>8. AllReal' /\ NoBlankRows'
  BY <1>1, NoBlankRowsStays DEF IInv, AllReal, Real
<1>9. \A j \in Jobs : Progress(j)'
  BY <1>1, AsideProgress DEF Aside
<1> QED  BY <1>5, <1>6, <1>7, <1>8, <1>9 DEF IInv

LEMMA CallStep ==
    ASSUME IInv, NEW c \in calls, Call(c)
    PROVE  IInv'
<1> USE DEF db, queue, history, Fault
<1>1. rows \in [Docs -> Contents] /\ c.doc \in Docs
  BY DEF IInv, Typed, IndexCall
<1>2. CASE UpsertVector(c)
  <2>1. UNCHANGED <<req, erased, wait>>
    BY <1>2 DEF UpsertVector
  <2>2. CASE /\ rows' = [rows EXCEPT ![c.doc] = IF Stored(c.doc) THEN @ ELSE Blank]
             /\ Advance(c, "read") /\ UNCHANGED job
    <3>1. ~Stored(c.doc) => c.doc \in erased
      BY SentIsReal DEF IInv, CalledKept, Kept, Stored
    <3>2. rows' \in [Docs -> Contents] /\ \A d \in Docs : rows'[d] = rows[d] \/ d \in erased
      BY <1>1, <2>2, <3>1, Names
    <3> QED  BY <2>1, <2>2, <3>2, AdvanceStep
  <2>3. CASE Reject(c) /\ UNCHANGED rows
    BY <2>1, <2>3, RejectStep
  <2> QED  BY <1>2, <2>2, <2>3 DEF UpsertVector
<1>3. CASE ReadIndex(c)
  <2>1. UNCHANGED <<rows, req, erased, wait>>
    BY <1>3 DEF ReadIndex
  <2>2. CASE UNCHANGED job /\ (Advance(c, "save") \/ calls' = calls \ {c})
    BY <1>1, <2>1, <2>2, AdvanceStep
  <2>3. CASE Reject(c)
    BY <2>1, <2>3, RejectStep
  <2> QED  BY <1>3, <2>2, <2>3 DEF ReadIndex
<1>4. CASE SaveIndex(c)
  <2>1. UNCHANGED <<rows, req, erased, wait>>
    BY <1>4 DEF SaveIndex
  <2>2. CASE UNCHANGED job /\ Advance(c, "confirm")
    BY <1>1, <2>1, <2>2, AdvanceStep
  <2>3. CASE Reject(c)
    BY <2>1, <2>3, RejectStep
  <2> QED  BY <1>4, <2>2, <2>3 DEF SaveIndex
<1>5. CASE ConfirmIndex(c)
  <2>1. UNCHANGED <<rows, req, erased, wait>>
    BY <1>5 DEF ConfirmIndex
  <2>2. CASE UNCHANGED job /\ calls' = calls \ {c}
    BY <1>1, <2>1, <2>2, AdvanceStep
  <2>3. CASE Reject(c)
    BY <2>1, <2>3, RejectStep
  <2> QED  BY <1>5, <2>2, <2>3 DEF ConfirmIndex
<1> QED  BY <1>2, <1>3, <1>4, <1>5 DEF Call

-------------------------------------------------------------------------------
(* The queue and its administration.                                       *)

LEMMA JobsStep ==
    ASSUME IInv, job' \in [Jobs -> Job], req' \in [Requests -> Request],
           \A r \in Requests : /\ req'[r].op = req[r].op /\ req'[r].docs = req[r].docs
                               /\ Real(req'[r].left) /\ Onward(r, req'[r]),
           UNCHANGED <<rows, erased>>, calls' \subseteq calls,
           \A j \in Jobs : /\ job'[j].docs = job[j].docs
                           /\ job'[j].state = "none" <=> job[j].state = "none"
                           /\ Aside(j) \/ Progress(j)',
           Queued'
    PROVE  IInv'
<1>1. Keeps
  BY DEF Keeps
<1>2. Typed' /\ CalledKept'
  BY <1>1, KeptStays DEF IInv, Typed, CalledKept, IndexCall
<1>3. Numbered'
  BY NumbersStay DEF IInv
<1>4. AllReal' /\ NoBlankRows'
  BY DEF IInv, AllReal, Real, NoBlankRows
<1>5. \A j \in Jobs : Progress(j)'
  BY <1>1, AsideProgress
<1> QED  BY <1>2, <1>3, <1>4, <1>5 DEF IInv

\* Requests as they were.
LEMMA SameRequests ==
    ASSUME IInv, UNCHANGED <<req, erased>>
    PROVE  /\ req' \in [Requests -> Request]
           /\ \A r \in Requests : /\ req'[r].op = req[r].op /\ req'[r].docs = req[r].docs
                                  /\ Real(req'[r].left) /\ Onward(r, req'[r])
  BY SameOnward DEF IInv, Typed, AllReal

LEMMA WaitType ==
    ASSUME IInv
    PROVE  /\ wait \in Seq(Jobs) /\ DOMAIN wait = 1 .. Len(wait) /\ Len(wait) \in Nat
           /\ \A i \in DOMAIN wait : wait[i] \in Jobs /\ job[wait[i]].state = "waiting"
           /\ \A i, k \in DOMAIN wait : wait[i] = wait[k] => i = k
  BY LenProperties DEF IInv, Queued

LEMMA FetchStep ==
    ASSUME IInv, Fetch
    PROVE  IInv'
<1>0. PICK j : j = Head(wait)
  OBVIOUS
<1> DEFINE x == [job[j] EXCEPT !.state = "active", !.tries = @ + 1, !.at = "check",
                               !.todo = DOMAIN job[j].docs, !.errors = {}, !.sub = {}]
<1>1. /\ UNCHANGED <<rows, calls, req, erased>> /\ wait # <<>> /\ wait' = Tail(wait)
      /\ job' = [job EXCEPT ![j] = x]
  BY <1>0 DEF Fetch, db, history
<1>2. /\ wait' \in Seq(Jobs) /\ Len(wait') = Len(wait) - 1
      /\ \A i \in 1 .. Len(wait') : wait'[i] = wait[i + 1]
      /\ Len(wait) \in Nat \ {0} /\ j = wait[1]
  BY <1>0, <1>1, WaitType, HeadTailProperties, EmptySeq
<1>3. j \in Jobs /\ job[j] \in Job /\ job[j].state = "waiting"
  BY <1>2, WaitType DEF IInv, Typed
<1>4. /\ x \in Job /\ x.docs = job[j].docs /\ x.at = "check" /\ x.state = "active"
      /\ x.todo = DOMAIN job[j].docs
  <2>1. DOMAIN job[j].docs \subseteq Docs /\ job[j].tries + 1 \in Nat
    BY <1>3, MapsType DEF Job
  <2> QED  BY <1>3, <2>1 DEF Job, States, Stages
<1> HIDE DEF x
<1>5. job' \in [Jobs -> Job] /\ \A k \in Jobs : job'[k] = IF k = j THEN x ELSE job[k]
  BY <1>1, <1>3, <1>4 DEF IInv, Typed
<1>6. Queued'
  <2>1. DOMAIN wait' = 1 .. Len(wait')
    BY <1>2, LenProperties
  <2>2. \A i \in DOMAIN wait' : /\ i + 1 \in DOMAIN wait /\ wait'[i] = wait[i + 1]
                                /\ wait'[i] # j
    BY <1>2, <2>1, WaitType
  <2>3. \A i \in DOMAIN wait' : job'[wait'[i]].state = "waiting"
    BY <1>5, <2>2, WaitType
  <2>4. \A i, k \in DOMAIN wait' : wait'[i] = wait'[k] => i = k
    BY <1>2, <2>1, <2>2, WaitType
  <2>5. \A k \in Jobs : job'[k].at # "none" => job'[k].state = "active"
    BY <1>4, <1>5 DEF IInv, Queued, Running
  <2> QED  BY <1>2, <2>3, <2>4, <2>5 DEF Queued, Running
<1>7. \A k \in Jobs \ {j} : Aside(k)
  BY <1>5 DEF Aside
<1>8. Progress(j)'
  BY <1>3, <1>4, <1>5 DEF Progress
<1>9. \A k \in Jobs : /\ job'[k].docs = job[k].docs
                      /\ job'[k].state = "none" <=> job[k].state = "none"
  BY <1>3, <1>4, <1>5
<1> QED  BY <1>1, <1>5, <1>6, <1>7, <1>8, <1>9, SameRequests, JobsStep

\* A job that enters the list.
LEMMA EnqueuedOnce ==
    ASSUME IInv, NEW j \in Jobs, job[j].state # "waiting",
           wait' = Append(wait, j) \/ wait' = <<j>> \o wait,
           \A k \in Jobs \ {j} : /\ job'[k].state = job[k].state /\ job'[k].at = job[k].at,
           job'[j].state = "waiting", job'[j].at = "none"
    PROVE  Queued'
<1>1. \A k \in Jobs : job'[k].at # "none" => job'[k].state = "active"
  BY DEF IInv, Queued, Running
<1>2. \A i \in DOMAIN wait : wait[i] # j
  BY WaitType
<1>3. CASE wait' = Append(wait, j)
  <2>1. /\ wait' \in Seq(Jobs) /\ Len(wait') = Len(wait) + 1 /\ wait'[Len(wait) + 1] = j
        /\ \A i \in 1 .. Len(wait) : wait'[i] = wait[i]
    BY <1>3, WaitType, AppendProperties
  <2>2. DOMAIN wait' = 1 .. Len(wait) + 1
    BY <2>1, LenProperties
  <2>3. \A i \in DOMAIN wait' : \/ i \in DOMAIN wait /\ wait'[i] = wait[i]
                                \/ i = Len(wait) + 1 /\ wait'[i] = j
    BY <2>1, <2>2, WaitType
  <2>4. \A i \in DOMAIN wait' : job'[wait'[i]].state = "waiting"
    BY <1>2, <2>3, WaitType
  <2>5. \A i, k \in DOMAIN wait' : wait'[i] = wait'[k] => i = k
    BY <1>2, <2>3, WaitType
  <2> QED  BY <1>1, <2>1, <2>4, <2>5 DEF Queued, Running
<1>4. CASE wait' = <<j>> \o wait
  <2>1. <<j>> \in Seq(Jobs) /\ Len(<<j>>) = 1 /\ <<j>>[1] = j
    OBVIOUS
  <2> DEFINE s == <<j>>
  <2>2. s \in Seq(Jobs) /\ Len(s) = 1 /\ s[1] = j /\ wait' = s \o wait
    BY <1>4, <2>1
  <2> HIDE DEF s
  <2>3. /\ s \o wait \in Seq(Jobs) /\ Len(s \o wait) = Len(s) + Len(wait)
        /\ \A i \in 1 .. Len(s) + Len(wait) :
              (s \o wait)[i] = IF i <= Len(s) THEN s[i] ELSE wait[i - Len(s)]
    BY <2>2, WaitType, ConcatProperties
  <2>4. /\ wait' \in Seq(Jobs) /\ Len(wait') = Len(s) + Len(wait)
        /\ \A i \in 1 .. Len(s) + Len(wait) :
              wait'[i] = IF i <= Len(s) THEN s[i] ELSE wait[i - Len(s)]
    BY <2>2, <2>3, Zenon
  <2>5. DOMAIN wait' = 1 .. 1 + Len(wait)
    BY <2>2, <2>4, LenProperties
  <2>6. \A i \in DOMAIN wait' : \/ i = 1 /\ wait'[i] = j
                                \/ i - 1 \in DOMAIN wait /\ wait'[i] = wait[i - 1]
    BY <2>2, <2>4, <2>5, WaitType
  <2>7. \A i \in DOMAIN wait' : job'[wait'[i]].state = "waiting"
    <3>1. \A i \in DOMAIN wait : job'[wait[i]].state = "waiting"
      BY <1>2, WaitType
    <3> QED  BY <2>6, <3>1
  <2>8. \A i, k \in DOMAIN wait' : wait'[i] = wait'[k] => i = k
    <3>1. \A i \in DOMAIN wait' : i \in Int
      BY <2>5
    <3> QED  BY <1>2, <2>6, <3>1, WaitType
  <2> QED  BY <1>1, <2>4, <2>7, <2>8 DEF Queued, Running
<1> QED  BY <1>3, <1>4

LEMMA PromoteStep ==
    ASSUME IInv, NEW j \in Jobs, Promote(j)
    PROVE  IInv'
<1> DEFINE x == [job[j] EXCEPT !.state = "waiting"]
<1>1. UNCHANGED <<rows, calls, req, erased>> /\ wait' = Append(wait, j)
  BY DEF Promote, db, history
<1>2. job[j].state = "delayed" /\ job[j].at = "none" /\ job[j] \in Job
  BY DEF Promote, IInv, Typed, Queued, Running
<1>3. x \in Job /\ x.docs = job[j].docs /\ x.state = "waiting" /\ x.at = "none"
  BY <1>2 DEF Job, States
<1>4. job' = [job EXCEPT ![j] = x]
  BY DEF Promote
<1> HIDE DEF x
<1>5. job' \in [Jobs -> Job] /\ \A k \in Jobs : job'[k] = IF k = j THEN x ELSE job[k]
  BY <1>3, <1>4 DEF IInv, Typed
<1>6. Queued'
  BY <1>1, <1>2, <1>3, <1>5, EnqueuedOnce
<1>7. \A k \in Jobs : /\ job'[k].docs = job[k].docs /\ Aside(k)
                      /\ job'[k].state = "none" <=> job[k].state = "none"
  BY <1>2, <1>3, <1>5 DEF Aside
<1> QED  BY <1>1, <1>5, <1>6, <1>7, SameRequests, JobsStep

LEMMA StalledStep ==
    ASSUME IInv, NEW j \in Jobs, Stalled(j)
    PROVE  IInv'
<1>1. UNCHANGED <<rows, calls, req, erased>>
  BY DEF Stalled, db, history
<1>2. job[j].state = "active" /\ job[j].at = "none" /\ job[j] \in Job
  BY DEF Stalled, At, IInv, Typed
<1>3. CASE /\ job' = [job EXCEPT ![j].state = "waiting", ![j].stalls = @ + 1]
           /\ wait' = <<j>> \o wait
  <2> DEFINE x == [job[j] EXCEPT !.state = "waiting", !.stalls = @ + 1]
  <2>1. x \in Job /\ x.docs = job[j].docs /\ x.state = "waiting" /\ x.at = "none"
    <3>1. job[j].stalls + 1 \in Nat
      BY <1>2 DEF Job
    <3> QED  BY <1>2, <3>1 DEF Job, States
  <2>2. job' = [job EXCEPT ![j] = x]
    BY <1>3
  <2> HIDE DEF x
  <2>3. job' \in [Jobs -> Job] /\ \A k \in Jobs : job'[k] = IF k = j THEN x ELSE job[k]
    BY <2>1, <2>2 DEF IInv, Typed
  <2>4. Queued'
    BY <1>2, <1>3, <2>1, <2>3, EnqueuedOnce
  <2>5. \A k \in Jobs : /\ job'[k].docs = job[k].docs /\ Aside(k)
                        /\ job'[k].state = "none" <=> job[k].state = "none"
    BY <1>2, <2>1, <2>3 DEF Aside
  <2> QED  BY <1>1, <2>3, <2>4, <2>5, SameRequests, JobsStep
<1>4. CASE job' = [job EXCEPT ![j].state = "failed"] /\ UNCHANGED wait
  <2> DEFINE x == [job[j] EXCEPT !.state = "failed"]
  <2>1. x \in Job /\ x.docs = job[j].docs /\ x.state = "failed" /\ x.at = "none"
    BY <1>2 DEF Job, States
  <2>2. job' = [job EXCEPT ![j] = x]
    BY <1>4
  <2> HIDE DEF x
  <2>3. job' \in [Jobs -> Job] /\ \A k \in Jobs : job'[k] = IF k = j THEN x ELSE job[k]
    BY <2>1, <2>2 DEF IInv, Typed
  <2>4. Queued'
    <3>1. \A k \in Jobs : /\ job[k].state = "waiting" => job'[k].state = "waiting"
                          /\ Running(k)' => job'[k].state = "active"
      BY <1>2, <2>1, <2>3 DEF IInv, Queued, Running
    <3> QED  BY <1>4, <3>1, QueueStays DEF IInv
  <2>5. \A k \in Jobs : /\ job'[k].docs = job[k].docs /\ Aside(k)
                        /\ job'[k].state = "none" <=> job[k].state = "none"
    BY <1>2, <2>1, <2>3 DEF Aside
  <2> QED  BY <1>1, <2>3, <2>4, <2>5, SameRequests, JobsStep
<1> QED  BY <1>3, <1>4 DEF Stalled

\* cleanQueue takes jobs away that no handler has and that do not wait.
LEMMA RemovedStep ==
    ASSUME IInv, NEW r \in Requests, NEW label \in Places \ (Early \cup {"add"}),
           Answer(r, label), NEW S \in SUBSET Jobs,
           \A j \in S : ~Running(j) /\ job[j].state \in {"active", "delayed"},
           job' = [j \in Jobs |-> IF j \in S THEN [job[j] EXCEPT !.state = "removed"] ELSE job[j]],
           UNCHANGED <<rows, calls, wait, erased>>
    PROVE  IInv'
<1>1. \A j \in Jobs : job[j] \in Job
  BY DEF IInv, Typed
<1>2. \A j \in S : LET y == [job[j] EXCEPT !.state = "removed"]
                   IN  y \in Job /\ y.docs = job[j].docs /\ y.at = "none" /\ y.state = "removed"
  BY <1>1 DEF Job, States, Running
<1>3. /\ job' \in [Jobs -> Job]
      /\ \A j \in S : job'[j].docs = job[j].docs /\ job'[j].at = "none" /\ job'[j].state = "removed"
      /\ \A j \in Jobs \ S : job'[j] = job[j]
  BY <1>1, <1>2
<1>4. Queued'
  <2>1. \A j \in Jobs : /\ job[j].state = "waiting" => job'[j].state = "waiting"
                        /\ Running(j)' => job'[j].state = "active"
    BY <1>3 DEF IInv, Queued, Running
  <2> QED  BY <2>1, QueueStays DEF IInv
<1>5. \A j \in Jobs : /\ job'[j].docs = job[j].docs /\ Aside(j)
                      /\ job'[j].state = "none" <=> job[j].state = "none"
  BY <1>3 DEF Aside
<1> DEFINE x == [req[r] EXCEPT !.at = label]
<1>6. x \in Request /\ x.op = req[r].op /\ x.docs = req[r].docs /\ Real(x.left) /\ Onward(r, x)
  BY DEF IInv, Typed, AllReal, Request, Onward
<1>7. req' = [req EXCEPT ![r] = x]
  BY DEF Answer
<1> HIDE DEF x
<1>8. /\ req' \in [Requests -> Request]
      /\ \A s \in Requests : /\ req'[s].op = req[s].op /\ req'[s].docs = req[s].docs
                             /\ Real(req'[s].left) /\ Onward(s, req'[s])
  BY <1>6, <1>7, RequestTyped
<1> QED  BY <1>3, <1>4, <1>5, <1>8, JobsStep

LEMMA CleanActiveStep ==
    ASSUME IInv, NEW r \in Requests, CleanActive(r)
    PROVE  IInv'
<1>1. PICK S \in SUBSET {j \in Jobs : At(j, "none")} :
         job' = [j \in Jobs |-> IF j \in S THEN [job[j] EXCEPT !.state = "removed"] ELSE job[j]]
  BY DEF CleanActive
<1>2. S \in SUBSET Jobs /\ \A j \in S : ~Running(j) /\ job[j].state \in {"active", "delayed"}
  BY DEF At, Running
<1>3. /\ Answer(r, "delayed") /\ "delayed" \in Places \ (Early \cup {"add"})
      /\ UNCHANGED <<rows, calls, wait, erased>>
  BY DEF CleanActive, db, queue, history, Places, Early
<1> QED  BY <1>1, <1>2, <1>3, RemovedStep

LEMMA CleanDelayedStep ==
    ASSUME IInv, NEW r \in Requests, CleanDelayed(r)
    PROVE  IInv'
<1> DEFINE S == {j \in Jobs : job[j].state = "delayed"}
<1>1. job' = [j \in Jobs |-> IF j \in S THEN [job[j] EXCEPT !.state = "removed"] ELSE job[j]]
  BY DEF CleanDelayed
<1>2. S \in SUBSET Jobs /\ \A j \in S : ~Running(j) /\ job[j].state \in {"active", "delayed"}
  BY DEF IInv, Queued
<1>3. /\ Answer(r, "list") /\ "list" \in Places \ (Early \cup {"add"})
      /\ UNCHANGED <<rows, calls, wait, erased>>
  BY DEF CleanDelayed, db, queue, history, Places, Early
<1> HIDE DEF S
<1> QED  BY <1>1, <1>2, <1>3, RemovedStep

-------------------------------------------------------------------------------
(* The requests.                                                           *)

\* A step of a request that leaves the queue and its handlers alone.
LEMMA RowsStep ==
    ASSUME IInv, NEW r \in Requests, NEW x \in Request, req' = [req EXCEPT ![r] = x],
           x.op = req[r].op, x.docs = req[r].docs, Real(x.left), Onward(r, x),
           UNCHANGED <<job, wait, calls>>, erased \subseteq erased',
           rows' \in [Docs -> Contents],
           \A d \in Docs : rows'[d] = rows[d] \/ rows'[d] \in Sent(d) \/ d \in erased'
    PROVE  IInv'
<1>1. /\ req' \in [Requests -> Request]
      /\ \A s \in Requests : /\ req'[s].op = req[s].op /\ req'[s].docs = req[s].docs
                             /\ Real(req'[s].left) /\ Onward(s, req'[s])
  BY RequestTyped
<1>2. Keeps
  BY <1>1 DEF Keeps
<1>3. Typed'
  BY <1>1 DEF IInv, Typed
<1>4. Numbered' /\ Queued'
  BY <1>1, NumbersStay, QueueStays DEF IInv, Queued, Running
<1>5. AllReal'
  BY <1>1, <1>2, RealStays DEF IInv, AllReal
<1>6. NoBlankRows'
  BY <1>2, NoBlankRowsStays DEF IInv
<1>7. CalledKept'
  BY <1>2, KeptStays DEF IInv, CalledKept, Typed, IndexCall
<1>8. \A j \in Jobs : Progress(j)'
  BY <1>2, AsideProgress DEF Aside
<1> QED  BY <1>3, <1>4, <1>5, <1>6, <1>7, <1>8 DEF IInv

\* ... that is answered or goes on.
LEMMA AnswerStep ==
    ASSUME IInv, NEW r \in Requests, NEW label \in Places, Answer(r, label),
           label # "add", label \in Early => req[r].at \in Early,
           UNCHANGED <<job, wait, calls>>, erased \subseteq erased',
           rows' \in [Docs -> Contents],
           \A d \in Docs : rows'[d] = rows[d] \/ rows'[d] \in Sent(d) \/ d \in erased'
    PROVE  IInv'
<1> DEFINE x == [req[r] EXCEPT !.at = label]
<1>1. x \in Request /\ x.op = req[r].op /\ x.docs = req[r].docs /\ Real(x.left) /\ x.at = label
  BY DEF IInv, Typed, AllReal, Request
<1>2. req' = [req EXCEPT ![r] = x]
  BY DEF Answer
<1> HIDE DEF x
<1>3. Onward(r, x)
  BY <1>1 DEF Onward
<1> QED  BY <1>1, <1>2, <1>3, RowsStep

\* Answers that change nothing else of what the invariant is about.
LEMMA QuietAnswerStep ==
    ASSUME IInv, NEW r \in Requests, NEW label \in Places, Answer(r, label),
           label # "add", label \in Early => req[r].at \in Early,
           UNCHANGED <<rows, job, wait, calls, erased>>
    PROVE  IInv'
  BY AnswerStep DEF IInv, Typed

LEMMA QueueBulkIndexingStep ==
    ASSUME IInv, NEW r \in Requests, NEW docs \in DocMaps, Real(docs), req[r].at \in Early,
           QueueBulkIndexing(r, docs), UNCHANGED <<rows, job, wait, calls, erased>>
    PROVE  IInv'
<1> DEFINE l == CASE ~exists -> "failed" [] exists /\ docs = NoDocs -> "ok" [] OTHER -> "add"
           left == IF exists THEN docs ELSE NoDocs
           x == [req[r] EXCEPT !.at = l, !.left = left]
<1>1. /\ l \in Places \ Early /\ left \in DocMaps /\ Real(left)
      /\ l = "add" => DOMAIN left \in (SUBSET Docs) \ {{}}
  <2>1. docs # NoDocs => DOMAIN docs # {}
    BY DEF DocMaps, NoDocs
  <2> QED  BY <2>1, MapsType DEF Places, Early, Real
<1>2. req' = [req EXCEPT ![r] = x]
  <2>1. req' = [req EXCEPT ![r].at = l, ![r].left = left]
    BY Zenon DEF QueueBulkIndexing
  <2> HIDE DEF l, left
  <2> QED  BY <2>1
<1> HIDE DEF l, left
<1>3. /\ x \in Request /\ x.op = req[r].op /\ x.docs = req[r].docs /\ x.left = left
      /\ x.at = l
  BY <1>1 DEF IInv, Typed, Request
<1> HIDE DEF x
<1>4. Onward(r, x)
  BY <1>1, <1>3 DEF Onward
<1> QED  BY <1>1, <1>2, <1>3, <1>4, RequestStep

\* What a bulk request brings.
LEMMA SentByType ==
    ASSUME IInv, NEW r \in Requests
    PROVE  SentBy(r) \in DocMaps /\ Real(SentBy(r))
<1>1. req[r].docs \in SUBSET Docs /\ r \in Contents /\ r \notin {Absent, Blank}
  BY Names DEF IInv, Typed, Request
<1>2. SentBy(r) \in [req[r].docs -> Contents]
  BY <1>1 DEF SentBy
<1> QED  BY <1>1, <1>2, MapsType DEF SentBy, Real

\* The documents that a rebuild reads.
LEMMA SnapshotStep ==
    ASSUME IInv, NEW r \in Requests, Snapshot(r)
    PROVE  IInv'
<1> DEFINE read == Without(rows, {d \in Docs : ~Stored(d)})
           l == IF read = NoDocs THEN "ok" ELSE "queue"
           x == [req[r] EXCEPT !.at = l, !.left = read]
<1>1. rows \in DocMaps /\ DOMAIN rows = Docs
  BY MapsType DEF IInv, Typed
<1>2. read \in DocMaps /\ Real(read)
  <2>1. /\ read \in DocMaps /\ DOMAIN read = {d \in Docs : Stored(d)}
        /\ \A d \in {e \in Docs : Stored(e)} : read[d] = rows[d]
    <3>1. Docs \ {d \in Docs : ~Stored(d)} = {d \in Docs : Stored(d)}
      OBVIOUS
    <3> QED  BY <1>1, <3>1, WithoutType
  <2> HIDE DEF read
  <2> QED  BY <2>1 DEF IInv, NoBlankRows, Real, Stored
<1>3. l \in Places \ {"add"}
  BY DEF Places
<1>4. req[r].at \in Early
  BY DEF Snapshot, Ask, Early
<1>5. req' = [req EXCEPT ![r] = x] /\ UNCHANGED <<rows, job, wait, calls, erased>>
  BY DEF Snapshot, db, queue, history
<1> HIDE DEF l, read
<1>6. x \in Request /\ x.op = req[r].op /\ x.docs = req[r].docs /\ x.left = read /\ x.at = l
  BY <1>2, <1>3 DEF IInv, Typed, Request
<1> HIDE DEF x
<1>7. Onward(r, x)
  BY <1>3, <1>6, <1>4 DEF Onward, Early
<1> QED  BY <1>2, <1>5, <1>6, <1>7, RequestStep

LEMMA RowsChangeStep ==
    ASSUME IInv, NEW r \in Requests,
           ClearIndex(r) \/ Write(r) \/ EraseDocument(r) \/ DropIndex(r)
    PROVE  IInv'
<1> USE Names DEF Places, Early, Ask, history, queue, Erase
<1>1. rows \in [Docs -> Contents]
  BY DEF IInv, Typed
<1>2. CASE ClearIndex(r)
  <2>1. /\ rows' \in [Docs -> Contents] /\ \A d \in Docs : d \in erased'
        /\ erased \subseteq erased' /\ UNCHANGED <<job, wait, calls>>
    BY <1>2 DEF ClearIndex
  <2>2. Answer(r, "verify") /\ "verify" \in Places /\ req[r].at \in Early
    BY <1>2 DEF ClearIndex
  <2> QED  BY <2>1, <2>2, AnswerStep
<1>3. CASE Write(r)
  <2>1. UNCHANGED <<job, wait, calls, erased>>
    BY <1>3 DEF Write
  <2>2. \A d \in req[r].docs : r \in Sent(d)
    BY <1>3 DEF Write, Sent
  <2>3. rows' \in [Docs -> Contents] /\ \A d \in Docs : rows'[d] = rows[d] \/ rows'[d] \in Sent(d)
    BY <1>1, <1>3, <2>2 DEF Write
  <2>4. \E l \in {"ok", "failed"} : Answer(r, l)
    BY <1>3 DEF Write
  <2> QED  BY <2>1, <2>3, <2>4, AnswerStep
<1>4. CASE EraseDocument(r)
  <2>1. /\ rows' \in [Docs -> Contents] /\ \A d \in Docs : rows'[d] = rows[d] \/ d \in erased'
        /\ erased \subseteq erased' /\ UNCHANGED <<job, wait, calls>>
    BY <1>1, <1>4 DEF EraseDocument
  <2>2. Answer(r, "ok") /\ "ok" \in Places
    BY <1>4 DEF EraseDocument
  <2> QED  BY <2>1, <2>2, AnswerStep
<1>5. CASE DropIndex(r)
  <2>1. /\ rows' \in [Docs -> Contents] /\ \A d \in Docs : d \in erased'
        /\ erased \subseteq erased' /\ UNCHANGED <<job, wait, calls>>
    BY <1>5 DEF DropIndex
  <2>2. Answer(r, "ok") /\ "ok" \in Places
    BY <1>5 DEF DropIndex
  <2> QED  BY <2>1, <2>2, AnswerStep
<1> QED  BY <1>2, <1>3, <1>4, <1>5

\* The next batch gets a number of its own, and there are enough of them.
LEMMA AddStep ==
    ASSUME IInv, NEW r \in Requests, Add(r)
    PROVE  IInv'
<1>1. UNCHANGED <<rows, calls, erased>> /\ req[r].at = "add"
  BY DEF Add, Ask, db, history, Fault
<1>2. CASE Answer(r, "failed") /\ UNCHANGED <<job, wait>>
  <2>1. "failed" \in Places /\ "failed" \notin Early
    BY DEF Places, Early
  <2> QED  BY <1>1, <1>2, <2>1, QuietAnswerStep
<1>3. ASSUME NEW chunk \in SUBSET DOMAIN req[r].left, NEW next, next = Without(req[r].left, chunk),
             NEW b, b = 1 + Cardinality({k \in Jobs : k[1] = r /\ job[k].state # "none"}),
             NEW j, j = <<r, b>>,
             \/ Cardinality(chunk) = BatchSize
             \/ next = NoDocs /\ Cardinality(chunk) < BatchSize,
             job' = [job EXCEPT ![j].state = "waiting",
                                ![j].docs = Without(req[r].left, DOMAIN next)],
             wait' = Append(wait, j),
             req' = [req EXCEPT ![r].left = next,
                                ![r].at = IF next = NoDocs THEN "ok" ELSE "add"]
      PROVE  IInv'
  <2> DEFINE B == BatchSize  D == Cardinality(Docs)  C == Cardinality(DOMAIN req[r].left)
             batch == Without(req[r].left, DOMAIN next)
             l == IF next = NoDocs THEN "ok" ELSE "add"
  <2>1. /\ req[r].left \in DocMaps /\ Real(req[r].left) /\ DOMAIN req[r].left \subseteq Docs
        /\ req[r] \in Request
    BY MapsType DEF IInv, Typed, Request, AllReal
  <2>2. PICK n \in Nat : AddedFirst(r, n) /\ Room(r, n)
    BY DEF IInv, Numbered
  <2>3. /\ B \in Nat \ {0} /\ D \in Nat /\ C \in Nat \ {0} /\ n * B + C <= D
        /\ IsFiniteSet(DOMAIN req[r].left)
    <3>1. IsFiniteSet(Docs) /\ B \in Nat \ {0}
      BY BulkAssumption
    <3>2. IsFiniteSet(DOMAIN req[r].left) /\ D \in Nat /\ C \in Nat
      BY <2>1, <3>1, FS_Subset, FS_CardinalityType
    <3>3. C # 0
      BY <1>1, <2>2, <3>2, FS_EmptySet DEF Room
    <3> QED  BY <1>1, <2>2, <3>1, <3>2, <3>3 DEF Room
  <2>4. b = n + 1 /\ b \in Batches /\ n * B \in Nat
    <3> HIDE DEF B, D, C
    <3>1. n * B \in Nat
      BY <2>3
    <3>2. n * B + 1 <= D
      BY <2>3, <3>1
    <3>3. n + 1 <= (D + B - 1) \div B
      <4>1. (n + 1) * B = n * B + B
        BY <2>3
      <4>2. (n + 1) * B <= D + B - 1
        BY <2>3, <3>1, <3>2, <4>1
      <4>3. \A p, q \in Nat : \A c \in Nat \ {0} : p * c <= q => p <= q \div c
        BY Z3
      <4> QED  BY <2>3, <4>2, <4>3
    <3>4. (D + B - 1) \div B \in Nat
      BY <2>3
    <3>5. n + 1 \in Batches
      BY <3>3, <3>4 DEF Batches, B, D
    <3> QED  BY <1>3, <2>2, <3>1, <3>5, NextNumber
  <2> HIDE DEF B, D, C
  <2>5. /\ j \in Jobs /\ job[j] \in Job /\ job[j].state = "none" /\ job[j].docs = NoDocs
        /\ job[j].at = "none"
    <3>1. j \in Jobs /\ job[j].state = "none" /\ job[j].docs = NoDocs
      BY <1>3, <2>2, <2>4 DEF AddedFirst, Jobs
    <3> QED  BY <3>1 DEF IInv, Typed, Queued, Running
  <2>6. /\ next \in DocMaps /\ Real(next) /\ DOMAIN next = DOMAIN req[r].left \ chunk
        /\ batch \in DocMaps /\ Real(batch)
    <3>1. /\ next \in DocMaps /\ DOMAIN next = DOMAIN req[r].left \ chunk
          /\ \A d \in DOMAIN req[r].left \ chunk : next[d] = req[r].left[d]
      BY <1>3, <2>1, WithoutType
    <3>2. /\ batch \in DocMaps /\ DOMAIN batch = DOMAIN req[r].left \ DOMAIN next
          /\ \A d \in DOMAIN req[r].left \ DOMAIN next : batch[d] = req[r].left[d]
      BY <2>1, WithoutType
    <3> HIDE DEF batch
    <3> QED  BY <2>1, <3>1, <3>2 DEF Real
  <2> HIDE DEF batch
  <2> DEFINE x == [job[j] EXCEPT !.state = "waiting", !.docs = batch]
             y == [req[r] EXCEPT !.left = next, !.at = l]
  <2>7. x \in Job /\ x.docs = batch /\ x.state = "waiting" /\ x.at = "none"
    BY <2>5, <2>6 DEF Job, States
  <2>8. job' = [job EXCEPT ![j] = x]
    BY <1>3 DEF batch
  <2> HIDE DEF x
  <2>9. job' \in [Jobs -> Job] /\ \A k \in Jobs : job'[k] = IF k = j THEN x ELSE job[k]
    BY <2>5, <2>7, <2>8 DEF IInv, Typed
  <2>10. /\ y \in Request /\ y.op = req[r].op /\ y.docs = req[r].docs /\ y.left = next
         /\ y.at = l /\ l \in {"ok", "add"}
    BY <2>1, <2>6 DEF Request, Places
  <2>11. req' = [req EXCEPT ![r] = y]
    BY <1>3
  <2> HIDE DEF y
  <2>12. req' \in [Requests -> Request] /\ \A s \in Requests : req'[s] = IF s = r THEN y ELSE req[s]
    BY <2>10, <2>11 DEF IInv, Typed
  <2>13. Keeps
    BY <1>1, <2>5, <2>9, <2>10, <2>12 DEF Keeps
  <2>14. Typed' /\ CalledKept'
    BY <1>1, <2>9, <2>12, <2>13, KeptStays DEF IInv, Typed, CalledKept, IndexCall
  <2>15. Queued'
    BY <1>3, <2>5, <2>7, <2>9, EnqueuedOnce
  <2>16. AllReal' /\ NoBlankRows'
    BY <1>1, <2>6, <2>7, <2>9, <2>10, <2>12 DEF IInv, AllReal, Real, NoBlankRows
  <2>17. \A k \in Jobs : Progress(k)'
    <3>1. Progress(j)'
      BY <2>5, <2>7, <2>9 DEF Progress
    <3>2. \A k \in Jobs \ {j} : Aside(k)
      BY <2>9 DEF Aside
    <3> QED  BY <2>13, <3>1, <3>2, AsideProgress
  <2>18. AddedFirst(r, n + 1)'
    <3>1. ASSUME NEW c \in Batches
          PROVE  /\ job'[<<r, c>>].state # "none" <=> c <= n + 1
                 /\ job'[<<r, c>>].state = "none" => job'[<<r, c>>].docs = NoDocs
      <4>1. <<r, c>> \in Jobs /\ (<<r, c>> = j <=> c = n + 1) /\ c \in Int
        BY <1>3, <2>4 DEF Jobs, Batches
      <4>2. /\ job[<<r, c>>].state # "none" <=> c <= n
            /\ job[<<r, c>>].state = "none" => job[<<r, c>>].docs = NoDocs
        BY <2>2 DEF AddedFirst
      <4> QED  BY <2>7, <2>9, <4>1, <4>2
    <3> QED  BY <3>1 DEF AddedFirst
  <2>19. Room(r, n + 1)'
    <3>1. CASE l = "ok"
      BY <2>10, <2>12, <3>1 DEF Room, Early
    <3>2. CASE l # "ok"
      <4>1. next # NoDocs /\ l = "add" /\ Cardinality(chunk) = B
        BY <1>3, <3>2 DEF B
      <4>2. DOMAIN next # {}
        BY <2>6, <4>1 DEF DocMaps, NoDocs
      <4>3. Cardinality(DOMAIN next) = C - B
        <5>1. IsFiniteSet(chunk) /\ DOMAIN req[r].left \cap chunk = chunk
          BY <2>3, FS_Subset
        <5> QED  BY <2>3, <2>6, <4>1, <5>1, FS_Difference DEF C
      <4>4. (n + 1) * B = n * B + B
        BY <2>3
      <4>5. (n + 1) * B + Cardinality(DOMAIN next) <= D
        BY <2>3, <2>4, <4>3, <4>4
      <4> QED  BY <2>10, <2>12, <4>1, <4>2, <4>5 DEF Room, Early, B, D
    <3> QED  BY <3>1, <3>2
  <2>20. Numbered'
    <3>1. n + 1 \in Nat
      OBVIOUS
    <3>2. ASSUME NEW s \in Requests \ {r}, NEW m \in Nat, AddedFirst(s, m), Room(s, m)
          PROVE  AddedFirst(s, m)' /\ Room(s, m)'
      <4>1. \A c \in Batches : <<s, c>> \in Jobs /\ <<s, c>> # j
        BY <1>3 DEF Jobs
      <4> QED  BY <2>9, <2>12, <3>2, <4>1 DEF AddedFirst, Room
    <3> QED  BY <2>18, <2>19, <3>1, <3>2 DEF IInv, Numbered
  <2> QED  BY <2>14, <2>15, <2>16, <2>17, <2>20 DEF IInv
<1> QED  BY <1>2, <1>3 DEF Add

\* cleanQueue remembers the waiting jobs and removes those that still wait.
LEMMA ListWaitingStep ==
    ASSUME IInv, NEW r \in Requests, ListWaiting(r)
    PROVE  IInv'
<1>1. PICK found \in SUBSET Jobs : req' = [req EXCEPT ![r].at = "remove", ![r].list = found]
  BY DEF ListWaiting
<1>2. UNCHANGED <<rows, job, wait, calls, erased>>
  BY DEF ListWaiting, db, queue, history
<1> DEFINE x == [req[r] EXCEPT !.at = "remove", !.list = found]
<1>3. /\ x \in Request /\ x.op = req[r].op /\ x.docs = req[r].docs /\ Real(x.left)
      /\ Onward(r, x)
  BY DEF IInv, Typed, AllReal, Request, Places, Onward, Early
<1>4. req' = [req EXCEPT ![r] = x]
  BY <1>1
<1> HIDE DEF x
<1> QED  BY <1>2, <1>3, <1>4, RequestStep

LEMMA RemoveWaitingStep ==
    ASSUME IInv, NEW r \in Requests, RemoveWaiting(r)
    PROVE  IInv'
<1>1. UNCHANGED <<rows, calls, erased>>
  BY DEF RemoveWaiting, db, history
<1>2. CASE Answer(r, "ok") /\ UNCHANGED <<wait, job>>
  <2>1. "ok" \in Places /\ "ok" \notin Early
    BY DEF Places, Early
  <2> QED  BY <1>1, <1>2, <2>1, QuietAnswerStep
<1>3. ASSUME NEW j \in req[r].list,
             IF job[j].state \in {"waiting", "delayed"}
             THEN /\ job' = [job EXCEPT ![j].state = "removed"]
                  /\ wait' = RemoveFirst(wait, j)
             ELSE UNCHANGED <<wait, job>>,
             req' = [req EXCEPT ![r].list = @ \ {j}]
      PROVE  IInv'
  <2> DEFINE y == [req[r] EXCEPT !.list = @ \ {j}]
             x == [job[j] EXCEPT !.state = "removed"]
  <2>1. req[r] \in Request /\ req[r].list \ {j} \subseteq Jobs /\ j \in Jobs /\ job[j] \in Job
    BY DEF IInv, Typed, Request
  <2>2. /\ y \in Request /\ y.op = req[r].op /\ y.docs = req[r].docs /\ Real(y.left)
        /\ Onward(r, y)
    BY <2>1 DEF IInv, AllReal, Request, Onward, Early
  <2>3. req' = [req EXCEPT ![r] = y]
    BY <1>3
  <2> HIDE DEF y
  <2>4. CASE UNCHANGED <<wait, job>>
    BY <1>1, <2>2, <2>3, <2>4, RequestStep
  <2>5. CASE /\ job[j].state \in {"waiting", "delayed"}
             /\ job' = [job EXCEPT ![j].state = "removed"] /\ wait' = RemoveFirst(wait, j)
    <3>1. job[j].at = "none"
      BY <2>1, <2>5 DEF IInv, Queued, Running
    <3>2. x \in Job /\ x.docs = job[j].docs /\ x.state = "removed" /\ x.at = "none"
      BY <2>1, <3>1 DEF Job, States
    <3>3. job' = [job EXCEPT ![j] = x]
      BY <2>5
    <3> HIDE DEF x
    <3>4. job' \in [Jobs -> Job] /\ \A k \in Jobs : job'[k] = IF k = j THEN x ELSE job[k]
      BY <2>1, <3>2, <3>3 DEF IInv, Typed
    <3>5. /\ wait' \in Seq(Jobs)
          /\ \A i \in DOMAIN wait' : wait'[i] # j /\ \E k \in DOMAIN wait : wait'[i] = wait[k]
          /\ \A i, k \in DOMAIN wait' : wait'[i] = wait'[k] => i = k
      <4>1. PICK s, t : s = wait /\ t = wait'
        OBVIOUS
      <4>2. t = RemoveFirst(s, j)
        BY <2>5, <4>1
      <4>3. s \in Seq(Jobs) /\ \A i, k \in DOMAIN s : s[i] = s[k] => i = k
        BY <4>1, WaitType
      <4>4. /\ t \in Seq(Jobs)
            /\ \A i \in DOMAIN t : t[i] # j /\ \E k \in DOMAIN s : t[i] = s[k]
            /\ \A i, k \in DOMAIN t : t[i] = t[k] => i = k
        BY <2>1, <4>2, <4>3, RemovedFromList
      <4> QED  BY <4>1, <4>4
    <3>6. Queued'
      <4>1. \A i \in DOMAIN wait' : job'[wait'[i]].state = "waiting"
        BY <3>4, <3>5, WaitType
      <4>2. \A k \in Jobs : job'[k].at # "none" => job'[k].state = "active"
        BY <3>2, <3>4 DEF IInv, Queued, Running
      <4> QED  BY <3>5, <4>1, <4>2 DEF Queued, Running
    <3>7. \A k \in Jobs : /\ job'[k].docs = job[k].docs /\ Aside(k)
                          /\ job'[k].state = "none" <=> job[k].state = "none"
      BY <2>5, <3>2, <3>4 DEF Aside
    <3>8. /\ req' \in [Requests -> Request]
          /\ \A s \in Requests : /\ req'[s].op = req[s].op /\ req'[s].docs = req[s].docs
                                 /\ Real(req'[s].left) /\ Onward(s, req'[s])
      BY <2>2, <2>3, RequestTyped
    <3> QED  BY <1>1, <3>4, <3>6, <3>7, <3>8, JobsStep
  <2> QED  BY <1>3, <2>4, <2>5
<1> QED  BY <1>2, <1>3 DEF RemoveWaiting

\* The requests that are answered, or go on, without touching rows or jobs.
LEMMA QuietStep ==
    ASSUME IInv, NEW r \in Requests,
           \/ ManualRebuildIndex(r) \/ RebuildIndex(r) \/ CheckIndexExists(r)
           \/ PauseQueue(r) \/ ResumeQueue(r)
           \/ CreateIndex(r) \/ RebuildEntireIndex(r) \/ RecountIndex(r)
    PROVE  IInv'
<1>1. /\ UNCHANGED <<rows, job, wait, calls, erased>> /\ req[r].at \in Early
      /\ \E l \in {"verify", "clear", "failed", "snapshot", "ok", "tally"} : Answer(r, l)
  BY DEF ManualRebuildIndex, RebuildIndex, CheckIndexExists, PauseQueue, ResumeQueue,
         CreateIndex, RebuildEntireIndex, RecountIndex, db, queue, history, Ask, Early
<1>2. \A l \in {"verify", "clear", "failed", "snapshot", "ok", "tally"} : l \in Places \ {"add"}
  BY DEF Places
<1> QED  BY <1>1, <1>2, QuietAnswerStep

\* POST _rebuild_count.
LEMMA TallyStep ==
    ASSUME IInv, NEW r \in Requests, TallyDocuments(r) \/ StoreTally(r)
    PROVE  IInv'
<1>1. UNCHANGED <<rows, job, wait, calls, erased>>
  BY DEF TallyDocuments, StoreTally, db, queue, history
<1>2. PICK l \in {"store", "ok"}, t \in Nat : req' = [req EXCEPT ![r].at = l, ![r].tally = t]
  <2>1. 0 \in Nat
    OBVIOUS
  <2> QED  BY <2>1, TotalType DEF TallyDocuments, StoreTally
<1> DEFINE x == [req[r] EXCEPT !.at = l, !.tally = t]
<1>3. /\ x \in Request /\ x.op = req[r].op /\ x.docs = req[r].docs /\ Real(x.left)
      /\ Onward(r, x)
  BY DEF IInv, Typed, AllReal, Request, Places, Onward, Early
<1>4. req' = [req EXCEPT ![r] = x]
  BY <1>2
<1> HIDE DEF x
<1> QED  BY <1>1, <1>3, <1>4, RequestStep

LEMMA BulkRequestStep ==
    ASSUME IInv, NEW r \in Requests, Upload(r) \/ QueueBatchDocuments(r) \/ QueueSnapshot(r)
    PROVE  IInv'
<1>1. UNCHANGED <<rows, job, wait, calls, erased>> /\ req[r].at \in Early
  BY DEF Upload, QueueBatchDocuments, QueueSnapshot, db, queue, history, Ask, Early
<1>2. SentBy(r) \in DocMaps /\ Real(SentBy(r)) /\ req[r].left \in DocMaps /\ Real(req[r].left)
  BY SentByType DEF IInv, Typed, AllReal, Request
<1>3. CASE Answer(r, "failed")
  <2>1. "failed" \in Places /\ "failed" \notin Early
    BY DEF Places, Early
  <2> QED  BY <1>1, <1>3, <2>1, QuietAnswerStep
<1>4. CASE QueueBulkIndexing(r, SentBy(r)) \/ QueueBulkIndexing(r, req[r].left)
  BY <1>1, <1>2, <1>4, QueueBulkIndexingStep
<1> QED  BY <1>3, <1>4 DEF Upload, QueueBatchDocuments, QueueSnapshot

LEMMA ServeStep ==
    ASSUME IInv, NEW r \in Requests, Serve(r)
    PROVE  IInv'
  BY BulkRequestStep, QuietStep, RowsChangeStep, SnapshotStep, AddStep, CleanActiveStep,
     CleanDelayedStep, ListWaitingStep, RemoveWaitingStep, TallyStep DEF Serve

-------------------------------------------------------------------------------
(* All steps.                                                              *)

\* The verifier, and steps of others, leave alone what the invariant is about.
LEMMA UntouchedStep ==
    ASSUME IInv, UNCHANGED <<rows, job, wait, calls, req, erased>>
    PROVE  IInv'
<1>1. Keeps
  BY DEF Keeps
<1>2. Typed' /\ CalledKept'
  BY <1>1, KeptStays DEF IInv, Typed, CalledKept, IndexCall
<1>3. Numbered' /\ Queued'
  BY SameOnward, NumbersStay, QueueStays DEF IInv, Queued, Running
<1>4. AllReal' /\ NoBlankRows'
  BY DEF IInv, AllReal, Real, NoBlankRows
<1>5. \A j \in Jobs : Progress(j)'
  BY <1>1, AsideProgress DEF Aside
<1> QED  BY <1>2, <1>3, <1>4, <1>5 DEF IInv

LEMMA CrashStep ==
    ASSUME IInv, Crash
    PROVE  IInv'
<1>1. /\ UNCHANGED <<rows, wait, erased>> /\ calls' \subseteq calls
      /\ job' = [j \in Jobs |-> [job[j] EXCEPT !.at = "none"]]
  BY DEF Crash, db, queue
<1>2. \A j \in Jobs : job[j] \in Job
  BY DEF IInv, Typed
<1>3. \A j \in Jobs : LET x == [job[j] EXCEPT !.at = "none"]
                      IN  /\ x \in Job /\ x.docs = job[j].docs /\ x.at = "none"
                          /\ x.state = job[j].state /\ x.errors = job[j].errors
  BY <1>2 DEF Job, Stages
<1>4. /\ job' \in [Jobs -> Job]
      /\ \A j \in Jobs : /\ job'[j].docs = job[j].docs /\ job'[j].at = "none"
                         /\ job'[j].state = job[j].state /\ job'[j].errors = job[j].errors
  BY <1>1, <1>3
<1>5. \A r \in Requests : LET x == [req[r] EXCEPT !.at = "failed"]
                          IN  /\ x \in Request /\ x.op = req[r].op /\ x.docs = req[r].docs
                              /\ Real(x.left) /\ Onward(r, x)
  BY DEF IInv, Typed, AllReal, Request, Places, Onward, Early
<1>6. /\ req' \in [Requests -> Request]
      /\ \A r \in Requests : /\ req'[r].op = req[r].op /\ req'[r].docs = req[r].docs
                             /\ Real(req'[r].left) /\ Onward(r, req'[r])
  <2>1. \A r \in Requests : \/ req'[r] = req[r]
                            \/ req'[r] = [req[r] EXCEPT !.at = "failed"]
    BY DEF Crash
  <2>2. req' = [r \in Requests |-> req'[r]]
    BY DEF Crash
  <2>3. \A r \in Requests : /\ req'[r] \in Request
                            /\ req'[r].op = req[r].op /\ req'[r].docs = req[r].docs
                            /\ Real(req'[r].left) /\ Onward(r, req'[r])
    BY <1>5, <2>1, SameOnward DEF IInv, Typed, AllReal
  <2> QED  BY <2>2, <2>3
<1>7. Queued'
  BY <1>1, <1>4, QueueStays DEF IInv, Running
<1>8. \A j \in Jobs : Aside(j)
  BY <1>4 DEF Aside
<1> QED  BY <1>1, <1>4, <1>6, <1>7, <1>8, JobsStep

LEMMA InitIInv == Init => IInv
<1> SUFFICES ASSUME Init PROVE IInv
  OBVIOUS
<1>1. /\ NoJob \in Job /\ NoJob.state = "none" /\ NoJob.at = "none" /\ NoJob.docs = NoDocs
  BY MapsType DEF NoJob, Job, States, Stages
<1>2. job = [j \in Jobs |-> NoJob] /\ wait = <<>> /\ calls = {} /\ rows \in [Docs -> {Absent, Old}]
  BY DEF Init
<1> HIDE DEF NoJob
<1>3. \A j \in Jobs : job[j] = NoJob
  BY <1>2
<1>4. req \in [Requests -> Request]
      /\ \A r \in Requests : req[r].at = "idle" /\ req[r].left = NoDocs
  <2>1. ASSUME NEW op \in Ops
        PROVE  Asked(op) \subseteq SUBSET Docs
    BY <2>1 DEF Asked
  <2>2. ASSUME NEW op \in Ops,
               NEW x \in [op : {op}, docs : Asked(op), at : {"idle"}, left : {NoDocs},
                          list : {{}}, tally : {0}]
        PROVE  x \in Request /\ x.at = "idle" /\ x.left = NoDocs
    <3>1. Asked(op) \subseteq SUBSET Docs
      BY <2>1
    <3> QED  BY <2>2, <3>1, MapsType DEF Request, Places
  <2>3. req \in [Requests -> UNION {[op : {op}, docs : Asked(op), at : {"idle"}, left : {NoDocs},
                                     list : {{}}, tally : {0}] : op \in Ops}]
    BY DEF Init
  <2>4. \A r \in Requests : req[r] \in Request /\ req[r].at = "idle" /\ req[r].left = NoDocs
    BY <2>2, <2>3
  <2> QED  BY <2>3, <2>4
<1>5. Typed
  BY <1>1, <1>2, <1>4, Names DEF Typed
<1>6. Numbered
  <2>1. \A r \in Requests : AddedFirst(r, 0) /\ Room(r, 0)
    <3>1. \A r \in Requests, b \in Batches : <<r, b>> \in Jobs /\ ~(b <= 0)
      BY DEF Jobs, Batches
    <3> QED  BY <1>1, <1>3, <1>4, <3>1 DEF AddedFirst, Room
  <2> QED  BY <2>1 DEF Numbered
<1>7. Queued
  BY <1>1, <1>2, <1>3 DEF Queued, Running
<1>8. AllReal /\ NoBlankRows /\ CalledKept
  BY <1>1, <1>2, <1>3, <1>4, MapsType, Names DEF AllReal, Real, NoBlankRows, CalledKept
<1>9. \A j \in Jobs : Progress(j)
  BY <1>1, <1>3 DEF Progress
<1> QED  BY <1>5, <1>6, <1>7, <1>8, <1>9 DEF IInv

LEMMA NextIInv == IInv /\ [Next]_vars => IInv'
<1> SUFFICES ASSUME IInv, [Next]_vars PROVE IInv'
  OBVIOUS
<1>1. CASE Verify \/ UNCHANGED vars
  BY <1>1, UntouchedStep DEF Verify, VerifyRead, VerifyCount, VerifyCorrect, vars, db,
                              queue, history
<1>2. CASE \E j \in Jobs : Promote(j) \/ Stalled(j) \/ Handle(j)
  BY <1>2, PromoteStep, StalledStep, HandleStep
<1>3. CASE \E r \in Requests : Serve(r)
  BY <1>3, ServeStep
<1>4. CASE \E c \in calls : Call(c)
  BY <1>4, CallStep
<1> QED  BY <1>1, <1>2, <1>3, <1>4, FetchStep, CrashStep DEF Next

LEMMA IInvAlways == Spec => []IInv
  BY InitIInv, NextIInv, PTL DEF Spec

\* A batch that completed has stored every document it does not report
\* (processBatchDocuments, bulkStoreDocuments), for any documents, requests and
\* sizes of batches, and any number of faults and crashes.
THEOREM BatchesAreStored == Spec => []StoredUnlessReported
<1>1. IInv => StoredUnlessReported
  BY DEF IInv, Progress, AllKept, Kept, StoredUnlessReported
<1> QED  BY <1>1, IInvAlways, PTL

\* No row without content is left by storeProcessedDocument, unless the document
\* was deleted under way, likewise.
THEOREM RowsHaveContent == Spec => []NoBlankRows
<1>1. IInv => NoBlankRows
  BY DEF IInv
<1> QED  BY <1>1, IInvAlways, PTL

\* A job that cleanQueue has removed is not processed, nor in the list, likewise.
THEOREM RemovedStaysRemoved == Spec => []RemovedIsNotProcessed
<1>1. IInv => RemovedIsNotProcessed
  BY DEF IInv, Queued, RemovedIsNotProcessed
<1> QED  BY <1>1, IInvAlways, PTL
===============================================================================
