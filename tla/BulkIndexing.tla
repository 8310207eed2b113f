----------------------------- MODULE BulkIndexing -----------------------------
(***************************************************************************)
(* Bulk indexing of one index: the requests that put batches of documents  *)
(* on the Bull queue 'bulk-indexing' (BulkIndexingService), the handler    *)
(* that processes them (IndexingQueueProcessor), the queue's retries and   *)
(* stalled jobs, the queue's administration, and the count of documents    *)
(* that every batch and the hourly verifier keep.                          *)
(*                                                                         *)
(* One action is one round trip to PostgreSQL or Redis and the code up to  *)
(* the next one; a fault is a round trip that fails.                       *)
(*                                                                         *)
(* Abstracted: the content of a document is the request that sent it; the  *)
(* order of the documents of a batch; mappings and the single-document     *)
(* API, which DocumentApi models, so PUT and DELETE are one step here; the *)
(* queue's rate limiter and the length of its delays.                      *)
(***************************************************************************)
EXTENDS Naturals, Sequences, FiniteSets, SequencesExt

CONSTANTS
    Docs,          \* ids of documents of the index
    Requests,      \* HTTP requests, each served once
    Ops,           \* the operations requests ask for
    BatchSize,     \* documents in a batch (1000)
    SubBatchSize,  \* documents indexed at once (100)
    MaxFaults,     \* bound on the round trips that fail
    MaxCrashes     \* bound on the crashes of the process

QueueOps == {"upload", "batch", "rebuild", "reset"}
AdminOps == {"clean", "pause", "resume", "start"}
ApiOps   == {"put", "erase", "drop", "create", "recount", "rebuild_all"}

Absent == "absent"  \* no row
Blank  == "blank"   \* a row whose content is {}
Old    == "old"     \* written before the first request

ASSUME BulkAssumption ==
    /\ IsFiniteSet(Docs)
    /\ Ops \subseteq QueueOps \cup AdminOps \cup ApiOps
    /\ Requests \cap {Absent, Blank, Old} = {}
    /\ {BatchSize, SubBatchSize} \subseteq Nat \ {0}
    /\ {MaxFaults, MaxCrashes} \subseteq Nat

Slots      == 2  \* handlers 'single' and 'batch', each with concurrency 1
Attempts   == 3
MaxStalled == 2

\* The batches of a request are numbered.
Batches == 1 .. (Cardinality(Docs) + BatchSize - 1) \div BatchSize
Jobs    == Requests \X Batches

VARIABLES
    exists,   \* the row of the index in table indices is there
    rows,     \* table documents: the content stored under each id
    count,    \* document_count of the index
    job,      \* what Bull keeps of each job, and the locals of its handler
    wait,     \* Bull's list of waiting jobs
    paused,   \* Bull's pause flag
    calls,    \* calls of IndexingService.indexDocument that have not returned
    req,      \* what each request asks for, and where it stands
    check,    \* the hourly verifier
    faults,   \* round trips that have failed
    crashes,  \* crashes of the process so far
    erased    \* history: documents deleted since the beginning

db      == <<exists, rows, count>>
queue   == <<wait, paused>>
history == <<faults, crashes, erased>>
vars    == <<db, queue, job, calls, req, check, history>>

Stored(d) == rows[d] # Absent
Total == Cardinality({d \in Docs : Stored(d)})

NoDocs == [d \in {} |-> Absent]
Without(f, S) == [d \in DOMAIN f \ S |-> f[d]]

NoJob ==
    [state |-> "none", docs |-> NoDocs, attempts |-> 0, stalls |-> 0, tries |-> 0,
     at |-> "none", todo |-> {}, doc |-> Absent, seen |-> FALSE, errors |-> {},
     sub |-> {}, tally |-> 0]

\* Requests a client can send: a bulk request names documents, PUT and DELETE
\* one, the others none.
Asked(op) ==
    CASE op \in {"upload", "batch"} -> SUBSET Docs
      [] op \in {"put", "erase"}    -> {{d} : d \in Docs}
      [] OTHER                      -> {{}}

Init ==
    /\ exists = TRUE
    /\ rows \in [Docs -> {Absent, Old}]
    /\ count = Total
    /\ job = [j \in Jobs |-> NoJob]
    /\ wait = <<>>
    /\ paused = FALSE
    /\ calls = {}
    /\ req \in [Requests -> UNION {[op : {op}, docs : Asked(op), at : {"idle"},
                                    left : {NoDocs}, list : {{}}, tally : {0}] : op \in Ops}]
    /\ check = [at |-> "idle", read |-> 0, actual |-> 0]
    /\ faults = 0
    /\ crashes = 0
    /\ erased = {}

Ask(r, label) == req[r].at = label
Answer(r, label) == req' = [req EXCEPT ![r].at = label]
At(j, label) == job[j].state = "active" /\ job[j].at = label
Running(j) == job[j].at # "none"

\* A round trip fails.
Fault == faults < MaxFaults /\ faults' = faults + 1 /\ UNCHANGED <<crashes, erased>>

Erase(S) == erased' = erased \cup S /\ UNCHANGED <<faults, crashes>>

-----------------------------------------------------------------------------
(* Requests that queue batches.                                            *)

\* queueBulkIndexing looks for the index and splits the documents into
\* batches: none if there are no documents.
QueueBulkIndexing(r, docs) ==
    req' = [req EXCEPT ![r].at = CASE ~exists                 -> "failed"
                                   [] exists /\ docs = NoDocs -> "ok"
                                   [] OTHER                   -> "add",
                       ![r].left = IF exists THEN docs ELSE NoDocs]

SentBy(r) == [d \in req[r].docs |-> r]

\* POST _bulk gives the documents without an id a new one and queues them all.
Upload(r) ==
    /\ Ask(r, "idle") /\ req[r].op = "upload"
    /\ QueueBulkIndexing(r, SentBy(r))
    /\ UNCHANGED <<db, queue, job, calls, check, history>>

\* POST queue/batch refuses a batch without documents, before it looks for the
\* index.
QueueBatchDocuments(r) ==
    /\ Ask(r, "idle") /\ req[r].op = "batch"
    /\ IF req[r].docs = {} THEN Answer(r, "failed") ELSE QueueBulkIndexing(r, SentBy(r))
    /\ UNCHANGED <<db, queue, job, calls, check, history>>

\* POST _rebuild_index does not look at what getIndex returns ...
ManualRebuildIndex(r) ==
    /\ Ask(r, "idle") /\ req[r].op = "rebuild"
    /\ Answer(r, "verify")
    /\ UNCHANGED <<db, queue, job, calls, check, history>>

\* ... POST rebuild does ...
RebuildIndex(r) ==
    /\ Ask(r, "idle") /\ req[r].op = "reset"
    /\ Answer(r, IF exists THEN "clear" ELSE "failed")
    /\ UNCHANGED <<db, queue, job, calls, check, history>>

\* ... and then clears the index (ConnectionPool has its transaction) ...
ClearIndex(r) ==
    /\ Ask(r, "clear")
    /\ rows' = [d \in Docs |-> Absent]
    /\ Answer(r, "verify")
    /\ Erase(Docs)
    /\ UNCHANGED <<exists, count, queue, job, calls, check>>

\* rebuildSpecificIndexConcurrent looks for the index ...
CheckIndexExists(r) ==
    /\ Ask(r, "verify")
    /\ Answer(r, IF exists THEN "snapshot" ELSE "failed")
    /\ UNCHANGED <<db, queue, job, calls, check, history>>

\* ... and reads all documents; without any it is done ...
Snapshot(r) ==
    /\ Ask(r, "snapshot")
    /\ LET read == Without(rows, {d \in Docs : ~Stored(d)})
       IN  req' = [req EXCEPT ![r].at = IF read = NoDocs THEN "ok" ELSE "queue",
                              ![r].left = read]
    /\ UNCHANGED <<db, queue, job, calls, check, history>>

\* ... and queues what it has read.
QueueSnapshot(r) ==
    /\ Ask(r, "queue")
    /\ QueueBulkIndexing(r, req[r].left)
    /\ UNCHANGED <<db, queue, job, calls, check, history>>

\* One batch after the other is added; a failure leaves the earlier ones.
Add(r) ==
    /\ Ask(r, "add")
    /\ \/ /\ Fault
          /\ Answer(r, "failed")
          /\ UNCHANGED <<job, wait>>
       \/ \E chunk \in SUBSET DOMAIN req[r].left :
            LET next == Without(req[r].left, chunk)
                j == <<r, 1 + Cardinality({k \in Jobs : k[1] = r /\ job[k].state # "none"})>>
            IN  /\ \/ Cardinality(chunk) = BatchSize
                   \/ next = NoDocs /\ Cardinality(chunk) < BatchSize
                /\ job' = [job EXCEPT ![j].state = "waiting",
                                      ![j].docs = Without(req[r].left, DOMAIN next)]
                /\ wait' = Append(wait, j)
                /\ req' = [req EXCEPT ![r].left = next,
                                      ![r].at = IF next = NoDocs THEN "ok" ELSE "add"]
                /\ UNCHANGED history
    /\ UNCHANGED <<db, paused, calls, check>>

-----------------------------------------------------------------------------
(* The queue.                                                              *)

\* A worker fetches the job at the head of the list.
Fetch ==
    /\ ~paused /\ wait # <<>>
    /\ Cardinality({k \in Jobs : Running(k)}) < Slots
    /\ LET j == Head(wait) IN
       job' = [job EXCEPT ![j].state = "active",
                          ![j].tries = @ + 1,
                          ![j].at = "check",
                          ![j].todo = DOMAIN job[j].docs,
                          ![j].errors = {},
                          ![j].sub = {}]
    /\ wait' = Tail(wait)
    /\ UNCHANGED <<db, paused, calls, req, check, history>>

\* The handler threw: another attempt after a delay, or the job has failed.
Throw(j) ==
    job' = [job EXCEPT ![j].at = "none",
                       ![j].attempts = @ + 1,
                       ![j].state = IF job[j].attempts + 1 < Attempts THEN "delayed"
                                    ELSE "failed"]

\* The delay is over.
Promote(j) ==
    /\ job[j].state = "delayed"
    /\ job' = [job EXCEPT ![j].state = "waiting"]
    /\ wait' = Append(wait, j)
    /\ UNCHANGED <<db, paused, calls, req, check, history>>

\* The handler of an active job is gone: the job is processed again, first,
\* unless it has stalled too often.
Stalled(j) ==
    /\ At(j, "none")
    /\ IF job[j].stalls < MaxStalled
       THEN /\ job' = [job EXCEPT ![j].state = "waiting", ![j].stalls = @ + 1]
            /\ wait' = <<j>> \o wait
       ELSE /\ job' = [job EXCEPT ![j].state = "failed"]
            /\ UNCHANGED wait
    /\ UNCHANGED <<db, paused, calls, req, check, history>>

-----------------------------------------------------------------------------
(* processBatchDocuments.                                                  *)

\* getIndex and ensureFieldMappings: without an index the handler throws.
CheckJob(j) ==
    /\ At(j, "check")
    /\ \/ /\ exists
          /\ job' = [job EXCEPT ![j].at = "select"]
          /\ UNCHANGED history
       \/ ~exists /\ Throw(j) /\ UNCHANGED history
       \/ Fault /\ Throw(j)
    /\ UNCHANGED <<db, queue, calls, req, check>>

\* Mutant: failed writes are indexed as well.
StoreNextAll(j, d, failed) ==
    LET left == job[j].todo \ {d}
    IN  job' = [job EXCEPT ![j].errors = @ \cup failed,
                           ![j].doc = Absent,
                           ![j].seen = FALSE,
                           ![j].at = IF left = {} THEN "index" ELSE "select",
                           ![j].todo = IF left = {} THEN DOMAIN job[j].docs ELSE left]

\* bulkStoreDocuments is through with a document: the next one, or on to the
\* index.
StoreNext(j, d, failed) ==
    LET left == job[j].todo \ {d}
        errors == job[j].errors \cup failed
    IN  job' = [job EXCEPT ![j].errors = errors,
                           ![j].doc = Absent,
                           ![j].seen = FALSE,
                           ![j].at = IF left = {} THEN "index" ELSE "select",
                           ![j].todo = IF left = {} THEN DOMAIN job[j].docs \ errors
                                       ELSE left]

\* The document is looked up; skipDuplicates is not looked at ...
SelectExisting(j) ==
    /\ At(j, "select")
    /\ \E d \in job[j].todo :
         \/ /\ job' = [job EXCEPT ![j].doc = d, ![j].seen = Stored(d), ![j].at = "write"]
            /\ UNCHANGED history
         \/ Fault /\ StoreNext(j, d, {d})
    /\ UNCHANGED <<db, queue, calls, req, check>>

\* Mutant: the error is logged only.
WriteQuietly(j) ==
    LET d == job[j].doc IN
    /\ At(j, "write")
    /\ \/ /\ job[j].seen \/ (exists /\ ~Stored(d))
          /\ rows' = [rows EXCEPT ![d] = IF job[j].seen <=> Stored(d) THEN job[j].docs[d]
                                         ELSE @]
          /\ UNCHANGED history
       \/ ~job[j].seen /\ (~exists \/ Stored(d)) /\ UNCHANGED <<rows, history>>
       \/ Fault /\ UNCHANGED rows
    /\ StoreNext(j, d, {})
    /\ UNCHANGED <<exists, count, queue, calls, req, check>>

\* ... and then updated, which may match no row any more, or inserted, which
\* fails on a duplicate key and on a missing index.
WriteDocument(j) ==
    LET d == job[j].doc IN
    /\ At(j, "write")
    /\ \/ /\ job[j].seen \/ (exists /\ ~Stored(d))
          /\ rows' = [rows EXCEPT ![d] = IF job[j].seen <=> Stored(d) THEN job[j].docs[d]
                                         ELSE @]
          /\ StoreNext(j, d, {})
          /\ UNCHANGED history
       \/ /\ ~job[j].seen /\ (~exists \/ Stored(d))
          /\ StoreNext(j, d, {d})
          /\ UNCHANGED <<rows, history>>
       \/ Fault /\ StoreNext(j, d, {d}) /\ UNCHANGED rows
    /\ UNCHANGED <<exists, count, queue, calls, req, check>>

\* Mutant: the loop does not advance.
RepeatSubBatch(j) ==
    /\ At(j, "index") /\ job[j].todo # {}
    /\ \E S \in SUBSET job[j].todo :
         /\ \/ Cardinality(S) = SubBatchSize
            \/ S = job[j].todo /\ Cardinality(S) < SubBatchSize
         /\ job' = [job EXCEPT ![j].at = "call", ![j].sub = S]
         /\ calls' = calls \cup {[job |-> j, try |-> job[j].tries, doc |-> d,
                                  at |-> "upsert"] : d \in S}
    /\ UNCHANGED <<db, queue, req, check, history>>

\* The documents that were stored are indexed, a sub-batch at a time and the
\* documents of a sub-batch at once.
StartSubBatch(j) ==
    /\ At(j, "index") /\ job[j].todo # {}
    /\ \E S \in SUBSET job[j].todo :
         /\ \/ Cardinality(S) = SubBatchSize
            \/ S = job[j].todo /\ Cardinality(S) < SubBatchSize
         /\ job' = [job EXCEPT ![j].at = "call",
                               ![j].sub = S,
                               ![j].todo = @ \ S]
         /\ calls' = calls \cup {[job |-> j, try |-> job[j].tries, doc |-> d,
                                  at |-> "upsert"] : d \in S}
    /\ UNCHANGED <<db, queue, req, check, history>>

\* The sub-batch the handler awaits; its other calls have been given up.
Awaited(c) ==
    /\ At(c.job, "call")
    /\ c.try = job[c.job].tries
    /\ c.doc \in job[c.job].sub

\* The sub-batch has failed: its documents are reported, whatever became of
\* them, and the handler goes on with the next sub-batch.
NotIndexed(j) ==
    job' = [job EXCEPT ![j].errors = @ \cup job[j].sub,
                       ![j].sub = {},
                       ![j].at = "index"]

\* Promise.all rejects with the first call that throws and leaves the others
\* running.
Reject(c) ==
    /\ calls' = calls \ {c}
    /\ IF Awaited(c) THEN NotIndexed(c.job) ELSE UNCHANGED job

Advance(c, label) == calls' = (calls \ {c}) \cup {[c EXCEPT !.at = label]}

\* storeProcessedDocument: INSERT ... ON CONFLICT DO UPDATE of the vector, so
\* a row that has gone comes back without content.
UpsertVector(c) ==
    /\ c.at = "upsert"
    /\ \/ /\ exists
          /\ rows' = [rows EXCEPT ![c.doc] = IF Stored(c.doc) THEN @ ELSE Blank]
          /\ Advance(c, "read")
          /\ UNCHANGED <<job, history>>
       \/ ~exists /\ Reject(c) /\ UNCHANGED <<rows, history>>
       \/ Fault /\ Reject(c) /\ UNCHANGED rows
    /\ UNCHANGED <<exists, count, queue, req, check>>

\* getIndex of the storage, and updateIndex's findOne, which throws if the
\* index went in between.
ReadIndex(c) ==
    /\ c.at = "read"
    /\ \/ exists /\ Advance(c, "save") /\ UNCHANGED <<job, history>>
       \/ ~exists /\ calls' = calls \ {c} /\ UNCHANGED <<job, history>>
       \/ ~exists /\ Reject(c) /\ UNCHANGED history
       \/ Fault /\ Reject(c)
    /\ UNCHANGED <<db, queue, req, check>>

\* updateIndex saves the entity: TypeORM inserts it, with no documents
\* counted, if the row has gone.
SaveIndex(c) ==
    /\ c.at = "save"
    /\ \/ /\ exists' = TRUE
          /\ count' = IF exists THEN count ELSE 0
          /\ Advance(c, "confirm")
          /\ UNCHANGED <<job, history>>
       \/ Fault /\ Reject(c) /\ UNCHANGED <<exists, count>>
    /\ UNCHANGED <<rows, queue, req, check>>

\* updateIndex reads the index back.
ConfirmIndex(c) ==
    /\ c.at = "confirm"
    /\ \/ exists /\ calls' = calls \ {c} /\ UNCHANGED <<job, history>>
       \/ ~exists /\ Reject(c) /\ UNCHANGED history
       \/ Fault /\ Reject(c)
    /\ UNCHANGED <<db, queue, req, check>>

\* All calls have returned: rebuildDocumentCount counts the documents ...
CountDocuments(j) ==
    /\ At(j, "call")
    /\ ~\E c \in calls : Awaited(c)
    /\ \/ /\ job' = [job EXCEPT ![j].tally = Total, ![j].at = "update"]
          /\ UNCHANGED history
       \/ Fault /\ NotIndexed(j)
    /\ UNCHANGED <<db, queue, calls, req, check>>

\* ... and stores the count it has read.
UpdateCount(j) ==
    /\ At(j, "update")
    /\ \/ /\ count' = IF exists THEN job[j].tally ELSE count
          /\ job' = [job EXCEPT ![j].at = "index", ![j].sub = {}, ![j].tally = 0]
          /\ UNCHANGED history
       \/ Fault /\ NotIndexed(j) /\ UNCHANGED count
    /\ UNCHANGED <<exists, rows, queue, calls, req, check>>

\* The handler returns success, with the errors it has collected.
Complete(j) ==
    /\ At(j, "index") /\ job[j].todo = {}
    /\ job' = [job EXCEPT ![j].state = "completed", ![j].at = "none"]
    /\ UNCHANGED <<db, queue, calls, req, check, history>>

Handle(j) ==
    \/ CheckJob(j) \/ SelectExisting(j) \/ WriteDocument(j) \/ StartSubBatch(j)
    \/ CountDocuments(j) \/ UpdateCount(j) \/ Complete(j)

Call(c) == UpsertVector(c) \/ ReadIndex(c) \/ SaveIndex(c) \/ ConfirmIndex(c)

-----------------------------------------------------------------------------
(* Administration of the queue.                                            *)

PauseQueue(r) ==
    /\ Ask(r, "idle") /\ req[r].op = "pause"
    /\ paused' = TRUE
    /\ Answer(r, "ok")
    /\ UNCHANGED <<db, wait, job, calls, check, history>>

\* POST workers/start starts no worker: like POST queue/resume it resumes the
\* queue.
ResumeQueue(r) ==
    /\ Ask(r, "idle") /\ req[r].op \in {"resume", "start"}
    /\ paused' = FALSE
    /\ Answer(r, "ok")
    /\ UNCHANGED <<db, wait, job, calls, check, history>>

\* cleanQueue: clean of active jobs takes those whose lock has expired, clean
\* of delayed jobs all of them.  (That of ended jobs changes no outcome.)
CleanActive(r) ==
    /\ Ask(r, "idle") /\ req[r].op = "clean"
    /\ \E S \in SUBSET {j \in Jobs : At(j, "none")} :
         job' = [j \in Jobs |-> IF j \in S THEN [job[j] EXCEPT !.state = "removed"]
                                ELSE job[j]]
    /\ Answer(r, "delayed")
    /\ UNCHANGED <<db, queue, calls, check, history>>

CleanDelayed(r) ==
    /\ Ask(r, "delayed")
    /\ job' = [j \in Jobs |-> IF job[j].state = "delayed"
                              THEN [job[j] EXCEPT !.state = "removed"] ELSE job[j]]
    /\ Answer(r, "list")
    /\ UNCHANGED <<db, queue, calls, check, history>>

\* The waiting jobs are listed (whether those of a paused queue are depends on
\* the version of Bull) ...
ListWaiting(r) ==
    /\ Ask(r, "list")
    /\ \E list \in {{j \in Jobs : job[j].state = "waiting"}} \cup (IF paused THEN {{}} ELSE {}) :
          req' = [req EXCEPT ![r].at = "remove", ![r].list = list]
    /\ UNCHANGED <<db, queue, job, calls, check, history>>

\* Mutant: the state the job is in by then is not looked at.
RemoveBlindly(r) ==
    /\ Ask(r, "remove")
    /\ \/ /\ req[r].list = {}
          /\ Answer(r, "ok")
          /\ UNCHANGED <<wait, job>>
       \/ \E j \in req[r].list :
            /\ job' = [job EXCEPT ![j].state = "removed"]
            /\ wait' = RemoveFirst(wait, j)
            /\ req' = [req EXCEPT ![r].list = @ \ {j}]
    /\ UNCHANGED <<db, paused, calls, check, history>>

\* ... and removed one by one, in whatever state they are by then; that of an
\* active job fails, and the failure is ignored.
RemoveWaiting(r) ==
    /\ Ask(r, "remove")
    /\ \/ /\ req[r].list = {}
          /\ Answer(r, "ok")
          /\ UNCHANGED <<wait, job>>
       \/ \E j \in req[r].list :
            /\ IF job[j].state \in {"waiting", "delayed"}
               THEN /\ job' = [job EXCEPT ![j].state = "removed"]
                    /\ wait' = RemoveFirst(wait, j)
               ELSE UNCHANGED <<wait, job>>
            /\ req' = [req EXCEPT ![r].list = @ \ {j}]
    /\ UNCHANGED <<db, paused, calls, check, history>>

-----------------------------------------------------------------------------
(* The other requests, each in one step.                                   *)

Write(r) ==
    /\ Ask(r, "idle") /\ req[r].op = "put"
    /\ IF exists
       THEN /\ rows' = [d \in Docs |-> IF d \in req[r].docs THEN r ELSE rows[d]]
            /\ Answer(r, "ok")
       ELSE UNCHANGED rows /\ Answer(r, "failed")
    /\ UNCHANGED <<exists, count, queue, job, calls, check, history>>

EraseDocument(r) ==
    /\ Ask(r, "idle") /\ req[r].op = "erase"
    /\ rows' = [d \in Docs |-> IF d \in req[r].docs THEN Absent ELSE rows[d]]
    /\ Erase(req[r].docs)
    /\ Answer(r, "ok")
    /\ UNCHANGED <<exists, count, queue, job, calls, check>>

DropIndex(r) ==
    /\ Ask(r, "idle") /\ req[r].op = "drop"
    /\ exists' = FALSE
    /\ rows' = [d \in Docs |-> Absent]
    /\ count' = 0
    /\ Erase(Docs)
    /\ Answer(r, "ok")
    /\ UNCHANGED <<queue, job, calls, check>>

CreateIndex(r) ==
    /\ Ask(r, "idle") /\ req[r].op = "create"
    /\ exists' = TRUE
    /\ Answer(r, IF exists THEN "failed" ELSE "ok")
    /\ UNCHANGED <<rows, count, queue, job, calls, check, history>>

\* POST _rebuild_all looks for the index and rebuilds nothing.
RebuildEntireIndex(r) ==
    /\ Ask(r, "idle") /\ req[r].op = "rebuild_all"
    /\ Answer(r, IF exists THEN "ok" ELSE "failed")
    /\ UNCHANGED <<db, queue, job, calls, check, history>>

\* POST _rebuild_count: the index is looked for ...
RecountIndex(r) ==
    /\ Ask(r, "idle") /\ req[r].op = "recount"
    /\ Answer(r, IF exists THEN "tally" ELSE "failed")
    /\ UNCHANGED <<db, queue, job, calls, check, history>>

\* ... its documents are counted ...
TallyDocuments(r) ==
    /\ Ask(r, "tally")
    /\ req' = [req EXCEPT ![r].at = "store", ![r].tally = Total]
    /\ UNCHANGED <<db, queue, job, calls, check, history>>

\* ... and the count is stored, whatever batches and the verifier have stored
\* in between.
StoreTally(r) ==
    /\ Ask(r, "store")
    /\ count' = IF exists THEN req[r].tally ELSE count
    /\ req' = [req EXCEPT ![r].at = "ok", ![r].tally = 0]
    /\ UNCHANGED <<exists, rows, queue, job, calls, check, history>>

Serve(r) ==
    \/ Upload(r) \/ QueueBatchDocuments(r) \/ ManualRebuildIndex(r) \/ RebuildIndex(r)
    \/ ClearIndex(r) \/ CheckIndexExists(r) \/ Snapshot(r) \/ QueueSnapshot(r) \/ Add(r)
    \/ PauseQueue(r) \/ ResumeQueue(r) \/ CleanActive(r) \/ CleanDelayed(r)
    \/ ListWaiting(r) \/ RemoveWaiting(r)
    \/ Write(r) \/ EraseDocument(r) \/ DropIndex(r) \/ CreateIndex(r)
    \/ RebuildEntireIndex(r) \/ RecountIndex(r) \/ TallyDocuments(r) \/ StoreTally(r)

-----------------------------------------------------------------------------
(* verifyIndexDocumentCount, every hour.                                   *)

VerifyRead ==
    /\ check.at = "idle" /\ exists
    /\ check' = [check EXCEPT !.at = "count", !.read = count]
    /\ UNCHANGED <<db, queue, job, calls, req, history>>

VerifyCount ==
    /\ check.at = "count"
    /\ check' = IF check.read = Total THEN [at |-> "idle", read |-> 0, actual |-> 0]
                ELSE [at |-> "correct", read |-> check.read, actual |-> Total]
    /\ UNCHANGED <<db, queue, job, calls, req, history>>

\* Mutant: the count that was wrong is stored.
VerifyRestore ==
    /\ check.at = "correct"
    /\ count' = IF exists THEN check.read ELSE count
    /\ check' = [at |-> "idle", read |-> 0, actual |-> 0]
    /\ UNCHANGED <<exists, rows, queue, job, calls, req, history>>

VerifyCorrect ==
    /\ check.at = "correct"
    /\ count' = IF exists THEN check.actual ELSE count
    /\ check' = [at |-> "idle", read |-> 0, actual |-> 0]
    /\ UNCHANGED <<exists, rows, queue, job, calls, req, history>>

Verify == VerifyRead \/ VerifyCount \/ VerifyCorrect

-----------------------------------------------------------------------------
(* The process crashes and starts again: its handlers and requests are     *)
(* gone, the queue and the tables are not.                                 *)

Crash ==
    /\ crashes < MaxCrashes
    /\ crashes' = crashes + 1
    /\ job' = [j \in Jobs |-> [job[j] EXCEPT !.at = "none"]]
    /\ calls' = {}
    /\ req' = [r \in Requests |->
                  IF req[r].at \in {"idle", "ok", "failed"} THEN req[r]
                  ELSE [req[r] EXCEPT !.at = "failed"]]
    /\ check' = [at |-> "idle", read |-> 0, actual |-> 0]
    /\ UNCHANGED <<db, queue, faults, erased>>

Next ==
    \/ \E r \in Requests : Serve(r)
    \/ Fetch
    \/ \E j \in Jobs : Promote(j) \/ Stalled(j) \/ Handle(j)
    \/ \E c \in calls : Call(c)
    \/ Verify
    \/ Crash

Spec == Init /\ [][Next]_vars

\* The queue's workers, its timers, the calls in flight and the hourly
\* verifier go on; clients, operators, faults and crashes are free.
LiveSpec ==
    /\ Spec
    /\ WF_vars(Fetch)
    /\ \A j \in Jobs : WF_vars(Promote(j)) /\ WF_vars(Stalled(j)) /\ WF_vars(Handle(j))
    /\ WF_vars(\E c \in calls : Call(c))
    /\ WF_vars(Verify)

-----------------------------------------------------------------------------
(* Properties.                                                             *)

Contents == Requests \cup {Absent, Blank, Old}
\* What somebody asked to be stored under an id.
Sent(d) ==
    {job[j].docs[d] : j \in {k \in Jobs : d \in DOMAIN job[k].docs}}
        \cup {r \in Requests : req[r].op = "put" /\ d \in req[r].docs}

\* A batch that completed has stored every document it does not report as an
\* error: whatever other batches, retries and crashes do, what is there since
\* is what a batch or a PUT sent, unless the document was deleted.
StoredUnlessReported ==
    \A j \in Jobs :
        job[j].state = "completed" =>
            \A d \in DOMAIN job[j].docs \ (job[j].errors \cup erased) : rows[d] \in Sent(d)

\* A document is indexed only once it is stored: the handler leaves no row
\* without content, unless the document was deleted under way.
NoBlankRows == \A d \in Docs : rows[d] = Blank => d \in erased

\* No batch is lost: an accepted batch is waiting, delayed or active, or has
\* ended, or an operator removed it.
Ended(j) == job[j].state \in {"completed", "failed", "removed"}
EveryBatchEnds == \A j \in Jobs : job[j].state = "waiting" ~> (Ended(j) \/ paused)

\* Whatever batches and the verifier write over each other, document_count is
\* right in the end.
CountConverges == <>[](exists => count = Total)

\* cleanQueue lists jobs and then removes them, while workers fetch them: a job
\* that is removed is not processed, then or later.
RemovedIsNotProcessed ==
    \A j \in Jobs :
        job[j].state = "removed" =>
            /\ ~Running(j)
            /\ \A i \in DOMAIN wait : wait[i] # j
=============================================================================
