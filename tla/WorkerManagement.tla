--------------------------- MODULE WorkerManagement ---------------------------
(***************************************************************************)
(* Watching and driving the Bull queues: WorkerManagementService and the   *)
(* statistics of BulkIndexingService.  Every reply is put together from    *)
(* lists that are read one after the other while jobs move.                *)
(*                                                                         *)
(* Jobs of 'bulk-indexing' are batches; BulkIndexing models what they do.  *)
(* The queue 'indexing' has no processor: only jobs made here wait in it.  *)
(* A step is a command to Redis; thresholds are parameters.  Lists are read *)
(* that a verdict is made of: what is only shown (the completed and the     *)
(* delayed jobs, the flags, averages of times) is left out.                *)
(***************************************************************************)
EXTENDS Integers, Sequences, FiniteSets, SequencesExt, FiniteSetsExt

CONSTANTS
    Jobs,               \* batches
    Requests,
    Ops,                \* request -> what it may ask for
    Slots,              \* batches processed at once
    Attempts,           \* of a batch
    MaxStalled,         \* maxStalledCount
    Wakeups,            \* jobs an activation adds (10 in the code)
    HistoryLength,      \* measurements kept (100)
    CriticalAt,         \* failed jobs that are critical (100)
    OverloadedAt,       \* waiting jobs that are an overload (5000)
    BacklogAt,          \* waiting jobs that are a backlog (1000)
    AlarmAt,            \* failed jobs that are an alert (50)
    ScaleAt,            \* waiting jobs to scale up for (100)
    BulkConcurrency, IndexingConcurrency,
    MemoryUse,          \* per cents of memory the process may use
    MaxExtra,           \* jobs in 'indexing' up to which requests are sent
    MaxTroubles         \* commands that fail, and crashes

ASSUME ManagementAssumption ==
    /\ IsFiniteSet(Jobs)
    /\ {Slots, Attempts, Wakeups, HistoryLength} \subseteq Nat \ {0}
    /\ DOMAIN Ops = Requests
    /\ {MaxStalled, CriticalAt, OverloadedAt, BacklogAt, AlarmAt, ScaleAt, BulkConcurrency,
        IndexingConcurrency, MaxExtra, MaxTroubles} \subseteq Nat
    /\ MemoryUse \subseteq Nat

VARIABLES
    job,        \* batch -> [state, tries, stalls]
    lost,       \* active batches whose handler has died
    suspects,   \* Bull's set bull:bulk-indexing:stalled
    extra,      \* jobs in 'indexing': [waiting, delayed]
    paused,     \* the pause flag of 'bulk-indexing'; nobody pauses 'indexing' 
    history,    \* docsPerSecond of performanceHistory
    req,        \* requests
    steady,     \* (for a property) request -> batches that have waited or been
                \* active ever since it began, in a queue nobody paused
    calm,       \* (for a property) requests with no pause since they began
    troubles
queues == <<job, lost, suspects, extra, paused>>
ghosts == <<steady, calm>>
vars == <<queues, history, req, ghosts, troubles>>

Fault == troubles < MaxTroubles /\ troubles' = troubles + 1
Fine == UNCHANGED troubles

NewJob == [state |-> "none", tries |-> 0, stalls |-> 0]
InState(state) == {j \in Jobs : job[j].state = state}
Put(j, state) == job' = [job EXCEPT ![j].state = state]
\* The batches S are no longer where a request saw them.
Moved(S) == steady' = [r \in Requests |-> steady[r] \ S] /\ UNCHANGED calm

\* Lists as the readers see them; the jobs of a paused queue are kept in
\* another list than the one getWaiting reads.
Listed(queue, list) ==
    CASE queue = "bulk" -> IF list = "waiting" /\ paused THEN 0 ELSE Cardinality(InState(list))
      [] queue = "indexing" -> IF list = "waiting" THEN extra.waiting ELSE 0
-----------------------------------------------------------------------------
\* What is to be read: for each track a sequence of lists, in passes.  The
\* track "again" reads 'bulk-indexing' once more at the same time.
Lists == {"waiting", "active", "failed"}
Nothing == [indexing |-> <<>>, bulk |-> <<>>, again |-> <<>>]
Tracks == DOMAIN Nothing

\* Mutant: the active jobs are listed before the waiting ones.
ActiveFirst == <<"active", "waiting", "failed">>
\* getQueueMetrics.
Metrics == <<"waiting", "active", "failed">>
\* getDetailedQueueStats.
Stats == <<"waiting", "active", "failed">>

\* getComprehensiveWorkerStatus reads both queues and the active jobs again, for
\* the workers; getQueueDashboard the statistics twice, and twice again for its
\* two health indicators, both of 'bulk-indexing'.
Passes(op) ==
    LET stats == [Nothing EXCEPT !.bulk = Stats]
        twice == [stats EXCEPT !.again = Stats]
    IN  CASE op = "status" -> <<[indexing |-> Metrics, bulk |-> Metrics, again |-> <<"active">>]>>
          [] op = "dashboard" -> <<twice, twice>>
          [] op \in {"stats", "diagnose", "health"} -> <<stats, stats>>
          [] op \in {"realtime", "scale"} -> <<stats>>
          [] op = "failed jobs" -> <<[Nothing EXCEPT !.bulk = <<"failed">>, !.again = <<"failed">>]>>
          [] OTHER -> <<>>

LastOf(seq, n) == SubSeq(seq, Max({1, Len(seq) - n + 1}), Len(seq))

\* The mean of the last n measurements, a whole number; and the throughput,
\* which is measured as the mean of what was measured.
Mean(n) ==
    LET last == LastOf(history, n)
    IN  FoldLeft(LAMBDA sum, rate : sum + rate, 0, last) \div Len(last)
CurrentThroughput == IF Len(history) < 2 THEN 0 ELSE Mean(5)

\* determineTrend: the last three measurements against up to three before.
Trend(rates) ==
    LET n == Len(rates)
        Total(seq) == FoldLeft(LAMBDA sum, rate : sum + rate, 0, seq)
        recent == Total(LastOf(rates, 3))
        before == LastOf(SubSeq(rates, 1, n - 3), 3)
        change == 10 * (recent * Len(before) - 3 * Total(before))
    IN  IF n <= 3 \/ change \in -(3 * Total(before)) .. 3 * Total(before) THEN "stable"
        ELSE IF change > 0 THEN "increasing" ELSE "decreasing"

\* What a request knows of the performance before it reads: getPerformanceMetrics
\* and getRecentPerformance.
Known(op) ==
    CASE op = "status" ->
            {IF history = <<>> THEN "stable"
             ELSE Trend(LastOf(history, 10))}
      [] op = "dashboard" /\ history # <<>> ->
            IF Mean(20) < 10 THEN {"emergency-boost"} ELSE {}
      [] OTHER -> {}

NoCounts == [t \in Tracks |-> [l \in Lists |-> 0]]
Idle == [op |-> "none", at |-> "idle", left |-> <<>>, seen |-> NoCounts, reply |-> {}, got |-> {}]
Failed(q) == [Idle EXCEPT !.op = q.op, !.at = "failed"]
Ok(q, reply) == [Idle EXCEPT !.op = q.op, !.at = "ok", !.reply = reply]
Started(op) == [Idle EXCEPT !.op = op, !.left = Passes(op), !.reply = Known(op),
                            !.at = IF Passes(op) = <<>> THEN op ELSE "read"]
-----------------------------------------------------------------------------
\* What is made of the lists.

\* determineOverallStatus.
OverallStatus(seen) ==
    LET Total(list) == seen.indexing[list] + seen.bulk[list]
    IN  IF Total("failed") > CriticalAt THEN "critical"
        ELSE IF Total("waiting") > OverloadedAt THEN "overloaded"
        ELSE IF Total("active") > 0 THEN "processing"
        ELSE IF Total("waiting") > 0 THEN "stalled" ELSE "idle"

\* generateRecommendations.
Recommendations(seen, memory) ==
    (IF BulkConcurrency < 10 /\ memory < 70 THEN {"scale-up"} ELSE {})
        \cup (IF seen.bulk["waiting"] > BacklogAt THEN {"emergency-boost"} ELSE {})
        \cup (IF memory > 90 THEN {"scale-down"} ELSE {})

\* generateAlerts, of the lists.
Alerts(seen) ==
    (IF seen.bulk["failed"] > AlarmAt THEN {"investigate-failures"} ELSE {})
        \cup (IF seen.bulk["waiting"] > BacklogAt THEN {"scale-workers"} ELSE {})

\* calculateProjectedCompletion.
Projection(seen) ==
    IF CurrentThroughput = 0 THEN {"eta unknown"}
    ELSE IF 1000 * seen.again["waiting"] < 172800 * CurrentThroughput THEN {"high"} ELSE {"medium"}

\* getQueueHealth.
Health(counts) == IF counts["failed"] = 0 THEN "healthy" ELSE "degraded"

\* analyzePerformanceBottlenecks.
Bottlenecks(seen, memory) ==
    (IF memory > 80 THEN {"memory"} ELSE {})
        \cup (IF seen.bulk["waiting"] > 10 * seen.bulk["active"] THEN {"worker-capacity"} ELSE {})
        \cup (IF BulkConcurrency < 5 THEN {"configuration"} ELSE {})

\* autoScaleBasedOnLoad, for 'bulk-indexing'; in tenths.
Scaled(seen, memory) ==
    LET now == 10 * BulkConcurrency
        new == IF memory > 85 THEN Max({7 * BulkConcurrency, 10})
               ELSE IF seen.bulk["waiting"] > ScaleAt /\ memory < 70 THEN Min({2 * now, 300}) ELSE now
    IN  IF new > now THEN "scale-up" ELSE IF new < now THEN "scale-down" ELSE "stay"

\* What a request adds after a pass, the last one or the one before.
Found(op, last, seen, memory) ==
    CASE op = "status" -> {OverallStatus(seen)} \cup Recommendations(seen, memory)
      [] op = "dashboard" /\ ~last -> Alerts(seen) \cup Projection(seen)
      [] op = "dashboard" /\ last ->
            {IF {Health(seen.bulk), Health(seen.again)} = {"healthy"} THEN "healthy" ELSE "degraded"}
      [] op \in {"health", "diagnose"} /\ ~last -> {Health(seen.bulk)}
      [] op = "diagnose" /\ last -> Bottlenecks(seen, memory)
      [] op = "scale" -> {Scaled(seen, memory)}
      [] OTHER -> {}

\* An activation reports workers it has not activated: a recommendation.
WorkersActivated(memory) ==
    IF memory >= 70 THEN 0
    ELSE Min({2 * IndexingConcurrency, 100}) - IndexingConcurrency
            + Min({3 * BulkConcurrency, 50}) - BulkConcurrency
-----------------------------------------------------------------------------
Init ==
    /\ job = [j \in Jobs |-> NewJob]
    /\ lost = {}
    /\ suspects = {}
    /\ extra = [waiting |-> 0, delayed |-> 0]
    /\ paused = FALSE
    /\ history = <<>>
    /\ req = [r \in Requests |-> Idle]
    /\ steady = [r \in Requests |-> {}]
    /\ calm = {}
    /\ troubles = 0

\* Bull and the processor of the batches.
Enqueue(j) ==
    /\ job[j].state = "none"
    /\ Put(j, "waiting")
    /\ Fine /\ UNCHANGED <<lost, suspects, extra, paused, history, req, ghosts>>

Take(j) ==
    /\ job[j].state = "waiting"
    /\ ~paused
    /\ Cardinality(InState("active") \ lost) < Slots
    /\ Put(j, "active")
    /\ Fine /\ UNCHANGED <<lost, suspects, extra, paused, history, req, ghosts>>

\* The handler returns, or throws: the batch is tried again after a delay.
Handled(j) ==
    /\ job[j].state = "active" /\ j \notin lost
    /\ \/ Put(j, "completed")
       \/ job' = [job EXCEPT ![j].tries = @ + 1,
                             ![j].state = IF job[j].tries + 1 < Attempts THEN "delayed"
                                          ELSE "failed"]
    /\ suspects' = suspects \ {j}
    /\ Moved({j})
    /\ Fine /\ UNCHANGED <<lost, extra, paused, history, req>>

Retry(j) ==
    /\ job[j].state = "delayed"
    /\ Put(j, "waiting")
    /\ Fine /\ UNCHANGED <<lost, suspects, extra, paused, history, req, ghosts>>

\* moveStalledJobsToWait: suspects without a handler wait again, too often ones
\* have failed; then all active batches are suspects until they renew their
\* locks.
CheckStalled ==
    LET S == suspects \cap lost IN
    /\ job' = [j \in Jobs |->
                  IF j \notin S THEN job[j]
                  ELSE [job[j] EXCEPT !.stalls = @ + 1,
                                      !.state = IF job[j].stalls < MaxStalled THEN "waiting"
                                                ELSE "failed"]]
    /\ lost' = lost \ S
    /\ suspects' = {j \in InState("active") : j \notin S}
    /\ Moved(S)
    /\ Fine /\ UNCHANGED <<extra, paused, history, req>>

RenewLock(j) ==
    /\ j \in suspects \ lost
    /\ suspects' = suspects \ {j}
    /\ Fine /\ UNCHANGED <<job, lost, extra, paused, history, req, ghosts>>

\* The process dies: handlers, requests and the history are lost.
Crash ==
    /\ Fault
    /\ lost' = InState("active")
    /\ history' = <<>>
    /\ req' = [r \in Requests |-> IF req[r].at \in {"idle", "ok", "failed"} THEN req[r]
                                  ELSE Failed(req[r])]
    /\ UNCHANGED <<job, suspects, extra, paused, ghosts>>
-----------------------------------------------------------------------------
Step(r, new) == req' = [req EXCEPT ![r] = new]
At(r, label) == req[r].at = label

Begin(r, op) ==
    /\ At(r, "idle")
    /\ extra.waiting + extra.delayed <= MaxExtra
    /\ Step(r, Started(op))
    /\ steady' = [steady EXCEPT ![r] = IF paused THEN {}
                                       ELSE InState("waiting") \cup InState("active")]
    /\ calm' = calm \cup {r}
    /\ Fine /\ UNCHANGED <<queues, history>>

\* startPerformanceTracking: a measurement is kept, and the oldest dropped,
\* once a minute; one whose lists can not be read is no measurement.
Measure ==
    /\ history' = LastOf(Append(history, CurrentThroughput), HistoryLength)
    /\ Fine /\ UNCHANGED <<queues, req, ghosts>>

\* The lists of a track are read in the order their commands were sent, those
\* of different tracks independently.
Read(r, track) ==
    LET q == req[r]
        list == Head(q.left[1][track])
        queue == IF track = "again" THEN "bulk" ELSE track
    IN
    /\ At(r, "read")
    /\ q.left # <<>> /\ q.left[1][track] # <<>>
    /\ Step(r, [q EXCEPT !.left[1][track] = Tail(@),
                         !.seen[track][list] = Listed(queue, list)])
    /\ Fine /\ UNCHANGED <<queues, history, ghosts>>

\* The next pass begins.
NextPass(r, memory) ==
    /\ At(r, "read")
    /\ Len(req[r].left) > 1 /\ req[r].left[1] = Nothing
    /\ LET q == req[r] IN
        Step(r, [q EXCEPT !.left = Tail(@), !.seen = NoCounts,
                          !.reply = @ \cup Found(q.op, FALSE, q.seen, memory)])
    /\ Fine /\ UNCHANGED <<queues, history, ghosts>>

\* A list can not be read: the details of the workers become one unknown
\* worker, health is unhealthy and the first pass of the diagnostics a failed
\* check; other requests fail.
ReadFails(r, track) ==
    /\ At(r, "read")
    /\ req[r].left # <<>> /\ req[r].left[1][track] # <<>>
    /\ Fault
    /\ Step(r, CASE req[r].op = "status" /\ track = "again" -> [req[r] EXCEPT !.left[1].again = <<>>]
                 [] req[r].op = "health" -> Ok(req[r], {"unhealthy"})
                 [] req[r].op = "diagnose" /\ Len(req[r].left) = 2 ->
                        [req[r] EXCEPT !.left = Tail(@), !.seen = NoCounts]
                 [] OTHER -> Failed(req[r]))
    /\ UNCHANGED <<queues, history, ghosts>>

AllRead(r) == At(r, "read") /\ req[r].left = <<Nothing>>

\* The reply; the diagnostics go on to ask a worker.
Answer(r, memory) ==
    /\ AllRead(r)
    /\ LET q == req[r]  reply == q.reply \cup Found(q.op, TRUE, q.seen, memory) IN
        IF q.op = "diagnose"
        THEN Step(r, [Ok(q, reply) EXCEPT !.at = "ask worker"])
        ELSE Step(r, Ok(q, reply))
    /\ Fine /\ UNCHANGED <<queues, history, ghosts>>

\* checkWorkerResponsiveness: a job for which there is no processor, and 30
\* seconds to wait for it.
AskWorker(r) ==
    /\ At(r, "ask worker")
    /\ \/ /\ extra' = [extra EXCEPT !.waiting = @ + 1]
          /\ Step(r, [req[r] EXCEPT !.at = "worker asked"])
          /\ Fine
       \/ /\ Step(r, Ok(req[r], req[r].reply \cup {"unresponsive"}))
          /\ Fault
          /\ UNCHANGED extra
    /\ UNCHANGED <<job, lost, suspects, paused, history, ghosts>>

WorkerTimesOut(r) ==
    /\ At(r, "worker asked")
    /\ Step(r, Ok(req[r], req[r].reply \cup {"unresponsive"}))
    /\ Fine /\ UNCHANGED <<queues, history, ghosts>>
-----------------------------------------------------------------------------
\* Driving the queues.

\* flushdb: the queues are gone, with their flags and with what handlers of
\* active batches still work on.
Flush(r) ==
    /\ At(r, "boost")
    /\ \/ /\ job' = [j \in Jobs |-> IF job[j].state = "none" THEN job[j]
                                    ELSE [job[j] EXCEPT !.state = "gone"]]
          /\ lost' = {}
          /\ suspects' = {}
          /\ extra' = [waiting |-> 0, delayed |-> 0]
          /\ paused' = FALSE
          /\ Step(r, [req[r] EXCEPT !.at = "activate"])
          /\ Moved(Jobs)
          /\ Fine
       \/ Step(r, Failed(req[r])) /\ Fault /\ UNCHANGED <<queues, ghosts>>
    /\ UNCHANGED history

\* activateAllDormantWorkers: a queue that is found paused is then resumed.
FindPaused(r) ==
    /\ At(r, "activate")
    /\ \/ Step(r, [req[r] EXCEPT !.at = IF paused THEN "resume queue" ELSE "wake up"]) /\ Fine
       \/ Step(r, Failed(req[r])) /\ Fault
    /\ UNCHANGED <<queues, history, ghosts>>

\* Mutant: the other queue is resumed.
ResumeOther(r) ==
    /\ At(r, "resume queue")
    /\ Step(r, [req[r] EXCEPT !.at = "wake up"])
    /\ Fine /\ UNCHANGED <<queues, history, ghosts>>

ResumeQueue(r) ==
    /\ At(r, "resume queue")
    /\ \/ /\ paused' = FALSE
          /\ Step(r, [req[r] EXCEPT !.at = "wake up"])
          /\ IF paused THEN Moved(Jobs) ELSE UNCHANGED ghosts
          /\ Fine
       \/ Step(r, Failed(req[r])) /\ Fault /\ UNCHANGED <<paused, ghosts>>
    /\ UNCHANGED <<job, lost, suspects, extra, history>>

\* Events are published, which no Bull worker listens for; then jobs are added
\* to 'indexing', all but the first with a delay.
WakeUp(r, memory) ==
    /\ At(r, "wake up")
    /\ \E n \in 0 .. Wakeups :
        /\ extra' = [waiting |-> extra.waiting + (IF n = 0 THEN 0 ELSE 1),
                     delayed |-> extra.delayed + (IF n = 0 THEN 0 ELSE n - 1)]
        /\ \/ /\ n = Wakeups /\ Fine
              /\ Step(r, IF req[r].op = "boost" THEN [req[r] EXCEPT !.at = "pick up"]
                         ELSE Ok(req[r], IF WorkersActivated(memory) > 0 THEN {"activated"} ELSE {}))
           \/ n < Wakeups /\ Fault /\ Step(r, Failed(req[r]))
    /\ UNCHANGED <<job, lost, suspects, paused, history, ghosts>>

\* forceJobPickup: the suspects are forgotten, in a pipeline whose commands may
\* fail one by one.
PickUp(r) ==
    /\ At(r, "pick up")
    /\ \/ suspects' = {} /\ Step(r, Ok(req[r], {})) /\ Fine
       \/ /\ UNCHANGED suspects /\ Fault
          /\ Step(r, Ok(req[r], {})) \/ Step(r, Failed(req[r]))
    /\ UNCHANGED <<job, lost, extra, paused, history, ghosts>>

\* pauseQueue, resumeQueue.
SetPaused(r, op) ==
    /\ At(r, op)
    /\ \/ /\ paused' = (op = "pause")
          /\ Step(r, Ok(req[r], {}))
          /\ IF paused' = paused THEN UNCHANGED steady
             ELSE steady' = [s \in Requests |-> {}]
          /\ calm' = IF op = "pause" THEN {} ELSE calm
          /\ Fine
       \/ Step(r, Failed(req[r])) /\ Fault /\ UNCHANGED <<paused, ghosts>>
    /\ UNCHANGED <<job, lost, suspects, extra, history>>

\* getFailedJob: the job, and then its state.
FindJob(r) ==
    /\ At(r, "failed job")
    /\ \/ /\ Fine
          /\ \E j \in Jobs :
              Step(r, IF job[j].state \in {"none", "gone"} THEN Failed(req[r])
                      ELSE [req[r] EXCEPT !.at = "job found", !.got = {j}])
       \/ Step(r, Failed(req[r])) /\ Fault
    /\ UNCHANGED <<queues, history, ghosts>>

JobState(r) ==
    /\ At(r, "job found")
    /\ \/ /\ Fine
          /\ Step(r, IF req[r].got \subseteq InState("failed") THEN Ok(req[r], {})
                     ELSE Failed(req[r]))
       \/ Step(r, Failed(req[r])) /\ Fault
    /\ UNCHANGED <<queues, history, ghosts>>

Bull ==
    \/ \E j \in Jobs : Enqueue(j) \/ Take(j) \/ Handled(j) \/ Retry(j) \/ RenewLock(j)
    \/ CheckStalled
Reading(r) ==
    \/ \E track \in Tracks : Read(r, track)
    \/ \E memory \in MemoryUse : NextPass(r, memory) \/ Answer(r, memory)
    \/ AskWorker(r) \/ WorkerTimesOut(r)
Driving(r) ==
    \/ Flush(r)
    \/ FindPaused(r) \/ ResumeQueue(r)
    \/ \E memory \in MemoryUse : WakeUp(r, memory)
    \/ PickUp(r)
    \/ \E op \in {"pause", "resume"} : SetPaused(r, op)
    \/ FindJob(r) \/ JobState(r)
Next ==
    \/ Bull \/ Crash \/ Measure
    \/ \E r \in Requests : \E op \in Ops[r] : Begin(r, op)
    \/ \E r \in Requests : Driving(r) \/ Reading(r) \/ \E track \in Tracks : ReadFails(r, track)

Spec == Init /\ [][Next]_vars

\* Bull's workers go on, also after a crash; no request is known to end.
Fairness ==
    /\ \A j \in Jobs : WF_vars(Take(j)) /\ SF_vars(Handled(j)) /\ WF_vars(RenewLock(j))
    /\ WF_vars(CheckStalled)

FairSpec == Spec /\ Fairness
-----------------------------------------------------------------------------
\* A status "idle" is true: no batch waited or was active, while the status was
\* put together, all the time.  (A batch that stalls goes back and can be
\* missed, and so can the batches of a paused queue.)
IdleIsTrue ==
    [][\A r \in Requests :
        req[r].op = "status" /\ req[r].at = "read" /\ req'[r].at = "ok"
            /\ "idle" \in req'[r].reply => steady[r] = {}]_vars

\* After an activation a batch that waits is taken, unless the queue is paused
\* again.
ActivationServes ==
    \A r \in Requests, j \in Jobs :
        req[r].op = "activate" /\ req[r].at = "ok" /\ r \in calm /\ job[j].state = "waiting"
            ~> job[j].state # "waiting" \/ r \notin calm
===============================================================================
