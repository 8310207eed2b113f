------------------------ MODULE WorkerManagementProofs ------------------------
(***************************************************************************)
(* What the run checks of a status for one batch, proved for any number of *)
(* batches and requests, any operations, thresholds, failures and crashes. *)
(***************************************************************************)
EXTENDS WorkerManagement, TLAPS, FiniteSetTheorems, SequenceTheorems

States == {"none", "waiting", "active", "delayed", "completed", "failed", "gone"}

Typed ==
    /\ job \in [Jobs -> [state : States, tries : Nat, stalls : Nat]]
    /\ extra \in [waiting : Nat, delayed : Nat]
    /\ paused \in BOOLEAN
    /\ steady \in [Requests -> SUBSET Jobs]
    /\ DOMAIN req = Requests
    /\ \A r \in Requests : {"op", "at"} \subseteq DOMAIN req[r]

\* A status that is being read: a single pass, whose lists of 'bulk-indexing'
\* are read in their order.
Reads == {<<"waiting", "active", "failed">>, <<"active", "failed">>, <<"failed">>, <<>>}
Pass == [indexing : Seq(Lists), bulk : Reads, again : Seq(Lists)]
StatusRead ==
    [op : {"status"}, at : {"read"}, left : {<<p>> : p \in Pass},
     seen : [Tracks -> [Lists -> Nat]], reply : SUBSET {"stable", "increasing", "decreasing"},
     got : SUBSET Jobs]

\* The batches that have been there all the time: where they are, and what the
\* lists that were read tell of them.
Steady(S) == \A j \in S : job[j].state \in {"waiting", "active"}
AllActive(S) == \A j \in S : job[j].state = "active"
Told(q, S) ==
    /\ q.left[1].bulk = <<"active", "failed">> =>
          q.seen["bulk"]["waiting"] > 0 \/ AllActive(S)
    /\ q.left[1].bulk \in {<<"failed">>, <<>>} =>
          q.seen["bulk"]["waiting"] + q.seen["bulk"]["active"] > 0 \/ S = {}

IsStatus(q) == q.op = "status" /\ q.at = "read"

IInv ==
    /\ Typed
    /\ \A r \in Requests : Steady(steady[r]) /\ (paused => steady[r] = {})
    /\ \A r \in Requests : IsStatus(req[r]) => req[r] \in StatusRead /\ Told(req[r], steady[r])

-------------------------------------------------------------------------------
(* Lists and counts.                                                       *)

LEMMA Counts ==
    ASSUME NEW s
    PROVE  /\ Cardinality(InState(s)) \in Nat
           /\ Cardinality(InState(s)) = 0 <=> InState(s) = {}
<1>1. IsFiniteSet(InState(s))
  BY ManagementAssumption, FS_Subset DEF InState
<1> QED  BY <1>1, FS_CardinalityType, FS_EmptySet

LEMMA ListedType ==
    ASSUME Typed, NEW queue \in {"bulk", "indexing"}, NEW list
    PROVE  Listed(queue, list) \in Nat
<1>1. extra.waiting \in Nat
  BY DEF Typed
<1> QED  BY <1>1, Counts DEF Listed

LEMMA TracksAre == Tracks = {"indexing", "bulk", "again"}
  BY DEF Tracks, Nothing

-------------------------------------------------------------------------------
(* Steps that read nothing.                                                *)

\* The batches that stay where a request began to look for them are waiting, or
\* were taken; a request goes on without reading, or stands still.
Keeps ==
    /\ Typed'
    /\ \A r \in Requests :
          /\ steady'[r] \subseteq steady[r]
          /\ \A j \in steady'[r] : \/ job'[j].state = job[j].state
                                   \/ job'[j].state = "active"
          /\ paused' => paused \/ steady'[r] = {}
          /\ req'[r] = req[r] \/ ~IsStatus(req'[r])

LEMMA KeepsIInv ==
    ASSUME IInv, Keeps
    PROVE  IInv'
<1> SUFFICES ASSUME NEW r \in Requests
             PROVE  /\ Steady(steady[r])' /\ (paused => steady[r] = {})'
                    /\ IsStatus(req[r])' =>
                          req'[r] \in StatusRead /\ Told(req[r], steady[r])'
  BY DEF IInv, Keeps
<1>1. /\ steady'[r] \subseteq steady[r] /\ steady[r] \subseteq Jobs
      /\ \A j \in steady'[r] : job'[j].state = job[j].state \/ job'[j].state = "active"
      /\ paused' => paused \/ steady'[r] = {}
      /\ req'[r] = req[r] \/ ~IsStatus(req'[r])
      /\ Steady(steady[r]) /\ (paused => steady[r] = {})
  BY DEF IInv, Keeps, Typed
<1>2. Steady(steady[r])' /\ (paused => steady[r] = {})'
  BY <1>1 DEF Steady
<1>3. ASSUME IsStatus(req'[r])
      PROVE  req'[r] \in StatusRead /\ Told(req[r], steady[r])'
  <2>1. req'[r] = req[r] /\ IsStatus(req[r])
    BY <1>1, <1>3
  <2>2. req[r] \in StatusRead /\ Told(req[r], steady[r])
    BY <2>1 DEF IInv
  <2>3. AllActive(steady[r]) => AllActive(steady[r])'
    BY <1>1 DEF AllActive
  <2>4. Told(req[r], steady[r])'
    BY <1>1, <2>1, <2>2, <2>3 DEF Told
  <2> QED  BY <2>1, <2>2, <2>4
<1> QED  BY <1>2, <1>3 DEF IsStatus

\* Steps of Bull touch one batch.
LEMMA BullKeeps ==
    ASSUME IInv, NEW j \in Jobs,
           Enqueue(j) \/ Take(j) \/ Handled(j) \/ Retry(j) \/ RenewLock(j)
    PROVE  Keeps
<1>1. Typed /\ \A r \in Requests : Steady(steady[r])
  BY DEF IInv
<1>2. PICK x \in [state : States, tries : Nat, stalls : Nat] :
        /\ job' = [job EXCEPT ![j] = x]
        /\ \/ x = job[j] /\ UNCHANGED steady
           \/ job[j].state \notin {"waiting", "active"} /\ UNCHANGED steady
           \/ x.state = "active" /\ UNCHANGED steady
           \/ steady' = [r \in Requests |-> steady[r] \ {j}]
  <2>1. job[j] \in [state : States, tries : Nat, stalls : Nat]
    BY <1>1 DEF Typed
  <2>2. CASE Enqueue(j)
    <3>1. /\ job' = [job EXCEPT ![j] = [job[j] EXCEPT !.state = "waiting"]]
          /\ job[j].state = "none" /\ UNCHANGED steady
      BY <2>2 DEF Enqueue, Put, ghosts
    <3>2. [job[j] EXCEPT !.state = "waiting"] \in [state : States, tries : Nat, stalls : Nat]
      BY <2>1 DEF States
    <3> QED  BY <3>1, <3>2
  <2>3. CASE Take(j)
    <3>1. job' = [job EXCEPT ![j] = [job[j] EXCEPT !.state = "active"]] /\ UNCHANGED steady
      BY <2>3 DEF Take, Put, ghosts
    <3>2. /\ [job[j] EXCEPT !.state = "active"] \in [state : States, tries : Nat, stalls : Nat]
          /\ [job[j] EXCEPT !.state = "active"].state = "active"
      BY <2>1 DEF States
    <3> QED  BY <3>1, <3>2
  <2>4. CASE Handled(j)
    <3>1. PICK t \in {job[j].tries, job[j].tries + 1}, s \in {"completed", "delayed", "failed"} :
            job' = [job EXCEPT ![j] = [job[j] EXCEPT !.tries = t, !.state = s]]
      <4>1. CASE Put(j, "completed")
        <5>1. job' = [job EXCEPT ![j] = [job[j] EXCEPT !.state = "completed"]]
          BY <4>1 DEF Put
        <5>2. [job[j] EXCEPT !.state = "completed"]
                = [job[j] EXCEPT !.tries = job[j].tries, !.state = "completed"]
          BY <2>1
        <5> QED  BY <5>1, <5>2
      <4>2. CASE job' = [job EXCEPT ![j].tries = @ + 1,
                             ![j].state = IF job[j].tries + 1 < Attempts THEN "delayed"
                                          ELSE "failed"]
        <5>1. PICK s \in {"delayed", "failed"} :
                job' = [job EXCEPT ![j].tries = @ + 1, ![j].state = s]
          BY <4>2
        <5>2. job' = [job EXCEPT ![j] = [job[j] EXCEPT !.tries = job[j].tries + 1, !.state = s]]
          BY <1>1, <5>1 DEF Typed
        <5> QED  BY <5>2
      <4> QED  BY <2>4, <4>1, <4>2 DEF Handled
    <3>2. [job[j] EXCEPT !.tries = t, !.state = s] \in [state : States, tries : Nat, stalls : Nat]
      <4>1. t \in Nat /\ s \in States
        BY <2>1 DEF States
      <4> QED  BY <2>1, <4>1
    <3>3. steady' = [r \in Requests |-> steady[r] \ {j}]
      BY <2>4 DEF Handled, Moved
    <3> QED  BY <3>1, <3>2, <3>3
  <2>5. CASE Retry(j)
    <3>1. /\ job' = [job EXCEPT ![j] = [job[j] EXCEPT !.state = "waiting"]]
          /\ job[j].state = "delayed" /\ UNCHANGED steady
      BY <2>5 DEF Retry, Put, ghosts
    <3>2. [job[j] EXCEPT !.state = "waiting"] \in [state : States, tries : Nat, stalls : Nat]
      BY <2>1 DEF States
    <3> QED  BY <3>1, <3>2
  <2>6. CASE RenewLock(j)
    <3>1. job' = job /\ UNCHANGED steady
      BY <2>6 DEF RenewLock, ghosts
    <3>2. job' = [job EXCEPT ![j] = job[j]]
      BY <1>1, <3>1 DEF Typed
    <3> QED  BY <2>1, <3>1, <3>2
  <2> QED  BY <2>2, <2>3, <2>4, <2>5, <2>6
<1>3. UNCHANGED <<extra, paused, req>>
  BY DEF Enqueue, Take, Handled, Retry, RenewLock
<1>4. job'[j] = x /\ \A k \in Jobs \ {j} : job'[k] = job[k]
  BY <1>1, <1>2 DEF Typed
<1>5. \A r \in Requests : steady'[r] \subseteq steady[r] /\ steady[r] \subseteq Jobs
  BY <1>1, <1>2 DEF Typed
<1>6. Typed'
  <2>1. steady' \in [Requests -> SUBSET Jobs]
    BY <1>1, <1>2 DEF Typed
  <2> QED  BY <1>1, <1>2, <1>3, <2>1 DEF Typed
<1>7. ASSUME NEW r \in Requests, NEW k \in steady'[r]
      PROVE  job'[k].state = job[k].state \/ job'[k].state = "active"
  <2>1. CASE k # j
    BY <1>4, <1>5, <1>7, <2>1
  <2>2. CASE k = j
    <3>1. k \in steady[r] /\ job[j].state \in {"waiting", "active"}
      BY <1>1, <1>5, <1>7, <2>2 DEF Steady
    <3> QED  BY <1>2, <1>4, <1>7, <2>2, <3>1
  <2> QED  BY <2>1, <2>2
<1> QED  BY <1>3, <1>5, <1>6, <1>7 DEF Keeps

LEMMA CheckKeeps ==
    ASSUME IInv, CheckStalled
    PROVE  Keeps
<1>1. PICK S : /\ S = suspects \cap lost
               /\ job' = [j \in Jobs |->
                            IF j \notin S THEN job[j]
                            ELSE [job[j] EXCEPT !.stalls = @ + 1,
                                      !.state = IF job[j].stalls < MaxStalled THEN "waiting"
                                                ELSE "failed"]]
               /\ steady' = [r \in Requests |-> steady[r] \ S]
               /\ UNCHANGED <<extra, paused, req>>
  BY DEF CheckStalled, Moved
<1>2. Typed
  BY DEF IInv
<1>3. ASSUME NEW j \in Jobs
      PROVE  job'[j] \in [state : States, tries : Nat, stalls : Nat]
  <2>1. job[j] \in [state : States, tries : Nat, stalls : Nat]
    BY <1>2 DEF Typed
  <2>2. CASE j \notin S
    BY <1>1, <2>1, <2>2
  <2>3. CASE j \in S
    <3>1. PICK s \in {"waiting", "failed"} :
            job'[j] = [job[j] EXCEPT !.stalls = job[j].stalls + 1, !.state = s]
      BY <1>1, <2>3
    <3>2. job[j].stalls + 1 \in Nat /\ s \in States
      BY <2>1 DEF States
    <3> QED  BY <2>1, <3>1, <3>2
  <2> QED  BY <2>2, <2>3
<1>4. Typed'
  <2>1. job' \in [Jobs -> [state : States, tries : Nat, stalls : Nat]]
    <3>1. job' = [j \in Jobs |-> job'[j]]
      BY <1>1
    <3> QED  BY <1>3, <3>1
  <2>2. steady' \in [Requests -> SUBSET Jobs]
    BY <1>1, <1>2 DEF Typed
  <2> QED  BY <1>1, <1>2, <2>1, <2>2 DEF Typed
<1>5. ASSUME NEW r \in Requests
      PROVE  /\ steady'[r] \subseteq steady[r]
             /\ \A j \in steady'[r] : job'[j].state = job[j].state
  <2>1. steady'[r] = steady[r] \ S /\ steady[r] \subseteq Jobs
    BY <1>1, <1>2 DEF Typed
  <2> QED  BY <1>1, <2>1
<1> QED  BY <1>1, <1>4, <1>5 DEF Keeps

\* A request that does not read a status.
Away(q) == {"op", "at"} \subseteq DOMAIN q /\ ~IsStatus(q)

\* A request that steps without reading leaves the others as they are.
LEMMA StepKeeps ==
    ASSUME IInv, NEW r \in Requests, NEW new, Step(r, new),
           Away(new),
           job' = job, extra' \in [waiting : Nat, delayed : Nat], paused' \in BOOLEAN,
           steady' \in [Requests -> SUBSET Jobs],
           \A s \in Requests : steady'[s] \subseteq steady[s],
           paused' => paused \/ \A s \in Requests : steady'[s] = {}
    PROVE  Keeps
<1>1. /\ DOMAIN req' = Requests /\ req'[r] = new
      /\ \A s \in Requests \ {r} : req'[s] = req[s]
  BY DEF Step, IInv, Typed
<1>2. Typed'
  BY <1>1 DEF IInv, Typed, Away
<1> QED  BY <1>1, <1>2 DEF Keeps, Away

LEMMA QuietStep ==
    ASSUME IInv, NEW r \in Requests, NEW new, Step(r, new), Away(new),
           UNCHANGED <<job, extra, paused, steady>>
    PROVE  Keeps
  BY StepKeeps DEF IInv, Typed

LEMMA Forms ==
    /\ \A q : /\ {"op", "at"} \subseteq DOMAIN Failed(q)
              /\ Failed(q).at = "failed" /\ Failed(q).op = q.op
    /\ \A q, reply : /\ {"op", "at"} \subseteq DOMAIN Ok(q, reply)
                     /\ Ok(q, reply).at = "ok" /\ Ok(q, reply).op = q.op
                     /\ Ok(q, reply).reply = reply
  BY DEF Failed, Ok, Idle

LEMMA AtForms ==
    ASSUME NEW q, {"op", "at"} \subseteq DOMAIN q, NEW a, a # "read"
    PROVE  Away([q EXCEPT !.at = a])
  BY DEF Away, IsStatus

LEMMA Ended == \A q, reply : Away(Failed(q)) /\ Away(Ok(q, reply))
  BY Forms DEF Away, IsStatus

LEMMA CrashKeeps ==
    ASSUME IInv, Crash
    PROVE  Keeps
<1>1. /\ UNCHANGED <<job, extra, paused, steady>>
      /\ req' = [r \in Requests |-> IF req[r].at \in {"idle", "ok", "failed"} THEN req[r]
                                    ELSE Failed(req[r])]
  BY DEF Crash, ghosts
<1>2. Typed'
  BY <1>1, Forms DEF IInv, Typed
<1>3. \A r \in Requests : req'[r] = req[r] \/ ~IsStatus(req'[r])
  BY <1>1, Forms DEF IsStatus
<1> QED  BY <1>1, <1>2, <1>3 DEF Keeps

LEMMA IdleKeeps ==
    ASSUME IInv, UNCHANGED <<job, extra, paused, steady, req>>
    PROVE  Keeps
  BY DEF IInv, Typed, Keeps

-------------------------------------------------------------------------------
(* Requests.                                                               *)

LEMMA DrivingKeeps ==
    ASSUME IInv, NEW r \in Requests, Driving(r)
    PROVE  Keeps
<1>1. Typed /\ {"op", "at"} \subseteq DOMAIN req[r]
  BY DEF IInv, Typed
<1>2. CASE Flush(r)
  <2>1. CASE Step(r, Failed(req[r])) /\ UNCHANGED <<queues, ghosts>>
    BY <2>1, Ended, QuietStep DEF queues, ghosts
  <2>2. CASE /\ job' = [j \in Jobs |-> IF job[j].state = "none" THEN job[j]
                                       ELSE [job[j] EXCEPT !.state = "gone"]]
             /\ extra' = [waiting |-> 0, delayed |-> 0] /\ paused' = FALSE
             /\ Step(r, [req[r] EXCEPT !.at = "activate"])
             /\ Moved(Jobs)
    <3>1. steady' = [s \in Requests |-> {}]
      BY <1>1, <2>2 DEF Moved, Typed
    <3>2. /\ DOMAIN req' = Requests /\ \A s \in Requests \ {r} : req'[s] = req[s]
          /\ req'[r] = [req[r] EXCEPT !.at = "activate"]
      BY <1>1, <2>2 DEF Step, Typed
    <3>3. Away(req'[r])
      BY <1>1, <3>2, AtForms
    <3>4. job' \in [Jobs -> [state : States, tries : Nat, stalls : Nat]]
      BY <1>1, <2>2 DEF Typed, States
    <3>5. Typed'
      <4>1. \A s \in Requests : {"op", "at"} \subseteq DOMAIN req'[s]
        BY <1>1, <3>2, <3>3 DEF Typed, Away
      <4>2. extra' \in [waiting : Nat, delayed : Nat] /\ paused' \in BOOLEAN
        BY <2>2
      <4>3. steady' \in [Requests -> SUBSET Jobs]
        BY <3>1
      <4> QED  BY <3>2, <3>4, <4>1, <4>2, <4>3 DEF Typed
    <3> QED  BY <2>2, <3>1, <3>2, <3>3, <3>5 DEF Keeps, Away
  <2> QED  BY <1>2, <2>1, <2>2 DEF Flush
<1>3. CASE FindPaused(r)
  <2>1. PICK a \in {"resume queue", "wake up", "failed"} :
          \/ Step(r, [req[r] EXCEPT !.at = a])
          \/ Step(r, Failed(req[r]))
    BY <1>3 DEF FindPaused
  <2>2. UNCHANGED <<queues, ghosts>>
    BY <1>3 DEF FindPaused
  <2> QED  BY <1>1, <2>1, <2>2, Ended, AtForms, QuietStep DEF queues, ghosts
<1>4. CASE ResumeQueue(r)
  <2>1. /\ \/ Step(r, [req[r] EXCEPT !.at = "wake up"])
           \/ Step(r, Failed(req[r]))
        /\ paused' = paused \/ paused' = FALSE
        /\ UNCHANGED <<job, extra>>
        /\ steady' = steady \/ Moved(Jobs)
    BY <1>4 DEF ResumeQueue, ghosts
  <2>2. /\ steady' \in [Requests -> SUBSET Jobs]
        /\ \A s \in Requests : steady'[s] \subseteq steady[s]
    BY <1>1, <2>1 DEF Moved, Typed
  <2>3. paused' \in BOOLEAN /\ (paused' => paused)
    <3>1. paused \in BOOLEAN
      BY <1>1 DEF Typed
    <3>2. CASE paused' = paused
      BY <3>1, <3>2
    <3>3. CASE paused' = FALSE
      BY <3>3
    <3> QED  BY <2>1, <3>2, <3>3
  <2>4. job' = job /\ extra' \in [waiting : Nat, delayed : Nat]
    BY <1>1, <2>1 DEF Typed
  <2> QED  BY <1>1, <2>1, <2>2, <2>3, <2>4, Ended, AtForms, StepKeeps
<1>5. ASSUME NEW memory \in MemoryUse, WakeUp(r, memory) PROVE Keeps
  <2>1. PICK n, reply :
          /\ n \in 0 .. Wakeups
          /\ extra' = [waiting |-> extra.waiting + (IF n = 0 THEN 0 ELSE 1),
                       delayed |-> extra.delayed + (IF n = 0 THEN 0 ELSE n - 1)]
          /\ \/ Step(r, [req[r] EXCEPT !.at = "pick up"])
             \/ Step(r, Ok(req[r], reply))
             \/ Step(r, Failed(req[r]))
    BY <1>5 DEF WakeUp
  <2>2. extra' \in [waiting : Nat, delayed : Nat]
    <3>1. extra.waiting \in Nat /\ extra.delayed \in Nat /\ n \in Nat
      <4>1. Wakeups \in Nat
        BY ManagementAssumption
      <4>2. n \in Nat
        <5>1. n \in 0 .. Wakeups
          BY <2>1
        <5> QED  BY <4>1, <5>1
      <4> QED  BY <1>1, <4>2 DEF Typed
    <3>2. /\ extra.waiting + (IF n = 0 THEN 0 ELSE 1) \in Nat
          /\ extra.delayed + (IF n = 0 THEN 0 ELSE n - 1) \in Nat
      BY <3>1
    <3> QED  BY <2>1, <3>2
  <2>3. UNCHANGED <<job, paused, steady>>
    BY <1>5 DEF WakeUp, ghosts
  <2> QED  BY <1>1, <2>1, <2>2, <2>3, Ended, AtForms, StepKeeps DEF Typed
<1>6. CASE PickUp(r)
  <2>1. Step(r, Ok(req[r], {})) \/ Step(r, Failed(req[r]))
    BY <1>6 DEF PickUp
  <2>2. UNCHANGED <<job, extra, paused, steady>>
    BY <1>6 DEF PickUp, ghosts
  <2> QED  BY <2>1, <2>2, Ended, QuietStep
<1>7. ASSUME NEW op \in {"pause", "resume"}, SetPaused(r, op) PROVE Keeps
  <2>1. /\ Step(r, Ok(req[r], {})) \/ Step(r, Failed(req[r]))
        /\ \/ UNCHANGED <<paused, steady>>
           \/ steady' = [s \in Requests |-> {}] /\ paused' \in BOOLEAN
        /\ UNCHANGED <<job, extra>>
    BY <1>7 DEF SetPaused, ghosts
  <2>2. /\ steady' \in [Requests -> SUBSET Jobs]
        /\ \A s \in Requests : steady'[s] \subseteq steady[s]
        /\ paused' \in BOOLEAN
        /\ paused' => paused \/ \A s \in Requests : steady'[s] = {}
    BY <1>1, <2>1 DEF Typed
  <2> QED  BY <1>1, <2>1, <2>2, Ended, StepKeeps DEF Typed
<1>8. CASE FindJob(r)
  <2>1. PICK new : /\ Step(r, new)
                   /\ \/ new = Failed(req[r])
                      \/ \E j : new = [req[r] EXCEPT !.at = "job found", !.got = {j}]
    BY <1>8 DEF FindJob
  <2>2. Away(new)
    <3>1. CASE new = Failed(req[r])
      BY <3>1, Ended
    <3>2. ASSUME NEW j, new = [req[r] EXCEPT !.at = "job found", !.got = {j}]
          PROVE  Away(new)
      BY <1>1, <3>2 DEF Away, IsStatus
    <3> QED  BY <2>1, <3>1, <3>2
  <2>3. UNCHANGED <<queues, ghosts>>
    BY <1>8 DEF FindJob
  <2> QED  BY <2>1, <2>2, <2>3, QuietStep DEF queues, ghosts
<1>9. CASE JobState(r)
  <2>1. Step(r, Ok(req[r], {})) \/ Step(r, Failed(req[r]))
    BY <1>9 DEF JobState
  <2>2. UNCHANGED <<queues, ghosts>>
    BY <1>9 DEF JobState
  <2> QED  BY <2>1, <2>2, Ended, QuietStep DEF queues, ghosts
<1> QED  BY <1>2, <1>3, <1>4, <1>5, <1>6, <1>7, <1>8, <1>9 DEF Driving

\* The steps of requests that read something else than a status.
LEMMA OtherReadingKeeps ==
    ASSUME IInv, NEW r \in Requests, ~IsStatus(req[r]),
           Reading(r) \/ \E track \in Tracks : ReadFails(r, track)
    PROVE  Keeps
<1>1. Typed /\ {"op", "at"} \subseteq DOMAIN req[r]
  BY DEF IInv, Typed
<1>2. ASSUME NEW track \in Tracks, Read(r, track) PROVE Keeps
  <2>1. PICK t, n, l, new :
          /\ Step(r, new)
          /\ new = [req[r] EXCEPT !.left[1][track] = t, !.seen[track][l] = n]
    BY <1>2 DEF Read
  <2>2. Away(new)
    BY <1>1, <2>1 DEF Away, IsStatus
  <2>3. UNCHANGED <<queues, ghosts>>
    BY <1>2 DEF Read
  <2> QED  BY <2>1, <2>2, <2>3, QuietStep DEF queues, ghosts
<1>3. ASSUME NEW memory \in MemoryUse, NextPass(r, memory) PROVE Keeps
  <2>1. PICK a, b, c, new :
          /\ Step(r, new)
          /\ new = [req[r] EXCEPT !.left = a, !.seen = b, !.reply = c]
    BY <1>3 DEF NextPass
  <2>2. Away(new)
    BY <1>1, <2>1 DEF Away, IsStatus
  <2>3. UNCHANGED <<queues, ghosts>>
    BY <1>3 DEF NextPass
  <2> QED  BY <2>1, <2>2, <2>3, QuietStep DEF queues, ghosts
<1>4. ASSUME NEW memory \in MemoryUse, Answer(r, memory) PROVE Keeps
  <2>1. PICK reply, new :
          /\ Step(r, new)
          /\ new \in {Ok(req[r], reply), [Ok(req[r], reply) EXCEPT !.at = "ask worker"]}
    BY <1>4 DEF Answer
  <2>2. Away(new)
    <3>1. CASE new = Ok(req[r], reply)
      BY <3>1, Ended
    <3>2. CASE new = [Ok(req[r], reply) EXCEPT !.at = "ask worker"]
      <4>1. {"op", "at"} \subseteq DOMAIN Ok(req[r], reply)
        BY Forms
      <4> QED  BY <3>2, <4>1, AtForms
    <3> QED  BY <2>1, <3>1, <3>2
  <2>3. UNCHANGED <<queues, ghosts>>
    BY <1>4 DEF Answer
  <2> QED  BY <2>1, <2>2, <2>3, QuietStep DEF queues, ghosts
<1>5. CASE AskWorker(r)
  <2>1. PICK reply, new :
          /\ Step(r, new)
          /\ new \in {Ok(req[r], reply), [req[r] EXCEPT !.at = "worker asked"]}
          /\ extra' = [extra EXCEPT !.waiting = extra.waiting + 1] \/ extra' = extra
    BY <1>5 DEF AskWorker
  <2>2. Away(new)
    <3>1. CASE new = Ok(req[r], reply)
      BY <3>1, Ended
    <3>2. CASE new = [req[r] EXCEPT !.at = "worker asked"]
      BY <1>1, <3>2, AtForms
    <3> QED  BY <2>1, <3>1, <3>2
  <2>3. UNCHANGED <<job, paused, steady>>
    BY <1>5 DEF AskWorker, ghosts
  <2>4. extra' \in [waiting : Nat, delayed : Nat]
    <3>1. extra \in [waiting : Nat, delayed : Nat] /\ extra.waiting + 1 \in Nat
      BY <1>1 DEF Typed
    <3> QED  BY <2>1, <3>1
  <2> QED  BY <1>1, <2>1, <2>2, <2>3, <2>4, StepKeeps DEF Typed
<1>6. CASE WorkerTimesOut(r)
  <2>1. Step(r, Ok(req[r], req[r].reply \cup {"unresponsive"}))
    BY <1>6 DEF WorkerTimesOut
  <2>2. UNCHANGED <<queues, ghosts>>
    BY <1>6 DEF WorkerTimesOut
  <2> QED  BY <2>1, <2>2, Ended, QuietStep DEF queues, ghosts
<1>7. ASSUME NEW track \in Tracks, ReadFails(r, track) PROVE Keeps
  <2>1. PICK reply, a, b, new :
          /\ Step(r, new)
          /\ \/ new \in {Ok(req[r], reply), Failed(req[r])}
             \/ new = [req[r] EXCEPT !.left = a, !.seen = b]
             \/ new = [req[r] EXCEPT !.left[1].again = <<>>]
    BY <1>7 DEF ReadFails
  <2>2. Away(new)
    <3>1. CASE new \in {Ok(req[r], reply), Failed(req[r])}
      BY <3>1, Ended
    <3>2. CASE new = [req[r] EXCEPT !.left = a, !.seen = b]
      BY <1>1, <3>2 DEF Away, IsStatus
    <3>3. CASE new = [req[r] EXCEPT !.left[1].again = <<>>]
      BY <1>1, <3>3 DEF Away, IsStatus
    <3> QED  BY <2>1, <3>1, <3>2, <3>3
  <2>3. UNCHANGED <<queues, ghosts>>
    BY <1>7 DEF ReadFails
  <2> QED  BY <2>1, <2>2, <2>3, QuietStep DEF queues, ghosts
<1> QED  BY <1>2, <1>3, <1>4, <1>5, <1>6, <1>7 DEF Reading

-------------------------------------------------------------------------------
(* Reading a status.                                                       *)

LEMMA TrendType == \A rates : Trend(rates) \in {"stable", "increasing", "decreasing"}
  BY DEF Trend

LEMMA StatusStarts ==
    ASSUME NEW op, op = "status"
    PROVE  /\ Started(op) \in StatusRead
           /\ Started(op).left[1].bulk = <<"waiting", "active", "failed">>
<1>1. PICK p : p = [indexing |-> Metrics, bulk |-> Metrics, again |-> <<"active">>]
  OBVIOUS
<1>2. p \in Pass /\ p.bulk = <<"waiting", "active", "failed">>
  BY <1>1 DEF Pass, Reads, Metrics, Lists
<1>3. Passes(op) = <<p>>
  BY <1>1 DEF Passes
<1>4. <<p>> # <<>>
  OBVIOUS
<1>5. Known(op) \in SUBSET {"stable", "increasing", "decreasing"}
  BY TrendType DEF Known
<1>6. NoCounts \in [Tracks -> [Lists -> Nat]]
  BY DEF NoCounts
<1>7. Started(op) = [op |-> op, at |-> "read", left |-> <<p>>, seen |-> NoCounts,
                     reply |-> Known(op), got |-> {}]
  <2>1. Started(op) = [Idle EXCEPT !.op = op, !.left = <<p>>, !.reply = Known(op), !.at = "read"]
    BY <1>3, <1>4 DEF Started
  <2> QED  BY <2>1 DEF Idle
<1>8. Started(op) \in StatusRead
  BY <1>2, <1>5, <1>6, <1>7 DEF StatusRead
<1> QED  BY <1>2, <1>7, <1>8

\* A request begins; of the batches it looks for none is yet told.
LEMMA BeginStep ==
    ASSUME IInv, NEW r \in Requests, NEW op, Begin(r, op)
    PROVE  IInv'
<1>1. /\ Typed /\ req' = [req EXCEPT ![r] = Started(op)]
      /\ steady' = [steady EXCEPT ![r] = IF paused THEN {}
                                         ELSE InState("waiting") \cup InState("active")]
      /\ UNCHANGED <<job, extra, paused>>
  BY DEF IInv, Begin, Step, queues
<1>2. /\ DOMAIN req' = Requests /\ req'[r] = Started(op)
      /\ \A s \in Requests \ {r} : req'[s] = req[s] /\ steady'[s] = steady[s]
      /\ steady'[r] = IF paused THEN {} ELSE InState("waiting") \cup InState("active")
      /\ steady' \in [Requests -> SUBSET Jobs]
  BY <1>1 DEF Typed, InState
<1>3. {"op", "at"} \subseteq DOMAIN Started(op) /\ Started(op).op = op
  BY DEF Started, Idle
<1>4. Typed'
  BY <1>1, <1>2, <1>3 DEF Typed
<1>5. Steady(steady[r])' /\ (paused => steady[r] = {})'
  BY <1>1, <1>2 DEF Steady, InState
<1>6. ASSUME IsStatus(req'[r])
      PROVE  req'[r] \in StatusRead /\ Told(req[r], steady[r])'
  <2>1. op = "status"
    BY <1>2, <1>3, <1>6 DEF IsStatus
  <2>2. req'[r] \in StatusRead /\ req'[r].left[1].bulk = <<"waiting", "active", "failed">>
    BY <1>2, <2>1, StatusStarts
  <2> QED  BY <2>2 DEF Told
<1>7. ASSUME NEW s \in Requests \ {r}
      PROVE  /\ Steady(steady[s])' /\ (paused => steady[s] = {})'
             /\ IsStatus(req[s])' => req'[s] \in StatusRead /\ Told(req[s], steady[s])'
  BY <1>1, <1>2 DEF IInv, Steady, Told, IsStatus, AllActive
<1> QED  BY <1>4, <1>5, <1>6, <1>7 DEF IInv, IsStatus

LEMMA StatusFields ==
    ASSUME NEW q \in StatusRead
    PROVE  /\ q.op = "status" /\ q.at = "read"
           /\ \E p \in Pass : q.left = <<p>> /\ q.left[1] = p
           /\ q.seen \in [Tracks -> [Lists -> Nat]]
           /\ q.reply \subseteq {"stable", "increasing", "decreasing"}
           /\ {"op", "at"} \subseteq DOMAIN q
           /\ {"waiting", "active"} \subseteq Lists /\ "bulk" \in Tracks
           /\ \A l \in Lists : q.seen["bulk"][l] \in Nat /\ q.seen["indexing"][l] \in Nat
  BY TracksAre DEF StatusRead, Lists

LEMMA ReadStep ==
    ASSUME IInv, NEW r \in Requests, IsStatus(req[r]), NEW track \in Tracks, Read(r, track)
    PROVE  IInv'
<1>1. PICK q \in StatusRead : q = req[r] /\ Told(q, steady[r])
  BY DEF IInv
<1>2. PICK p \in Pass : q.left = <<p>> /\ q.left[1] = p
  BY <1>1, StatusFields
<1>3. PICK l, n, queue :
        /\ p[track] # <<>> /\ l = Head(p[track])
        /\ queue = IF track = "again" THEN "bulk" ELSE track
        /\ n = Listed(queue, l)
        /\ req' = [req EXCEPT ![r] = [q EXCEPT !.left[1][track] = Tail(p[track]),
                                               !.seen[track][l] = n]]
        /\ UNCHANGED <<queues, ghosts>>
  BY <1>1, <1>2 DEF Read, Step
<1>4. Typed /\ UNCHANGED <<job, extra, paused, steady>>
  BY <1>3 DEF IInv, queues, ghosts
<1>5. n \in Nat
  <2>1. queue \in {"bulk", "indexing"}
    BY <1>3, TracksAre
  <2> QED  BY <1>3, <1>4, <2>1, ListedType
<1>6. PICK t : /\ t = [p EXCEPT ![track] = Tail(p[track])]
               /\ l \in Lists /\ t \in Pass
  <2>1. CASE track = "bulk"
    <3>1. p[track] = p.bulk /\ p.bulk \in Reads
      BY <2>1 DEF Pass
    <3>2. Head(p[track]) \in Lists /\ Tail(p[track]) \in Reads
      <4>1. CASE p.bulk = <<"waiting", "active", "failed">>
        BY <3>1, <4>1 DEF Reads, Lists
      <4>2. CASE p.bulk = <<"active", "failed">>
        BY <3>1, <4>2 DEF Reads, Lists
      <4>3. CASE p.bulk = <<"failed">>
        BY <3>1, <4>3 DEF Reads, Lists
      <4> QED  BY <1>3, <3>1, <4>1, <4>2, <4>3 DEF Reads
    <3>3. [p EXCEPT !.bulk = Tail(p[track])] \in Pass
      BY <3>2 DEF Pass
    <3> QED  BY <1>3, <2>1, <3>2, <3>3
  <2>2. CASE track = "indexing"
    <3>1. p[track] = p.indexing /\ p.indexing \in Seq(Lists)
      BY <2>2 DEF Pass
    <3>2. Head(p[track]) \in Lists /\ Tail(p[track]) \in Seq(Lists)
      BY <1>3, <3>1, HeadTailProperties
    <3>3. [p EXCEPT !.indexing = Tail(p[track])] \in Pass
      BY <3>2 DEF Pass
    <3> QED  BY <1>3, <2>2, <3>2, <3>3
  <2>3. CASE track = "again"
    <3>1. p[track] = p.again /\ p.again \in Seq(Lists)
      BY <2>3 DEF Pass
    <3>2. Head(p[track]) \in Lists /\ Tail(p[track]) \in Seq(Lists)
      BY <1>3, <3>1, HeadTailProperties
    <3>3. [p EXCEPT !.again = Tail(p[track])] \in Pass
      BY <3>2 DEF Pass
    <3> QED  BY <1>3, <2>3, <3>2, <3>3
  <2> QED  BY <2>1, <2>2, <2>3, TracksAre
<1>7. PICK new : new = [q EXCEPT !.left[1][track] = Tail(p[track]), !.seen[track][l] = n]
  OBVIOUS
<1>8. /\ new = [q EXCEPT !.left = <<t>>, !.seen = [q.seen EXCEPT ![track] = [@ EXCEPT ![l] = n]]]
  <2>1. [q.left EXCEPT ![1] = t] = <<t>>
    BY <1>2
  <2> QED  BY <1>1, <1>2, <1>6, <1>7, <2>1 DEF StatusRead
<1>9. PICK seen : /\ seen = [q.seen EXCEPT ![track] = [q.seen[track] EXCEPT ![l] = n]]
                  /\ seen \in [Tracks -> [Lists -> Nat]]
  <2>1. q.seen \in [Tracks -> [Lists -> Nat]]
    BY StatusFields
  <2>2. q.seen[track] \in [Lists -> Nat]
    BY <2>1
  <2>3. [q.seen[track] EXCEPT ![l] = n] \in [Lists -> Nat]
    BY <1>5, <2>2
  <2>4. \A e \in [Lists -> Nat] : [q.seen EXCEPT ![track] = e] \in [Tracks -> [Lists -> Nat]]
    BY <2>1
  <2>5. [q.seen EXCEPT ![track] = [q.seen[track] EXCEPT ![l] = n]] \in [Tracks -> [Lists -> Nat]]
    BY <2>3, <2>4
  <2> QED  BY <2>5
<1>10. /\ new \in StatusRead /\ new.left[1] = t /\ new.seen = seen
  BY <1>6, <1>8, <1>9 DEF StatusRead
<1>11. Told(new, steady[r])'
  <2>1. CASE track # "bulk"
    <3>1. t.bulk = p.bulk /\ seen["bulk"] = q.seen["bulk"]
      BY <1>6, <1>9, <2>1, StatusFields, TracksAre DEF Pass
    <3> QED  BY <1>1, <1>2, <1>4, <1>10, <3>1 DEF Told, AllActive
  <2>2. CASE track = "bulk"
    <3>1. /\ t.bulk = Tail(p.bulk) /\ p.bulk = p[track] /\ p.bulk \in Reads
          /\ seen["bulk"] = [q.seen["bulk"] EXCEPT ![l] = n]
          /\ n = Listed("bulk", l)
      BY <1>3, <1>6, <1>9, <2>2, StatusFields, TracksAre DEF Pass
    <3>2. q.seen["bulk"] \in [Lists -> Nat]
      BY StatusFields
    <3>3. steady[r] \subseteq Jobs /\ Steady(steady[r]) /\ (paused => steady[r] = {})
      BY DEF IInv, Typed
    <3>4. CASE p.bulk = <<"waiting", "active", "failed">>
      <4>1. l = "waiting" /\ t.bulk = <<"active", "failed">>
        BY <1>3, <3>1, <3>4
      <4>2. n > 0 \/ AllActive(steady[r])
        <5>1. CASE paused
          BY <3>3, <5>1 DEF AllActive
        <5>2. CASE ~paused
          <6>1. n = Cardinality(InState("waiting"))
            BY <3>1, <4>1, <5>2 DEF Listed
          <6>2. CASE n = 0
            <7>1. InState("waiting") = {}
              BY <6>1, <6>2, Counts
            <7> QED  BY <3>3, <7>1 DEF InState, Steady, AllActive
          <6> QED  BY <1>5, <6>2
        <5> QED  BY <5>1, <5>2
      <4>3. seen["bulk"]["waiting"] = n
        BY <3>1, <3>2, <4>1 DEF Lists
      <4> QED  BY <1>4, <1>10, <4>1, <4>2, <4>3 DEF Told, AllActive
    <3>5. CASE p.bulk = <<"active", "failed">>
      <4>1. l = "active" /\ t.bulk = <<"failed">>
        BY <1>3, <3>1, <3>5
      <4>2. q.seen["bulk"]["waiting"] > 0 \/ AllActive(steady[r])
        BY <1>1, <1>2, <3>5 DEF Told
      <4>3. n = Cardinality(InState("active"))
        BY <3>1, <4>1 DEF Listed
      <4>4. CASE n = 0
        <5>1. InState("active") = {}
          BY <4>3, <4>4, Counts
        <5>2. AllActive(steady[r]) => steady[r] = {}
          BY <3>3, <5>1 DEF InState, AllActive
        <5> QED  BY <1>4, <1>10, <3>1, <3>2, <4>1, <4>2, <4>4, <5>2 DEF Told, Lists
      <4>5. CASE n > 0
        <5>1. /\ seen["bulk"]["active"] = n /\ seen["bulk"]["waiting"] \in Nat
          BY <3>1, <3>2, <4>1 DEF Lists
        <5>2. seen["bulk"]["waiting"] + seen["bulk"]["active"] > 0
          BY <1>5, <4>5, <5>1
        <5>3. new.left[1].bulk # <<"active", "failed">>
          BY <1>10, <4>1
        <5> QED  BY <1>10, <5>2, <5>3 DEF Told
      <4> QED  BY <1>5, <4>4, <4>5
    <3>6. CASE p.bulk = <<"failed">>
      <4>1. l = "failed" /\ t.bulk = <<>>
        BY <1>3, <3>1, <3>6
      <4>2. /\ seen["bulk"]["waiting"] = q.seen["bulk"]["waiting"]
            /\ seen["bulk"]["active"] = q.seen["bulk"]["active"]
        BY <3>1, <3>2, <4>1 DEF Lists
      <4>3. q.seen["bulk"]["waiting"] + q.seen["bulk"]["active"] > 0 \/ steady[r] = {}
        BY <1>1, <1>2, <3>6 DEF Told
      <4>4. new.left[1].bulk # <<"active", "failed">>
        BY <1>10, <4>1
      <4> QED  BY <1>4, <1>10, <4>2, <4>3, <4>4 DEF Told
    <3>7. p.bulk # <<>>
      BY <1>3, <3>1
    <3> QED  BY <3>1, <3>4, <3>5, <3>6, <3>7 DEF Reads
  <2> QED  BY <2>1, <2>2
<1>12. /\ DOMAIN req' = Requests /\ req'[r] = new
       /\ \A s \in Requests \ {r} : req'[s] = req[s]
  BY <1>3, <1>4, <1>7 DEF Typed
<1>13. Typed'
  BY <1>4, <1>10, <1>12, StatusFields DEF Typed
<1>14. ASSUME NEW s \in Requests
       PROVE  /\ Steady(steady[s])' /\ (paused => steady[s] = {})'
              /\ IsStatus(req[s])' => req'[s] \in StatusRead /\ Told(req[s], steady[s])'
  BY <1>4, <1>10, <1>11, <1>12 DEF IInv, Steady, Told, IsStatus, AllActive
<1> QED  BY <1>13, <1>14 DEF IInv, IsStatus

\* The workers of a status can not be read, or the status fails.
LEMMA ReadFailsStep ==
    ASSUME IInv, NEW r \in Requests, IsStatus(req[r]), NEW track \in Tracks, ReadFails(r, track)
    PROVE  IInv' /\ (req'[r].at = "failed" \/ req'[r].at = "read")
<1>1. PICK q \in StatusRead : q = req[r] /\ Told(q, steady[r])
  BY DEF IInv
<1>2. PICK p \in Pass : q.left = <<p>> /\ q.left[1] = p
  BY <1>1, StatusFields
<1>3. /\ Typed /\ UNCHANGED <<job, extra, paused, steady>>
      /\ q.op = "status" /\ q.at = "read"
  BY <1>1, StatusFields DEF IInv, ReadFails, queues, ghosts
<1>4. CASE track # "again"
  <2>1. Step(r, Failed(q))
    BY <1>1, <1>3, <1>4 DEF ReadFails
  <2>2. req'[r].at = "failed"
    BY <1>3, <2>1, Forms DEF Step, Typed
  <2>3. Keeps
    BY <1>3, <2>1, Ended, QuietStep
  <2> QED  BY <2>2, <2>3, KeepsIInv
<1>5. CASE track = "again"
  <2>1. PICK new : /\ new = [q EXCEPT !.left[1].again = <<>>]
                   /\ req' = [req EXCEPT ![r] = new]
    BY <1>1, <1>3, <1>5 DEF ReadFails, Step
  <2>2. PICK t \in Pass : t = [p EXCEPT !.again = <<>>] /\ t.bulk = p.bulk
    <3>1. p.indexing \in Seq(Lists) /\ p.bulk \in Reads /\ <<>> \in Seq(Lists)
      BY DEF Pass
    <3>2. [p EXCEPT !.again = <<>>] = [indexing |-> p.indexing, bulk |-> p.bulk, again |-> <<>>]
      BY DEF Pass
    <3>3. [indexing |-> p.indexing, bulk |-> p.bulk, again |-> <<>>] \in Pass
      BY <3>1 DEF Pass
    <3> QED  BY <3>2, <3>3
  <2>3. new = [q EXCEPT !.left = <<t>>]
    <3>1. [q.left EXCEPT ![1] = t] = <<t>>
      BY <1>2
    <3> QED  BY <1>1, <1>2, <2>1, <2>2, <3>1 DEF StatusRead
  <2>4. new \in StatusRead /\ new.left[1] = t /\ new.seen = q.seen
    BY <2>3 DEF StatusRead
  <2>5. Told(new, steady[r])'
    BY <1>1, <1>2, <1>3, <2>2, <2>4 DEF Told, AllActive
  <2>6. /\ DOMAIN req' = Requests /\ req'[r] = new
        /\ \A s \in Requests \ {r} : req'[s] = req[s]
    BY <1>3, <2>1 DEF Typed
  <2>7. Typed' /\ req'[r].at = "read"
    <3>1. {"op", "at"} \subseteq DOMAIN new /\ new.at = "read"
      BY <2>4, StatusFields
    <3>2. \A s \in Requests : {"op", "at"} \subseteq DOMAIN req'[s]
      BY <1>3, <2>6, <3>1 DEF Typed
    <3> QED  BY <1>3, <2>6, <3>1, <3>2 DEF Typed
  <2>8. ASSUME NEW s \in Requests
        PROVE  /\ Steady(steady[s])' /\ (paused => steady[s] = {})'
               /\ IsStatus(req[s])' => req'[s] \in StatusRead /\ Told(req[s], steady[s])'
    BY <1>3, <2>4, <2>5, <2>6 DEF IInv, Steady, Told, IsStatus, AllActive
  <2> QED  BY <2>7, <2>8 DEF IInv, IsStatus
<1> QED  BY <1>4, <1>5

\* A status answers once all lists are read; "idle" is said of lists that told
\* of no batch.
LEMMA AnswerStep ==
    ASSUME IInv, NEW r \in Requests, IsStatus(req[r]), NEW memory \in MemoryUse,
           Answer(r, memory)
    PROVE  IInv' /\ ("idle" \in req'[r].reply => steady[r] = {})
<1>1. PICK q \in StatusRead : q = req[r] /\ Told(q, steady[r])
  BY DEF IInv
<1>2. /\ q.op = "status" /\ q.left = <<Nothing>> /\ Typed
      /\ UNCHANGED <<job, extra, paused, steady>>
  BY <1>1, StatusFields DEF IInv, Answer, AllRead, queues, ghosts
<1>3. PICK reply : /\ reply = q.reply \cup Found("status", TRUE, q.seen, memory)
                   /\ Step(r, Ok(q, reply))
  BY <1>1, <1>2 DEF Answer
<1>4. IInv'
  BY <1>2, <1>3, Ended, QuietStep, KeepsIInv
<1>5. req'[r].reply = reply
  <2>1. req'[r] = Ok(q, reply)
    BY <1>2, <1>3 DEF Step, Typed
  <2> QED  BY <2>1, Forms
<1>6. ASSUME "idle" \in reply PROVE steady[r] = {}
  <2>1. "idle" \in Found("status", TRUE, q.seen, memory)
    BY <1>3, <1>6, StatusFields
  <2>2. Found("status", TRUE, q.seen, memory)
            = {OverallStatus(q.seen)} \cup Recommendations(q.seen, memory)
    BY DEF Found
  <2>3. OverallStatus(q.seen) = "idle"
    BY <2>1, <2>2 DEF Recommendations
  <2>4. /\ ~(q.seen["indexing"]["active"] + q.seen["bulk"]["active"] > 0)
        /\ ~(q.seen["indexing"]["waiting"] + q.seen["bulk"]["waiting"] > 0)
    BY <2>3 DEF OverallStatus
  <2>5. \A l \in {"active", "waiting"} : q.seen["bulk"][l] \in Nat /\ q.seen["indexing"][l] \in Nat
    BY StatusFields
  <2>6. ~(q.seen["bulk"]["waiting"] + q.seen["bulk"]["active"] > 0)
    BY <2>4, <2>5
  <2>7. q.left[1].bulk = <<>>
    BY <1>2 DEF Nothing
  <2> QED  BY <1>1, <2>6, <2>7 DEF Told
<1> QED  BY <1>4, <1>5, <1>6

-------------------------------------------------------------------------------
(* The theorem.                                                            *)

LEMMA InitIInv == Init => IInv
<1> SUFFICES ASSUME Init PROVE IInv
  OBVIOUS
<1>1. Typed
  BY DEF Init, Typed, NewJob, States, Idle
<1>2. \A r \in Requests : steady[r] = {} /\ ~IsStatus(req[r])
  BY DEF Init, Idle, IsStatus
<1> QED  BY <1>1, <1>2 DEF IInv, Steady

\* What the property says of one request.
Says(r) ==
    IsStatus(req[r]) /\ req'[r].at = "ok" /\ "idle" \in req'[r].reply => steady[r] = {}

\* A step after which the requests that were being read go on so.
LEMMA OthersSay ==
    ASSUME NEW r, req'[r] = req[r] \/ ~IsStatus(req[r]) \/ req'[r].at # "ok"
    PROVE  Says(r)
  BY DEF Says, IsStatus

\* One request steps at a time.
LEMMA OneSteps ==
    ASSUME NEW r, Driving(r) \/ Reading(r) \/ \E track \in Tracks : ReadFails(r, track)
    PROVE  \E new : req' = [req EXCEPT ![r] = new]
<1>1. CASE Driving(r)
  BY <1>1 DEF Driving, Flush, FindPaused, ResumeQueue, WakeUp, PickUp, SetPaused, FindJob,
              JobState, Step
<1>2. CASE Reading(r)
  BY <1>2 DEF Reading, Read, NextPass, Answer, AskWorker, WorkerTimesOut, Step
<1>3. ASSUME NEW track \in Tracks, ReadFails(r, track)
      PROVE  \E new : req' = [req EXCEPT ![r] = new]
  BY <1>3 DEF ReadFails, Step
<1> QED  BY <1>1, <1>2, <1>3

LEMMA NextIInv == IInv /\ [Next]_vars => IInv' /\ \A r \in Requests : Says(r)
<1> SUFFICES ASSUME IInv, [Next]_vars PROVE IInv' /\ \A r \in Requests : Says(r)
  OBVIOUS
<1>1. Typed
  BY DEF IInv
<1>2. CASE Bull
  <2>1. Keeps
    BY <1>2, BullKeeps, CheckKeeps DEF Bull
  <2>2. UNCHANGED req
    BY <1>2 DEF Bull, Enqueue, Take, Handled, Retry, RenewLock, CheckStalled
  <2> QED  BY <2>1, <2>2, KeepsIInv, OthersSay
<1>3. CASE Crash
  <2>1. \A r \in Requests : req'[r] = req[r] \/ req'[r].at = "failed"
    BY <1>3, Forms DEF Crash
  <2> QED  BY <1>3, <2>1, CrashKeeps, KeepsIInv, OthersSay
<1>4. CASE Measure
  <2>1. UNCHANGED <<job, extra, paused, steady, req>>
    BY <1>4 DEF Measure, queues, ghosts
  <2> QED  BY <2>1, IdleKeeps, KeepsIInv, OthersSay
<1>5. ASSUME NEW r \in Requests, NEW op \in Ops[r], Begin(r, op)
      PROVE  IInv' /\ \A s \in Requests : Says(s)
  <2>1. ~IsStatus(req[r]) /\ \A s \in Requests \ {r} : req'[s] = req[s]
    BY <1>1, <1>5 DEF Begin, At, Step, IsStatus, Typed
  <2> QED  BY <1>5, <2>1, BeginStep, OthersSay
<1>6. ASSUME NEW r \in Requests,
             Driving(r) \/ Reading(r) \/ \E track \in Tracks : ReadFails(r, track)
      PROVE  IInv' /\ \A s \in Requests : Says(s)
  <2>1. \A s \in Requests \ {r} : Says(s)
    <3>1. PICK new : req' = [req EXCEPT ![r] = new]
      BY <1>6, OneSteps
    <3>2. \A s \in Requests \ {r} : req'[s] = req[s]
      BY <1>1, <3>1 DEF Typed
    <3> QED  BY <3>2, OthersSay
  <2>2. CASE ~IsStatus(req[r])
    <3>1. Keeps
      BY <1>6, <2>2, DrivingKeeps, OtherReadingKeeps
    <3> QED  BY <2>1, <2>2, <3>1, KeepsIInv, OthersSay
  <2>3. CASE IsStatus(req[r])
    <3>1. PICK q \in StatusRead : q = req[r]
      BY <2>3 DEF IInv
    <3>2. Len(q.left) = 1 /\ q.at = "read"
      <4>1. PICK p \in Pass : q.left = <<p>>
        BY StatusFields
      <4> QED  BY <4>1, StatusFields
    <3>3. ~Driving(r)
      BY <3>1, <3>2 DEF Driving, Flush, FindPaused, ResumeQueue, WakeUp, PickUp, SetPaused,
                        FindJob, JobState, At
    <3>4. ~AskWorker(r) /\ ~WorkerTimesOut(r) /\ \A memory \in MemoryUse : ~NextPass(r, memory)
      BY <3>1, <3>2 DEF AskWorker, WorkerTimesOut, NextPass, At
    <3>5. ASSUME NEW track \in Tracks, Read(r, track) PROVE IInv' /\ Says(r)
      <4>1. PICK t, n, l, new : /\ req' = [req EXCEPT ![r] = new]
                                /\ new = [q EXCEPT !.left[1][track] = t, !.seen[track][l] = n]
        BY <3>1, <3>5 DEF Read, Step
      <4>2. req'[r].at = "read"
        BY <1>1, <3>1, <3>2, <4>1 DEF Typed
      <4> QED  BY <2>3, <3>5, <4>2, ReadStep, OthersSay
    <3>6. ASSUME NEW track \in Tracks, ReadFails(r, track) PROVE IInv' /\ Says(r)
      BY <2>3, <3>6, ReadFailsStep, OthersSay
    <3>7. ASSUME NEW memory \in MemoryUse, Answer(r, memory) PROVE IInv' /\ Says(r)
      BY <2>3, <3>7, AnswerStep DEF Says
    <3> QED  BY <1>6, <2>1, <3>3, <3>4, <3>5, <3>6, <3>7 DEF Reading
  <2> QED  BY <2>2, <2>3
<1>7. CASE UNCHANGED vars
  <2>1. UNCHANGED <<job, extra, paused, steady, req>>
    BY <1>7 DEF vars, queues, ghosts
  <2> QED  BY <2>1, IdleKeeps, KeepsIInv, OthersSay
<1> QED  BY <1>2, <1>3, <1>4, <1>5, <1>6, <1>7 DEF Next

\* Whatever the batches, the failures and the other requests do, a status that
\* says "idle" overlooked no batch that was there, waiting or active, from the
\* first of getComprehensiveWorkerStatus to its end: the lists are read in the
\* order in which a batch moves through them.
THEOREM IdleStatusIsTrue == Spec => IdleIsTrue
<1>1. IInv /\ [Next]_vars =>
        [\A r \in Requests :
            req[r].op = "status" /\ req[r].at = "read" /\ req'[r].at = "ok"
                /\ "idle" \in req'[r].reply => steady[r] = {}]_vars
  BY NextIInv DEF Says, IsStatus
<1>2. IInv /\ [Next]_vars => IInv'
  BY NextIInv
<1> QED  BY <1>1, <1>2, InitIInv, PTL DEF Spec, IdleIsTrue
===============================================================================
