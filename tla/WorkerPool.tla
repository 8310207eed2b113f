----------------------------- MODULE WorkerPool -----------------------------
(***************************************************************************)
(* DocumentProcessorPool (src/indexing/services/document-processor.pool.ts)*)
(* and the worker threads it drives                                        *)
(* (src/indexing/workers/document-processor.worker.ts).                    *)
(*                                                                         *)
(* The main thread keeps a queue of processDocument calls and a busy flag  *)
(* per worker; a worker keeps the messages posted to it.  Every callback   *)
(* of the main thread is one action, run to its end; worker threads step   *)
(* between any two of them.                                                *)
(*                                                                         *)
(* Abstracted: a document is the number of the call that passes it in; its *)
(* analysis is a result that names the document, or an error.              *)
(* getAvailableWorker scans a Map in insertion order; here any available   *)
(* worker may be found, since workers differ in nothing else.              *)
(***************************************************************************)
EXTENDS Naturals, Sequences, FiniteSets

CONSTANTS
    Workers,    \* indices of the workers array (maxWorkers of them)
    MaxCalls,   \* bound: calls of processDocument
    MaxCrashes  \* bound: worker threads that die of an uncaught error

ASSUME PoolAssumption ==
    /\ Workers # {} /\ IsFiniteSet(Workers)
    /\ MaxCalls \in Nat
    /\ MaxCrashes \in Nat

VARIABLES
    submitted,  \* calls of processDocument made so far; the n-th is task n
    taskQueue,  \* the queue of unsettled tasks, a dispatched one included
    settled,    \* settled[n]: the promise of call n
    states,     \* workerStates: "unset" | "available" | "busy"
    thread,     \* the thread behind workers[w]
    gen,        \* how often restartWorker has replaced workers[w]
    inbox,      \* messages posted to the thread and not yet handled by it
    outbox,     \* messages posted by the thread and not yet delivered
    stop,       \* stopWorkers: "no" | "waiting" | "done"
    awaiting,   \* Worker objects whose 'exit' stopWorkers still awaits
    crashes     \* threads lost so far

vars == <<submitted, taskQueue, settled, states, thread, gen, inbox, outbox,
          stop, awaiting, crashes>>

Service == INSTANCE AnalysisService

Calls       == Service!Calls
Pending     == Service!Pending
Resolved(d) == Service!Resolved(d)
Rejected(d) == Service!Rejected(d)

Terminate == 0  \* the 'terminate' message; 'process' is the task's number

Reply == [type : {"ready", "result", "error"}, doc : 0 .. MaxCalls]
Ready == [type |-> "ready", doc |-> 0]

\* A thread that still receives what is posted to it.  "crashed": its 'error'
\* event is not yet handled; "exiting": its non-zero 'exit' event is not;
\* "restarting": restartWorker awaits terminate() of the dead thread;
\* "exited" / "stopped": exit code 0, event not yet handled / handled.
Alive == {"starting", "up"}
Thread == Alive \cup {"crashed", "exiting", "restarting", "exited", "stopped"}

Init ==
    /\ submitted = 0
    /\ taskQueue = <<>>
    /\ settled = [n \in Calls |-> Pending]
    /\ states = [w \in Workers |-> "unset"]
    /\ thread = [w \in Workers |-> "starting"]
    /\ gen = [w \in Workers |-> 0]
    /\ inbox = [w \in Workers |-> <<>>]
    /\ outbox = [w \in Workers |-> <<>>]
    /\ stop = "no"
    /\ awaiting = {}
    /\ crashes = 0

-----------------------------------------------------------------------------
(* The main thread.                                                        *)

\* postMessage: a message for a thread that is gone is dropped silently.
Post(w, m) ==
    inbox' = IF thread[w] \in Alive
             THEN [inbox EXCEPT ![w] = Append(@, m)] ELSE inbox

\* Mutant: the newest task is dispatched (pop for shift).
NewestTask(queue, st) ==
    \/ \E w \in Workers :
          /\ queue # <<>>
          /\ st[w] = "available"
          /\ states' = [st EXCEPT ![w] = "busy"]
          /\ Post(w, queue[Len(queue)])
    \/ /\ queue = <<>> \/ \A w \in Workers : st[w] # "available"
       /\ states' = st
       /\ UNCHANGED inbox

\* Mutant: the worker is not marked busy.
UnflaggedTask(queue, st) ==
    /\ states' = st
    /\ \/ \E w \in Workers : queue # <<>> /\ st[w] = "available" /\ Post(w, Head(queue))
       \/ /\ queue = <<>> \/ \A w \in Workers : st[w] # "available"
          /\ UNCHANGED inbox

\* processNextTask: hand the HEAD of the queue to an available worker.  The
\* head is not taken off the queue until some worker answers.
processNextTask(queue, st) ==
    \/ \E w \in Workers :
          /\ queue # <<>>
          /\ st[w] = "available"
          /\ states' = [st EXCEPT ![w] = "busy"]
          /\ Post(w, Head(queue))
    \/ /\ queue = <<>> \/ \A w \in Workers : st[w] # "available"
       /\ states' = st
       /\ UNCHANGED inbox

\* processDocument.  No call arrives once stopWorkers has returned.
ProcessDocument ==
    /\ submitted < MaxCalls
    /\ stop # "done"
    /\ submitted' = submitted + 1
    /\ taskQueue' = Append(taskQueue, submitted')
    /\ processNextTask(taskQueue', states)
    /\ UNCHANGED <<settled, thread, gen, outbox, stop, awaiting, crashes>>

\* Mutant: the freed worker is not given the next task.
SettleOnly(w, outcome) ==
    /\ states' = [states EXCEPT ![w] = "available"]
    /\ \/ /\ taskQueue # <<>>
          /\ settled' = [settled EXCEPT ![Head(taskQueue)] = outcome]
          /\ taskQueue' = Tail(taskQueue)
       \/ taskQueue = <<>> /\ UNCHANGED <<settled, taskQueue>>
    /\ UNCHANGED inbox

\* handleWorkerResult and handleWorkerError: whatever the worker worked on,
\* the answer settles the task at the head of the queue.
Settle(w, outcome) ==
    LET freed == [states EXCEPT ![w] = "available"] IN
    \/ /\ taskQueue # <<>>
       /\ settled' = [settled EXCEPT ![Head(taskQueue)] = outcome]
       /\ taskQueue' = Tail(taskQueue)
       /\ processNextTask(taskQueue', freed)
    \/ /\ taskQueue = <<>>
       /\ states' = freed
       /\ UNCHANGED <<settled, taskQueue, inbox>>

\* The 'ready' handler: only the one installed by restartWorker dispatches.
HandleReady(w) ==
    LET freed == [states EXCEPT ![w] = "available"] IN
    /\ outbox[w] # <<>> /\ Head(outbox[w]).type = "ready"
    /\ outbox' = [outbox EXCEPT ![w] = Tail(@)]
    /\ \/ gen[w] = 0 /\ states' = freed /\ UNCHANGED inbox
       \/ gen[w] > 0 /\ processNextTask(taskQueue, freed)
    /\ UNCHANGED <<submitted, taskQueue, settled, thread, gen, stop, awaiting,
                   crashes>>

HandleWorkerResult(w) ==
    /\ outbox[w] # <<>> /\ Head(outbox[w]).type = "result"
    /\ outbox' = [outbox EXCEPT ![w] = Tail(@)]
    /\ Settle(w, Resolved(Head(outbox[w]).doc))
    /\ UNCHANGED <<submitted, thread, gen, stop, awaiting, crashes>>

HandleWorkerError(w) ==
    /\ outbox[w] # <<>> /\ Head(outbox[w]).type = "error"
    /\ outbox' = [outbox EXCEPT ![w] = Tail(@)]
    /\ Settle(w, Rejected(Head(outbox[w]).doc))
    /\ UNCHANGED <<submitted, thread, gen, stop, awaiting, crashes>>

\* The 'error' event of a dying thread travels apart from its messages and
\* may overtake them.
HandleErrorEvent(w) ==
    /\ thread[w] = "crashed"
    /\ thread' = [thread EXCEPT ![w] = "exiting"]
    /\ Settle(w, Rejected(0))
    /\ UNCHANGED <<submitted, gen, outbox, stop, awaiting, crashes>>

\* Mutant: only an abnormal exit releases stopWorkers.
ExitUnseen(w) ==
    /\ thread[w] \in {"exiting", "exited"}
    /\ outbox[w] = <<>>
    /\ \/ /\ thread[w] = "exiting"
          /\ thread' = [thread EXCEPT ![w] = "restarting"]
          /\ awaiting' = awaiting \ {<<w, gen[w]>>}
       \/ /\ thread[w] = "exited"
          /\ thread' = [thread EXCEPT ![w] = "stopped"]
          /\ UNCHANGED awaiting
    /\ UNCHANGED <<submitted, taskQueue, settled, states, gen, inbox, outbox,
                   stop, crashes>>

\* The 'exit' event, emitted once the thread's messages are delivered: it
\* releases stopWorkers and, for a non-zero code, begins restartWorker.
HandleExit(w) ==
    /\ thread[w] \in {"exiting", "exited"}
    /\ outbox[w] = <<>>
    /\ thread' = [thread EXCEPT ![w] = IF thread[w] = "exiting"
                                       THEN "restarting" ELSE "stopped"]
    /\ awaiting' = awaiting \ {<<w, gen[w]>>}
    /\ UNCHANGED <<submitted, taskQueue, settled, states, gen, inbox, outbox,
                   stop, crashes>>

\* restartWorker, past the await: a new thread takes the place of the old
\* one, whose entry of workerStates stands as it was.
RestartWorker(w) ==
    /\ thread[w] = "restarting"
    /\ thread' = [thread EXCEPT ![w] = "starting"]
    /\ gen' = [gen EXCEPT ![w] = @ + 1]
    /\ UNCHANGED <<submitted, taskQueue, settled, states, inbox, outbox, stop,
                   awaiting, crashes>>

\* stopWorkers up to its await: every worker is told to terminate and the
\* 'exit' of every current Worker object is awaited, also of one whose
\* 'exit' was already emitted.
StopWorkers ==
    /\ stop = "no"
    /\ stop' = "waiting"
    /\ inbox' = [w \in Workers |-> IF thread[w] \in Alive
                                   THEN Append(inbox[w], Terminate)
                                   ELSE inbox[w]]
    /\ awaiting' = {<<w, gen[w]>> : w \in Workers}
    /\ UNCHANGED <<submitted, taskQueue, settled, states, thread, gen, outbox,
                   crashes>>

\* stopWorkers past its await: queued calls are forgotten, never settled.
StopDone ==
    /\ stop = "waiting"
    /\ awaiting = {}
    /\ stop' = "done"
    /\ states' = [w \in Workers |-> "unset"]
    /\ taskQueue' = <<>>
    /\ UNCHANGED <<submitted, settled, thread, gen, inbox, outbox, awaiting,
                   crashes>>

-----------------------------------------------------------------------------
(* A worker thread.                                                        *)

\* initialize: listen to the parent, then report ready.
Boot(w) ==
    /\ thread[w] = "starting"
    /\ thread' = [thread EXCEPT ![w] = "up"]
    /\ outbox' = [outbox EXCEPT ![w] = Append(@, Ready)]
    /\ UNCHANGED <<submitted, taskQueue, settled, states, gen, inbox, stop,
                   awaiting, crashes>>

\* The worker's processDocument: one synchronous analysis, one reply.
Analyse(w) ==
    /\ thread[w] = "up"
    /\ inbox[w] # <<>> /\ Head(inbox[w]) # Terminate
    /\ \E type \in {"result", "error"} :
          outbox' = [outbox EXCEPT
                       ![w] = Append(@, [type |-> type, doc |-> Head(inbox[w])])]
    /\ inbox' = [inbox EXCEPT ![w] = Tail(@)]
    /\ UNCHANGED <<submitted, taskQueue, settled, states, thread, gen, stop,
                   awaiting, crashes>>

\* terminate: process.exit(0); messages still in the inbox are lost.
Exit(w) ==
    /\ thread[w] = "up"
    /\ inbox[w] # <<>> /\ Head(inbox[w]) = Terminate
    /\ thread' = [thread EXCEPT ![w] = "exited"]
    /\ inbox' = [inbox EXCEPT ![w] = <<>>]
    /\ UNCHANGED <<submitted, taskQueue, settled, states, gen, outbox, stop,
                   awaiting, crashes>>

\* The thread dies (out of memory, a module that does not load): an 'error'
\* event, then an 'exit' event with code 1.
Crash(w) ==
    /\ crashes < MaxCrashes
    /\ thread[w] \in Alive
    /\ crashes' = crashes + 1
    /\ thread' = [thread EXCEPT ![w] = "crashed"]
    /\ inbox' = [inbox EXCEPT ![w] = <<>>]
    /\ UNCHANGED <<submitted, taskQueue, settled, states, gen, outbox, stop,
                   awaiting>>

-----------------------------------------------------------------------------

\* Steps the Node runtime keeps taking: deliveries, and threads that run.
Runtime(w) ==
    \/ HandleReady(w) \/ HandleWorkerResult(w) \/ HandleWorkerError(w)
    \/ HandleErrorEvent(w) \/ HandleExit(w) \/ RestartWorker(w)
    \/ Boot(w) \/ Analyse(w) \/ Exit(w)

Next ==
    \/ ProcessDocument
    \/ StopWorkers
    \/ StopDone
    \/ \E w \in Workers : Runtime(w) \/ Crash(w)

Spec == Init /\ [][Next]_vars

\* The event loop and each thread run; calls, crashes and shutdown need not
\* happen.
FairSpec ==
    /\ Spec
    /\ WF_vars(StopDone)
    /\ \A w \in Workers : WF_vars(Runtime(w))

-----------------------------------------------------------------------------
(* Properties.                                                             *)

\* Every variable has its type.
TypeOK ==
    /\ submitted \in 0 .. MaxCalls
    /\ taskQueue \in Seq(Calls)
    /\ settled \in [Calls -> Service!Outcome]
    /\ states \in [Workers -> {"unset", "available", "busy"}]
    /\ thread \in [Workers -> Thread]
    /\ gen \in [Workers -> Nat]
    /\ inbox \in [Workers -> Seq(0 .. MaxCalls)]
    /\ outbox \in [Workers -> Seq(Reply)]
    /\ stop \in {"no", "waiting", "done"}
    /\ awaiting \in SUBSET (Workers \X Nat)
    /\ crashes \in 0 .. MaxCrashes

\* The work a thread has been given and not yet handed back.
Jobs(w) == Cardinality({i \in DOMAIN inbox[w] : inbox[w][i] # Terminate})
         + Cardinality({i \in DOMAIN outbox[w] : outbox[w][i].type # "ready"})

\* A call may be given another call's analysis, but never that of
\* a document submitted after it: handleWorkerResult takes the head of a FIFO
\* queue and processNextTask posts only heads.
AnsweredFromPast == \A n \in Calls : settled[n].doc <= n

\* The busy flag of a worker that was never restarted tells the truth: busy
\* with exactly one document, or available with none outstanding, whatever
\* crashes elsewhere in the pool and however shutdown interleaves.
FirstThreadHasOneJob ==
    \A w \in Workers :
        (gen[w] = 0 /\ thread[w] \in Alive /\ states[w] # "unset")
            => Jobs(w) = IF states[w] = "busy" THEN 1 ELSE 0

\* Once a worker is busy the queue drains, crashes and restarts included:
\* every queued call is settled unless the pool is shut down.  A queue filled
\* before the first 'ready' is not promised this: that handler does not
\* dispatch, so such calls wait for the next call of processDocument.
Drains ==
    \A n \in Calls :
        (/\ \E i \in DOMAIN taskQueue : taskQueue[i] = n
         /\ \E w \in Workers : states[w] = "busy")
            ~> (settled[n] # Pending \/ stop # "no")

\* stopWorkers returns: every worker it tells to terminate exits, also one
\* that is still starting or has work queued before the message; and no thread
\* runs any more when it does.
StopCompletes ==
    /\ (stop = "waiting") ~> (stop = "done")
    /\ [](stop = "done" => \A w \in Workers : thread[w] \notin Alive)

\* With one worker and no crash the pool is the service its callers expect:
\* each call gets the analysis of its own document or an error, once.
ImplementsService == Service!Spec
=============================================================================
