-------------------------- MODULE WorkerPoolProofs --------------------------
(***************************************************************************)
(* Proofs about WorkerPool, for every number of workers, calls and crashes.*)
(***************************************************************************)
EXTENDS WorkerPool, FiniteSetTheorems, SequenceTheorems, TLAPS

-----------------------------------------------------------------------------
(* Type correctness.                                                       *)

StateMap == [Workers -> {"unset", "available", "busy"}]

\* Dispatching the head of a well-typed queue leaves flags and inboxes
\* well-typed: the one state change of processNextTask.
LEMMA DispatchType ==
    ASSUME TypeOK, NEW queue \in Seq(Calls), NEW st \in StateMap,
           processNextTask(queue, st)
    PROVE  states' \in StateMap /\ inbox' \in [Workers -> Seq(0 .. MaxCalls)]
<1>1. CASE inbox' = inbox /\ states' = st
  BY <1>1 DEF TypeOK
<1>2. ASSUME NEW w \in Workers, queue # <<>>, Post(w, Head(queue)),
             states' = [st EXCEPT ![w] = "busy"]
      PROVE  states' \in StateMap /\ inbox' \in [Workers -> Seq(0 .. MaxCalls)]
  <2>1. Head(queue) \in 0 .. MaxCalls
    BY <1>2, PoolAssumption DEF Calls, Service!Calls
  <2>2. QED
    BY <1>2, <2>1 DEF TypeOK, Post, StateMap
<1>3. QED
  BY <1>1, <1>2 DEF processNextTask

\* An answer, of whatever kind, settles the head and dispatches the next task.
LEMMA SettleType ==
    ASSUME TypeOK, NEW w \in Workers, NEW outcome \in Service!Outcome,
           Settle(w, outcome)
    PROVE  /\ settled' \in [Calls -> Service!Outcome]
           /\ taskQueue' \in Seq(Calls)
           /\ states' \in StateMap
           /\ inbox' \in [Workers -> Seq(0 .. MaxCalls)]
<1> DEFINE freed == [states EXCEPT ![w] = "available"]
<1>1. freed \in StateMap
  BY DEF TypeOK, StateMap
<1>2. CASE /\ taskQueue # <<>>
           /\ settled' = [settled EXCEPT ![Head(taskQueue)] = outcome]
           /\ taskQueue' = Tail(taskQueue)
           /\ processNextTask(taskQueue', freed)
  <2>1. taskQueue' \in Seq(Calls)
    BY <1>2 DEF TypeOK
  <2>2. QED
    BY <1>1, <1>2, <2>1, DispatchType DEF TypeOK
<1>3. CASE taskQueue = <<>> /\ states' = freed /\ UNCHANGED <<settled, taskQueue, inbox>>
  BY <1>1, <1>3 DEF TypeOK
<1>4. QED
  BY <1>2, <1>3 DEF Settle

LEMMA TypeInit == Init => TypeOK
  BY PoolAssumption DEF Init, TypeOK, Pending, Service!Pending, Service!Outcome,
     Thread, Alive

LEMMA TypeStep == TypeOK /\ [Next]_vars => TypeOK'
<1> SUFFICES ASSUME TypeOK, [Next]_vars PROVE TypeOK'
  OBVIOUS
<1> USE PoolAssumption
<1>1. CASE ProcessDocument
  <2>1. taskQueue' \in Seq(Calls) /\ submitted' \in 0 .. MaxCalls
    BY <1>1 DEF TypeOK, ProcessDocument, Calls, Service!Calls
  <2>2. states' \in StateMap /\ inbox' \in [Workers -> Seq(0 .. MaxCalls)]
    BY <1>1, <2>1, DispatchType DEF TypeOK, ProcessDocument, StateMap
  <2>3. QED
    BY <1>1, <2>1, <2>2 DEF TypeOK, ProcessDocument, StateMap
<1>2. CASE StopWorkers
  <2>1. \A w \in Workers : Append(inbox[w], Terminate) \in Seq(0 .. MaxCalls)
    BY DEF TypeOK, Terminate
  <2>2. inbox' \in [Workers -> Seq(0 .. MaxCalls)]
    BY <1>2, <2>1 DEF TypeOK, StopWorkers
  <2>3. awaiting' \in SUBSET (Workers \X Nat)
    BY <1>2 DEF TypeOK, StopWorkers
  <2>4. QED
    BY <1>2, <2>2, <2>3 DEF TypeOK, StopWorkers
<1>3. CASE StopDone
  BY <1>3 DEF TypeOK, StopDone
<1>4. ASSUME NEW w \in Workers, HandleReady(w) PROVE TypeOK'
  <2>1. [states EXCEPT ![w] = "available"] \in StateMap
    BY DEF TypeOK, StateMap
  <2>2. states' \in StateMap /\ inbox' \in [Workers -> Seq(0 .. MaxCalls)]
    BY <1>4, <2>1, DispatchType DEF TypeOK, HandleReady
  <2>3. outbox' \in [Workers -> Seq(Reply)]
    BY <1>4 DEF TypeOK, HandleReady
  <2>4. QED
    BY <1>4, <2>2, <2>3 DEF TypeOK, HandleReady, StateMap
<1>5. ASSUME NEW w \in Workers, HandleWorkerResult(w) PROVE TypeOK'
  <2>0. Head(outbox[w]) \in Reply
    BY <1>5 DEF TypeOK, HandleWorkerResult
  <2>1. Resolved(Head(outbox[w]).doc) \in Service!Outcome
    BY <2>0 DEF Reply, Resolved, Service!Resolved, Service!Outcome
  <2>2. outbox' \in [Workers -> Seq(Reply)]
    BY <1>5 DEF TypeOK, HandleWorkerResult
  <2>3. QED
    BY <1>5, <2>1, <2>2, SettleType DEF TypeOK, HandleWorkerResult, StateMap
<1>6. ASSUME NEW w \in Workers, HandleWorkerError(w) PROVE TypeOK'
  <2>0. Head(outbox[w]) \in Reply
    BY <1>6 DEF TypeOK, HandleWorkerError
  <2>1. Rejected(Head(outbox[w]).doc) \in Service!Outcome
    BY <2>0 DEF Reply, Rejected, Service!Rejected, Service!Outcome
  <2>2. outbox' \in [Workers -> Seq(Reply)]
    BY <1>6 DEF TypeOK, HandleWorkerError
  <2>3. QED
    BY <1>6, <2>1, <2>2, SettleType DEF TypeOK, HandleWorkerError, StateMap
<1>7. ASSUME NEW w \in Workers, HandleErrorEvent(w) PROVE TypeOK'
  <2>1. Rejected(0) \in Service!Outcome
    BY DEF Rejected, Service!Rejected, Service!Outcome
  <2>2. thread' \in [Workers -> Thread]
    BY <1>7 DEF TypeOK, HandleErrorEvent, Thread
  <2>3. QED
    BY <1>7, <2>1, <2>2, SettleType DEF TypeOK, HandleErrorEvent, StateMap
<1>8. ASSUME NEW w \in Workers, HandleExit(w) PROVE TypeOK'
  BY <1>8 DEF TypeOK, HandleExit, Thread
<1>9. ASSUME NEW w \in Workers, RestartWorker(w) PROVE TypeOK'
  <2>1. "starting" \in Thread
    BY DEF Thread, Alive
  <2>2. thread' \in [Workers -> Thread]
    BY <1>9, <2>1 DEF TypeOK, RestartWorker
  <2>3. gen' \in [Workers -> Nat]
    BY <1>9 DEF TypeOK, RestartWorker
  <2>4. QED
    BY <1>9, <2>2, <2>3 DEF TypeOK, RestartWorker
<1>10. ASSUME NEW w \in Workers, Boot(w) PROVE TypeOK'
  <2>1. Ready \in Reply
    BY DEF Ready, Reply
  <2>2. QED
    BY <1>10, <2>1 DEF TypeOK, Boot, Thread, Alive
<1>11. ASSUME NEW w \in Workers, Analyse(w) PROVE TypeOK'
  <2>1. PICK type \in {"result", "error"} :
           outbox' = [outbox EXCEPT
                        ![w] = Append(@, [type |-> type, doc |-> Head(inbox[w])])]
    BY <1>11 DEF Analyse
  <2>2. [type |-> type, doc |-> Head(inbox[w])] \in Reply
    BY <1>11 DEF TypeOK, Analyse, Reply
  <2>3. outbox' \in [Workers -> Seq(Reply)]
    BY <2>1, <2>2 DEF TypeOK
  <2>4. QED
    BY <1>11, <2>3 DEF TypeOK, Analyse
<1>12. ASSUME NEW w \in Workers, Exit(w) PROVE TypeOK'
  BY <1>12 DEF TypeOK, Exit, Thread
<1>13. ASSUME NEW w \in Workers, Crash(w) PROVE TypeOK'
  BY <1>13 DEF TypeOK, Crash, Thread
<1>14. CASE UNCHANGED vars
  BY <1>14 DEF TypeOK, vars
<1>15. QED
  BY <1>1, <1>2, <1>3, <1>4, <1>5, <1>6, <1>7, <1>8, <1>9, <1>10, <1>11,
     <1>12, <1>13, <1>14 DEF Next, Runtime

\* The pool's variables keep their types.
THEOREM TypeCorrect == Spec => []TypeOK
<1>1. QED
  BY TypeInit, TypeStep, PTL DEF Spec

-----------------------------------------------------------------------------
(* No answer from the future.  AnsweredFromPast is not inductive: it needs *)
(* that the queue is the interval of the latest calls in order, and that   *)
(* no message in flight is about a document beyond the queue's head.       *)

Horizon == IF taskQueue = <<>> THEN submitted ELSE Head(taskQueue)

QueueIsInterval ==
    /\ Len(taskQueue) <= submitted
    /\ \A i \in 1 .. Len(taskQueue) :
          taskQueue[i] = submitted - Len(taskQueue) + i

InboxWithin(h)  == \A w \in Workers : \A i \in DOMAIN inbox[w] : inbox[w][i] <= h
OutboxWithin(h) ==
    \A w \in Workers : \A i \in DOMAIN outbox[w] : outbox[w][i].doc <= h

PastInv ==
    /\ TypeOK
    /\ QueueIsInterval
    /\ InboxWithin(Horizon)
    /\ OutboxWithin(Horizon)
    /\ AnsweredFromPast

\* The i-th element of a tail is the element after the i-th.
LEMMA TailElement ==
    ASSUME NEW S, NEW s \in Seq(S), s # <<>>, NEW i \in DOMAIN Tail(s)
    PROVE  i + 1 \in DOMAIN s /\ Tail(s)[i] = s[i + 1]
  OBVIOUS

\* An element of a sequence over S is in S.
LEMMA ElementType ==
    ASSUME NEW S, NEW s \in Seq(S), NEW i \in DOMAIN s
    PROVE  s[i] \in S
  OBVIOUS

\* Messages are numbers that can be compared with a horizon.
LEMMA MessagesAreNumbers ==
    ASSUME TypeOK
    PROVE  /\ \A v \in Workers : \A i \in DOMAIN inbox[v] :
                 inbox[v][i] \in 0 .. MaxCalls /\ inbox[v][i] \in Nat
           /\ \A v \in Workers : \A i \in DOMAIN outbox[v] :
                 outbox[v][i] \in Reply /\ outbox[v][i].doc \in Nat
<1>1. ASSUME NEW v \in Workers, NEW i \in DOMAIN inbox[v]
      PROVE  inbox[v][i] \in 0 .. MaxCalls /\ inbox[v][i] \in Nat
  <2>1. inbox[v] \in Seq(0 .. MaxCalls)
    BY DEF TypeOK
  <2>2. inbox[v][i] \in 0 .. MaxCalls
    BY <2>1, ElementType
  <2>3. QED
    BY <2>2, PoolAssumption
<1>2. ASSUME NEW v \in Workers, NEW i \in DOMAIN outbox[v]
      PROVE  outbox[v][i] \in Reply /\ outbox[v][i].doc \in Nat
  <2>1. outbox[v] \in Seq(Reply)
    BY DEF TypeOK
  <2>2. outbox[v][i] \in Reply
    BY <1>2, <2>1
  <2>3. outbox[v][i].doc \in 0 .. MaxCalls
    BY <2>2 DEF Reply
  <2>4. QED
    BY <2>2, <2>3, PoolAssumption
<1>3. QED
  BY <1>1, <1>2

\* A dispatch puts nothing beyond h in flight when the queue's head is not.
LEMMA DispatchWithin ==
    ASSUME TypeOK, NEW queue \in Seq(Calls), NEW st \in StateMap, NEW h \in Nat,
           InboxWithin(h), queue # <<>> => Head(queue) <= h,
           processNextTask(queue, st)
    PROVE  InboxWithin(h)'
<1>1. CASE inbox' = inbox /\ states' = st
  BY <1>1 DEF InboxWithin
<1>2. ASSUME NEW w \in Workers, queue # <<>>, Post(w, Head(queue))
      PROVE  InboxWithin(h)'
  <2>1. SUFFICES ASSUME NEW v \in Workers, NEW i \in DOMAIN inbox'[v]
                 PROVE  inbox'[v][i] <= h
    BY DEF InboxWithin
  <2>2. CASE inbox'[v] = inbox[v]
    BY <2>1, <2>2 DEF InboxWithin
  <2>3. CASE inbox'[v] = Append(inbox[v], Head(queue))
    <3>1. inbox[v] \in Seq(0 .. MaxCalls) /\ Head(queue) \in 0 .. MaxCalls
      <4>1. inbox[v] \in Seq(0 .. MaxCalls)
        BY DEF TypeOK
      <4>2. Head(queue) \in Calls
        BY <1>2
      <4>3. Calls \subseteq 0 .. MaxCalls
        BY PoolAssumption DEF Calls, Service!Calls
      <4>4. QED
        BY <4>1, <4>2, <4>3
    <3>2. CASE i \in DOMAIN inbox[v]
      BY <2>3, <3>1, <3>2 DEF InboxWithin
    <3>3. CASE i = Len(inbox[v]) + 1
      BY <1>2, <2>3, <3>1, <3>3
    <3>4. QED
      BY <2>1, <2>3, <3>1, <3>2, <3>3
  <2>4. QED
    BY <1>2, <2>2, <2>3 DEF TypeOK, Post
<1>3. QED
  BY <1>1, <1>2 DEF processNextTask

\* The head of the queue is the oldest unsettled call; behind it come the
\* calls that follow it.
LEMMA HeadOfInterval ==
    ASSUME TypeOK, QueueIsInterval
    PROVE  /\ Horizon \in Nat
           /\ Horizon <= submitted
           /\ taskQueue # <<>> =>
                 /\ Horizon \in Calls
                 /\ Tail(taskQueue) \in Seq(Calls)
                 /\ Len(Tail(taskQueue)) = Len(taskQueue) - 1
                 /\ \A i \in 1 .. Len(taskQueue) - 1 :
                       Tail(taskQueue)[i] = submitted - (Len(taskQueue) - 1) + i
<1>1. CASE taskQueue = <<>>
  BY <1>1, PoolAssumption DEF TypeOK, Horizon
<1>2. CASE taskQueue # <<>>
  <2>1. Len(taskQueue) \in Nat \ {0} /\ Head(taskQueue) = taskQueue[1]
        /\ Head(taskQueue) \in Calls
    BY <1>2 DEF TypeOK
  <2>2. Horizon = submitted - Len(taskQueue) + 1
    BY <1>2, <2>1 DEF Horizon, QueueIsInterval
  <2>3. Tail(taskQueue) \in Seq(Calls) /\ Len(Tail(taskQueue)) = Len(taskQueue) - 1
        /\ \A i \in 1 .. Len(taskQueue) - 1 : Tail(taskQueue)[i] = taskQueue[i + 1]
    BY <1>2 DEF TypeOK
  <2>4. \A i \in 1 .. Len(taskQueue) - 1 :
           taskQueue[i + 1] = submitted - Len(taskQueue) + (i + 1)
    BY <2>1 DEF QueueIsInterval
  <2>5. submitted \in Nat
    BY PoolAssumption DEF TypeOK
  <2>6. Horizon \in Calls /\ Horizon \in Nat /\ Horizon <= submitted
    BY <1>2, <2>1, <2>2, <2>5, PoolAssumption
       DEF QueueIsInterval, Horizon, Calls, Service!Calls
  <2>7. ASSUME NEW i \in 1 .. Len(taskQueue) - 1
        PROVE  Tail(taskQueue)[i] = submitted - (Len(taskQueue) - 1) + i
    BY <2>1, <2>3, <2>4, <2>5
  <2>8. QED
    BY <2>3, <2>6, <2>7
<1>3. QED
  BY <1>1, <1>2

\* Taking the head off the queue keeps it an interval; the horizon recedes.
LEMMA ShiftInterval ==
    ASSUME TypeOK, QueueIsInterval, taskQueue # <<>>,
           taskQueue' = Tail(taskQueue), submitted' = submitted
    PROVE  QueueIsInterval' /\ Horizon <= Horizon' /\ Horizon' \in Nat
<1>1. QueueIsInterval'
  BY HeadOfInterval DEF QueueIsInterval, TypeOK
<1>2. CASE taskQueue' = <<>>
  <2>1. Horizon' = submitted /\ submitted \in Nat
    BY <1>2, PoolAssumption DEF Horizon, TypeOK
  <2>2. QED
    BY <1>1, <2>1, HeadOfInterval
<1>3. CASE taskQueue' # <<>>
  <2>1. Len(taskQueue') \in Nat \ {0} /\ Head(taskQueue') = taskQueue'[1]
    BY <1>3, HeadOfInterval
  <2>2. Horizon' = submitted - (Len(taskQueue) - 1) + 1
    BY <1>3, <2>1, HeadOfInterval DEF Horizon
  <2>3. Horizon = submitted - Len(taskQueue) + 1
    <3>1. Len(taskQueue) \in Nat \ {0} /\ Head(taskQueue) = taskQueue[1]
      BY DEF TypeOK
    <3>2. QED
      BY <3>1 DEF Horizon, QueueIsInterval
  <2>4. submitted \in Nat /\ Len(taskQueue) \in Nat /\ Horizon \in Nat
    BY HeadOfInterval DEF TypeOK
  <2>5. QED
    BY <1>1, <2>2, <2>3, <2>4
<1>4. QED
  BY <1>1, <1>2, <1>3

\* Settling the head with an outcome no later than it keeps every answer in
\* the past of its call, and every message within the new horizon.
LEMMA SettlePast ==
    ASSUME PastInv, NEW w \in Workers, NEW outcome \in Service!Outcome,
           outcome.doc <= Horizon, Settle(w, outcome), submitted' = submitted,
           \A v \in Workers : \A i \in DOMAIN outbox'[v] : outbox'[v][i].doc <= Horizon,
           outbox' \in [Workers -> Seq(Reply)]
    PROVE  QueueIsInterval' /\ InboxWithin(Horizon)' /\ OutboxWithin(Horizon)'
           /\ AnsweredFromPast'
<1> DEFINE freed == [states EXCEPT ![w] = "available"]
<1>0. TypeOK /\ QueueIsInterval /\ freed \in StateMap
  BY DEF PastInv, TypeOK, StateMap
<1>a. \A v \in Workers : \A i \in DOMAIN outbox'[v] : outbox'[v][i].doc \in Nat
  <2>1. ASSUME NEW v \in Workers, NEW i \in DOMAIN outbox'[v]
        PROVE  outbox'[v][i] \in Reply
    BY <2>1
  <2>2. \A m \in Reply : m.doc \in Nat
    BY PoolAssumption DEF Reply
  <2>3. QED
    BY <2>1, <2>2
<1>1. CASE /\ taskQueue # <<>>
           /\ settled' = [settled EXCEPT ![Head(taskQueue)] = outcome]
           /\ taskQueue' = Tail(taskQueue)
           /\ processNextTask(taskQueue', freed)
  <2>1. QueueIsInterval' /\ Horizon <= Horizon' /\ Horizon' \in Nat /\ Horizon \in Nat
    BY <1>0, <1>1, ShiftInterval, HeadOfInterval
  <2>2. InboxWithin(Horizon')
    <3>1. \A v \in Workers : \A i \in DOMAIN inbox[v] : inbox[v][i] \in Nat
      BY <1>0, MessagesAreNumbers
    <3>2. QED
      BY <2>1, <3>1 DEF PastInv, InboxWithin
  <2>3. taskQueue' \in Seq(Calls) /\ (taskQueue' # <<>> => Head(taskQueue') <= Horizon')
    BY <1>0, <1>1, <2>1, HeadOfInterval DEF Horizon
  <2>4. InboxWithin(Horizon)'
    <3>1. \A h \in Nat : InboxWithin(h) /\ (taskQueue' # <<>> => Head(taskQueue') <= h)
                          => \A v \in Workers : \A i \in DOMAIN inbox'[v] : inbox'[v][i] <= h
      BY <1>0, <1>1, <2>3, DispatchWithin DEF InboxWithin
    <3>2. QED
      BY <2>1, <2>2, <2>3, <3>1 DEF InboxWithin
  <2>5. OutboxWithin(Horizon)'
    BY <1>a, <2>1 DEF OutboxWithin
  <2>6. AnsweredFromPast'
    BY <1>0, <1>1 DEF PastInv, AnsweredFromPast, Horizon, TypeOK
  <2>7. QED
    BY <2>1, <2>4, <2>5, <2>6
<1>2. CASE taskQueue = <<>> /\ UNCHANGED <<settled, taskQueue, inbox>>
  BY <1>2 DEF PastInv, QueueIsInterval, InboxWithin, OutboxWithin, AnsweredFromPast, Horizon
<1>3. QED
  BY <1>1, <1>2 DEF Settle

LEMMA PastInit == Init => PastInv
<1> SUFFICES ASSUME Init PROVE PastInv
  OBVIOUS
<1>1. TypeOK
  BY TypeInit
<1>2. QED
  BY <1>1 DEF Init, PastInv, QueueIsInterval, InboxWithin, OutboxWithin,
     AnsweredFromPast, Pending, Service!Pending, Calls, Service!Calls

LEMMA PastStep == PastInv /\ [Next]_vars => PastInv'
<1> SUFFICES ASSUME PastInv, [Next]_vars PROVE PastInv'
  OBVIOUS
<1>a. TypeOK /\ QueueIsInterval /\ TypeOK'
  BY TypeStep DEF PastInv
<1>b. Horizon \in Nat /\ Horizon <= submitted
  BY <1>a, HeadOfInterval
<1>c. \A m \in Reply : m.doc \in 0 .. MaxCalls /\ m.doc \in Nat
  BY PoolAssumption DEF Reply
<1> DEFINE Frame == UNCHANGED <<submitted, taskQueue, settled>>
<1>d. Frame => QueueIsInterval' /\ Horizon' = Horizon /\ AnsweredFromPast'
  BY DEF PastInv, QueueIsInterval, Horizon, AnsweredFromPast
\* A message delivered leaves the rest of the outbox within the horizon.
<1>e. ASSUME NEW w \in Workers, outbox[w] # <<>>,
             outbox' = [outbox EXCEPT ![w] = Tail(@)]
      PROVE  /\ \A v \in Workers : \A i \in DOMAIN outbox'[v] : outbox'[v][i].doc <= Horizon
             /\ Head(outbox[w]) \in Reply /\ Head(outbox[w]).doc <= Horizon
             /\ outbox' \in [Workers -> Seq(Reply)]
  <2>1. outbox[w] \in Seq(Reply) /\ 1 \in DOMAIN outbox[w] /\ Head(outbox[w]) = outbox[w][1]
    BY <1>a, <1>e DEF TypeOK
  <2>2. ASSUME NEW v \in Workers, NEW i \in DOMAIN outbox'[v]
        PROVE  outbox'[v][i].doc <= Horizon
    <3>1. CASE v = w
      <4>1. outbox'[v] = Tail(outbox[w])
        BY <1>a, <1>e, <3>1 DEF TypeOK
      <4>2. i + 1 \in DOMAIN outbox[w] /\ outbox'[v][i] = outbox[w][i + 1]
        BY <1>e, <2>1, <2>2, <4>1, TailElement
      <4>3. QED
        BY <4>2 DEF PastInv, OutboxWithin
    <3>2. CASE v # w
      BY <1>a, <1>e, <2>2, <3>2 DEF TypeOK, PastInv, OutboxWithin
    <3>3. QED
      BY <3>1, <3>2
  <2>3. Head(outbox[w]) \in Reply /\ Head(outbox[w]).doc <= Horizon
    BY <2>1 DEF PastInv, OutboxWithin
  <2>4. outbox' \in [Workers -> Seq(Reply)]
    BY <1>a, <1>e DEF TypeOK
  <2>5. QED
    BY <2>2, <2>3, <2>4
<1>1. CASE ProcessDocument
  <2>1. submitted' = submitted + 1 /\ taskQueue' = Append(taskQueue, submitted + 1)
        /\ submitted \in Nat /\ submitted' \in Calls
    BY <1>1, <1>a, PoolAssumption DEF ProcessDocument, TypeOK, Calls, Service!Calls
  <2>2. Len(taskQueue') = Len(taskQueue) + 1 /\ Len(taskQueue) \in Nat
        /\ \A i \in 1 .. Len(taskQueue) : taskQueue'[i] = taskQueue[i]
        /\ taskQueue'[Len(taskQueue) + 1] = submitted + 1
    BY <1>a, <2>1 DEF TypeOK
  <2>3. QueueIsInterval'
    BY <1>a, <2>1, <2>2 DEF QueueIsInterval
  <2>4. Horizon <= Horizon' /\ Horizon' \in Nat
    BY <1>a, <1>b, <2>1, <2>2, <2>3, HeadOfInterval DEF Horizon, TypeOK
  <2>5. taskQueue' \in Seq(Calls) /\ taskQueue' # <<>> /\ Head(taskQueue') = Horizon'
    BY <1>a, <2>1, <2>2 DEF Horizon, TypeOK
  <2>6. InboxWithin(Horizon)'
    <3>1. InboxWithin(Horizon')
      <4>1. \A v \in Workers : \A i \in DOMAIN inbox[v] : inbox[v][i] \in Nat
        BY <1>a, MessagesAreNumbers
      <4>2. QED
        BY <1>b, <2>4, <4>1 DEF PastInv, InboxWithin
    <3>2. \A h \in Nat : InboxWithin(h) /\ Head(taskQueue') <= h
             => \A v \in Workers : \A i \in DOMAIN inbox'[v] : inbox'[v][i] <= h
      BY <1>1, <1>a, <2>5, DispatchWithin
         DEF ProcessDocument, InboxWithin, TypeOK, StateMap
    <3>3. QED
      BY <2>4, <2>5, <3>1, <3>2 DEF InboxWithin
  <2>7. OutboxWithin(Horizon)'
    <3>1. outbox' = outbox
      BY <1>1 DEF ProcessDocument
    <3>2. \A v \in Workers : \A i \in DOMAIN outbox[v] : outbox[v][i] \in Reply
      BY <1>a, MessagesAreNumbers
    <3>3. QED
      BY <1>b, <1>c, <2>4, <3>1, <3>2 DEF PastInv, OutboxWithin
  <2>8. AnsweredFromPast'
    BY <1>1 DEF ProcessDocument, PastInv, AnsweredFromPast
  <2>9. QED
    BY <1>a, <2>3, <2>6, <2>7, <2>8 DEF PastInv
<1>2. CASE StopWorkers
  <2>1. ASSUME NEW v \in Workers, NEW i \in DOMAIN inbox'[v]
        PROVE  inbox'[v][i] <= Horizon
    <3>1. inbox'[v] = inbox[v] \/ inbox'[v] = Append(inbox[v], Terminate)
      BY <1>2 DEF StopWorkers
    <3>2. inbox[v] \in Seq(0 .. MaxCalls)
      BY <1>a DEF TypeOK
    <3>3. CASE i \in DOMAIN inbox[v] /\ inbox'[v][i] = inbox[v][i]
      BY <3>3 DEF PastInv, InboxWithin
    <3>4. CASE inbox'[v][i] = Terminate
      BY <1>b, <3>4 DEF Terminate
    <3>5. QED
      BY <2>1, <3>1, <3>2, <3>3, <3>4
  <2>2. QED
    BY <1>2, <1>a, <1>d, <2>1
       DEF StopWorkers, PastInv, InboxWithin, OutboxWithin
<1>3. CASE StopDone
  <2>1. taskQueue' = <<>> /\ UNCHANGED <<submitted, settled, inbox, outbox>>
    BY <1>3 DEF StopDone
  <2>2. QueueIsInterval' /\ Horizon' = submitted /\ submitted \in Nat
    BY <1>a, <2>1, PoolAssumption DEF TypeOK, QueueIsInterval, Horizon
  <2>3. InboxWithin(Horizon)'
    <3>1. \A v \in Workers : \A i \in DOMAIN inbox[v] : inbox[v][i] \in Nat
      BY <1>a, MessagesAreNumbers
    <3>2. QED
      BY <1>b, <2>1, <2>2, <3>1 DEF PastInv, InboxWithin
  <2>4. OutboxWithin(Horizon)'
    <3>1. \A v \in Workers : \A i \in DOMAIN outbox[v] : outbox[v][i] \in Reply
      BY <1>a, MessagesAreNumbers
    <3>2. QED
      BY <1>b, <1>c, <2>1, <2>2, <3>1 DEF PastInv, OutboxWithin
  <2>5. QED
    BY <1>a, <2>1, <2>2, <2>3, <2>4 DEF PastInv, AnsweredFromPast
<1>4. ASSUME NEW w \in Workers, HandleReady(w) PROVE PastInv'
  <2>1. Frame /\ outbox[w] # <<>> /\ outbox' = [outbox EXCEPT ![w] = Tail(@)]
    BY <1>4 DEF HandleReady
  <2>2. OutboxWithin(Horizon)'
    BY <1>d, <1>e, <2>1 DEF OutboxWithin
  <2>3. [states EXCEPT ![w] = "available"] \in StateMap
    BY <1>a DEF TypeOK, StateMap
  <2>4. taskQueue # <<>> => Head(taskQueue) <= Horizon
    BY <1>b DEF Horizon
  <2>5. InboxWithin(Horizon)'
    <3>1. CASE UNCHANGED inbox
      BY <1>d, <2>1, <3>1 DEF PastInv, InboxWithin
    <3>2. CASE processNextTask(taskQueue, [states EXCEPT ![w] = "available"])
      <4>1. \A h \in Nat : InboxWithin(h) /\ (taskQueue # <<>> => Head(taskQueue) <= h)
               => \A v \in Workers : \A i \in DOMAIN inbox'[v] : inbox'[v][i] <= h
        BY <1>a, <2>3, <3>2, DispatchWithin DEF InboxWithin, TypeOK
      <4>2. QED
        BY <1>b, <1>d, <2>1, <2>4, <4>1 DEF PastInv, InboxWithin
    <3>3. QED
      BY <1>4, <3>1, <3>2 DEF HandleReady
  <2>6. QED
    BY <1>a, <1>d, <2>1, <2>2, <2>5 DEF PastInv
<1>5. ASSUME NEW w \in Workers, HandleWorkerResult(w) PROVE PastInv'
  <2>1. outbox[w] # <<>> /\ outbox' = [outbox EXCEPT ![w] = Tail(@)]
        /\ Settle(w, Resolved(Head(outbox[w]).doc)) /\ submitted' = submitted
    BY <1>5 DEF HandleWorkerResult
  <2>2. /\ Resolved(Head(outbox[w]).doc) \in Service!Outcome
        /\ Resolved(Head(outbox[w]).doc).doc <= Horizon
    BY <1>c, <1>e, <2>1 DEF Resolved, Service!Resolved, Service!Outcome
  <2>3. QED
    BY <1>a, <1>e, <2>1, <2>2, SettlePast DEF PastInv
<1>6. ASSUME NEW w \in Workers, HandleWorkerError(w) PROVE PastInv'
  <2>1. outbox[w] # <<>> /\ outbox' = [outbox EXCEPT ![w] = Tail(@)]
        /\ Settle(w, Rejected(Head(outbox[w]).doc)) /\ submitted' = submitted
    BY <1>6 DEF HandleWorkerError
  <2>2. /\ Rejected(Head(outbox[w]).doc) \in Service!Outcome
        /\ Rejected(Head(outbox[w]).doc).doc <= Horizon
    BY <1>c, <1>e, <2>1 DEF Rejected, Service!Rejected, Service!Outcome
  <2>3. QED
    BY <1>a, <1>e, <2>1, <2>2, SettlePast DEF PastInv
<1>7. ASSUME NEW w \in Workers, HandleErrorEvent(w) PROVE PastInv'
  <2>1. Settle(w, Rejected(0)) /\ submitted' = submitted /\ outbox' = outbox
    BY <1>7 DEF HandleErrorEvent
  <2>2. Rejected(0) \in Service!Outcome /\ Rejected(0).doc <= Horizon
    BY <1>b, PoolAssumption DEF Rejected, Service!Rejected, Service!Outcome
  <2>3. outbox' \in [Workers -> Seq(Reply)]
        /\ \A v \in Workers : \A i \in DOMAIN outbox'[v] : outbox'[v][i].doc <= Horizon
    BY <1>a, <2>1 DEF TypeOK, PastInv, OutboxWithin
  <2>4. QED
    BY <1>a, <2>1, <2>2, <2>3, SettlePast DEF PastInv
<1>8. ASSUME NEW w \in Workers, HandleExit(w) \/ RestartWorker(w) PROVE PastInv'
  BY <1>8, <1>a, <1>d DEF HandleExit, RestartWorker, PastInv, InboxWithin, OutboxWithin
<1>9. ASSUME NEW w \in Workers, NEW m \in Reply, m.doc <= Horizon, Frame,
             outbox' = [outbox EXCEPT ![w] = Append(@, m)],
             InboxWithin(Horizon)'
      PROVE  PastInv'
  <2>1. ASSUME NEW v \in Workers, NEW i \in DOMAIN outbox'[v]
        PROVE  outbox'[v][i].doc <= Horizon
    <3>1. outbox[v] \in Seq(Reply)
      BY <1>a DEF TypeOK
    <3>2. outbox'[v] = outbox[v] \/ outbox'[v] = Append(outbox[v], m)
      BY <1>9, <1>a DEF TypeOK
    <3>3. CASE i \in DOMAIN outbox[v] /\ outbox'[v][i] = outbox[v][i]
      BY <3>3 DEF PastInv, OutboxWithin
    <3>4. CASE outbox'[v][i] = m
      BY <1>9, <3>4
    <3>5. QED
      BY <2>1, <3>1, <3>2, <3>3, <3>4
  <2>2. QED
    BY <1>9, <1>a, <1>d, <2>1 DEF PastInv, OutboxWithin
<1>10. ASSUME NEW w \in Workers, Boot(w) PROVE PastInv'
  <2>1. Ready \in Reply /\ Ready.doc <= Horizon
    BY <1>b, PoolAssumption DEF Ready, Reply
  <2>2. InboxWithin(Horizon)'
    BY <1>10, <1>d DEF Boot, PastInv, InboxWithin
  <2>3. QED
    BY <1>10, <1>9, <2>1, <2>2 DEF Boot
<1>11. ASSUME NEW w \in Workers, Analyse(w) PROVE PastInv'
  <2>1. inbox[w] \in Seq(0 .. MaxCalls) /\ inbox[w] # <<>>
        /\ 1 \in DOMAIN inbox[w] /\ Head(inbox[w]) = inbox[w][1]
    BY <1>11, <1>a DEF TypeOK, Analyse
  <2>2. PICK type \in {"result", "error"} :
           outbox' = [outbox EXCEPT
                        ![w] = Append(@, [type |-> type, doc |-> Head(inbox[w])])]
    BY <1>11 DEF Analyse
  <2>3. /\ [type |-> type, doc |-> Head(inbox[w])] \in Reply
        /\ [type |-> type, doc |-> Head(inbox[w])].doc <= Horizon
    <3>1. Head(inbox[w]) \in 0 .. MaxCalls /\ Head(inbox[w]) <= Horizon
      BY <1>a, <2>1, MessagesAreNumbers DEF PastInv, InboxWithin
    <3>2. QED
      BY <3>1 DEF Reply
  <2>4. Frame
    BY <1>11 DEF Analyse
  <2>5. ASSUME NEW v \in Workers, NEW i \in DOMAIN inbox'[v]
        PROVE  inbox'[v][i] <= Horizon
    <3>1. CASE v = w
      <4>1. inbox'[v] = Tail(inbox[w])
        BY <1>11, <1>a, <3>1 DEF Analyse, TypeOK
      <4>2. i + 1 \in DOMAIN inbox[w] /\ inbox'[v][i] = inbox[w][i + 1]
        BY <2>1, <2>5, <4>1
      <4>3. QED
        BY <4>2 DEF PastInv, InboxWithin
    <3>2. CASE v # w
      BY <1>11, <1>a, <2>5, <3>2 DEF Analyse, TypeOK, PastInv, InboxWithin
    <3>3. QED
      BY <3>1, <3>2
  <2>6. InboxWithin(Horizon)'
    BY <1>d, <2>4, <2>5 DEF InboxWithin
  <2>7. QED
    BY <1>9, <2>2, <2>3, <2>4, <2>6
<1>12. ASSUME NEW w \in Workers, Exit(w) \/ Crash(w) PROVE PastInv'
  <2>1. Frame /\ outbox' = outbox /\ inbox' = [inbox EXCEPT ![w] = <<>>]
    BY <1>12 DEF Exit, Crash
  <2>2. InboxWithin(Horizon)'
    BY <1>a, <1>d, <2>1 DEF TypeOK, PastInv, InboxWithin
  <2>3. QED
    BY <1>a, <1>d, <2>1, <2>2 DEF PastInv, OutboxWithin
<1>13. CASE UNCHANGED vars
  BY <1>13, <1>a, <1>d DEF vars, PastInv, InboxWithin, OutboxWithin
<1>14. QED
  BY <1>1, <1>2, <1>3, <1>4, <1>5, <1>6, <1>7, <1>8, <1>10, <1>11, <1>12,
     <1>13 DEF Next, Runtime

\* No call is ever answered with the analysis of a document submitted after
\* it, whatever the number of workers and however they crash.
THEOREM NoAnswerFromTheFuture == Spec => []AnsweredFromPast
<1>1. PastInv => AnsweredFromPast
  BY DEF PastInv
<1>2. QED
  BY <1>1, PastInit, PastStep, PTL DEF Spec

-----------------------------------------------------------------------------
(* The busy flag of a thread that was never replaced.  Its inductive form  *)
(* lists what such a thread's mailboxes can hold, and says that stopWorkers*)
(* does not return (and forget the flags) before the thread has exited.    *)

Jobless(i, p) == i = <<>> \/ (p # "no" /\ i = <<Terminate>>)
OneJob(i, p) ==
    \E d \in Calls :
        i = <<d>> \/ (p # "no" /\ i \in {<<d, Terminate>>, <<Terminate, d>>})
OneReply(o) == \E m \in Reply : m.type # "ready" /\ o = <<m>>

\* Thread t with flag s, inbox i, outbox o, while stopWorkers is at p.
Shape(t, s, i, o, p) ==
    \/ t = "starting" /\ s = "unset" /\ Jobless(i, p) /\ o = <<>>
    \/ t = "up" /\ s = "unset" /\ Jobless(i, p) /\ o = <<Ready>>
    \/ t = "up" /\ s = "available" /\ Jobless(i, p) /\ o = <<>>
    \/ t = "up" /\ s = "busy" /\ OneJob(i, p) /\ o = <<>>
    \/ t = "up" /\ s = "busy" /\ Jobless(i, p) /\ OneReply(o)

FirstAlive(w) == gen[w] = 0 /\ thread[w] \in Alive

ShapeInv ==
    /\ TypeOK
    /\ \A w \in Workers :
          FirstAlive(w) => Shape(thread[w], states[w], inbox[w], outbox[w], stop)
    /\ \A w \in Workers :
          gen[w] = 0 /\ thread[w] \in Alive \cup {"crashed", "exiting", "exited"}
             => stop = "no" \/ (stop = "waiting" /\ <<w, 0>> \in awaiting)

\* What a dispatch with flags st may do to worker v.
Effect(v, st) ==
    \/ states'[v] = st[v] /\ inbox'[v] = inbox[v]
    \/ /\ st[v] = "available" /\ states'[v] = "busy"
       /\ \E d \in Calls :
             inbox'[v] = IF thread[v] \in Alive THEN Append(inbox[v], d) ELSE inbox[v]

LEMMA DispatchEffect ==
    ASSUME TypeOK, NEW queue \in Seq(Calls), NEW st \in StateMap,
           processNextTask(queue, st), NEW v \in Workers
    PROVE  Effect(v, st)
<1>1. CASE inbox' = inbox /\ states' = st
  BY <1>1 DEF Effect
<1>2. ASSUME NEW w \in Workers, queue # <<>>, st[w] = "available",
             states' = [st EXCEPT ![w] = "busy"], Post(w, Head(queue))
      PROVE  Effect(v, st)
  <2>1. Head(queue) \in Calls
    BY <1>2
  <2>2. CASE v = w
    BY <1>2, <2>1, <2>2 DEF TypeOK, Post, StateMap, Effect
  <2>3. CASE v # w
    BY <1>2, <2>3 DEF TypeOK, Post, StateMap, Effect
  <2>4. QED
    BY <2>2, <2>3
<1>3. QED
  BY <1>1, <1>2 DEF processNextTask

LEMMA SettleEffect ==
    ASSUME TypeOK, NEW w \in Workers, NEW outcome, Settle(w, outcome),
           NEW v \in Workers
    PROVE  Effect(v, [states EXCEPT ![w] = "available"])
<1> DEFINE freed == [states EXCEPT ![w] = "available"]
<1>1. freed \in StateMap
  BY DEF TypeOK, StateMap
<1>2. CASE taskQueue # <<>> /\ taskQueue' = Tail(taskQueue)
           /\ processNextTask(taskQueue', freed)
  <2>1. taskQueue' \in Seq(Calls)
    BY <1>2 DEF TypeOK
  <2>2. QED
    BY <1>1, <1>2, <2>1, DispatchEffect
<1>3. CASE states' = freed /\ UNCHANGED inbox
  BY <1>3 DEF Effect
<1>4. QED
  BY <1>2, <1>3 DEF Settle

LEMMA PairByAppend ==
    ASSUME NEW S, NEW a \in S, NEW b \in S
    PROVE  Append(<<a>>, b) = <<a, b>>
<1>1. <<a>> \in Seq(S) /\ Len(<<a>>) = 1
  OBVIOUS
<1>2. Append(<<a>>, b) \in Seq(S) /\ Len(Append(<<a>>, b)) = 2
  BY <1>1
<1>3. Append(<<a>>, b)[1] = a /\ Append(<<a>>, b)[2] = b
  BY <1>1
<1>4. <<a, b>> \in Seq(S) /\ Len(<<a, b>>) = 2
  OBVIOUS
<1>5. \A i \in 1 .. Len(Append(<<a>>, b)) : Append(<<a>>, b)[i] = <<a, b>>[i]
  BY <1>2, <1>3
<1>6. QED
  BY <1>2, <1>4, <1>5, SeqEqual

\* A dispatch turns an idle thread into one with a single job.
LEMMA EffectKeepsShape ==
    ASSUME TypeOK, NEW v \in Workers, NEW st, NEW o, NEW p, thread[v] \in Alive,
           Shape(thread[v], st[v], inbox[v], o, p), Effect(v, st)
    PROVE  Shape(thread[v], states'[v], inbox'[v], o, p)
<1>1. CASE states'[v] = st[v] /\ inbox'[v] = inbox[v]
  BY <1>1
<1>2. ASSUME NEW d \in Calls, st[v] = "available", states'[v] = "busy",
             inbox'[v] = Append(inbox[v], d)
      PROVE  Shape(thread[v], states'[v], inbox'[v], o, p)
  <2>1. thread[v] = "up" /\ Jobless(inbox[v], p) /\ o = <<>>
    BY <1>2 DEF Shape
  <2>2. OneJob(inbox'[v], p)
    <3>1. CASE inbox[v] = <<>>
      <4>1. inbox'[v] = <<d>>
        BY <1>2, <3>1
      <4>2. QED
        BY <4>1 DEF OneJob
    <3>2. CASE p # "no" /\ inbox[v] = <<Terminate>>
      <4>1. inbox'[v] = <<Terminate, d>>
        <5>1. Terminate \in Nat /\ d \in Nat
          BY PoolAssumption DEF Terminate, Calls, Service!Calls
        <5>2. QED
          BY <1>2, <3>2, <5>1, PairByAppend
      <4>2. QED
        <5>1. inbox'[v] \in {<<d, Terminate>>, <<Terminate, d>>}
          BY <4>1
        <5>2. QED
          BY <3>2, <5>1 DEF OneJob
    <3>3. QED
      BY <2>1, <3>1, <3>2 DEF Jobless
  <2>3. QED
    BY <1>2, <2>1, <2>2 DEF Shape
<1>3. QED
  BY <1>1, <1>2 DEF Effect

LEMMA ShapeInit == Init => ShapeInv
<1> SUFFICES ASSUME Init PROVE ShapeInv
  OBVIOUS
<1>1. TypeOK
  BY TypeInit
<1>2. QED
  BY <1>1 DEF Init, ShapeInv, FirstAlive, Alive, Shape, Jobless

LEMMA ShapeStep == ShapeInv /\ [Next]_vars => ShapeInv'
<1> SUFFICES ASSUME ShapeInv, [Next]_vars PROVE ShapeInv'
  OBVIOUS
<1>a. TypeOK /\ TypeOK'
  BY TypeStep DEF ShapeInv
<1> DEFINE Awaited(w) ==
             gen[w] = 0 /\ thread[w] \in Alive \cup {"crashed", "exiting", "exited"}
                => stop = "no" \/ (stop = "waiting" /\ <<w, 0>> \in awaiting)
           Shaped(w) ==
             FirstAlive(w) => Shape(thread[w], states[w], inbox[w], outbox[w], stop)
<1>b. SUFFICES ASSUME NEW v \in Workers PROVE Shaped(v)' /\ Awaited(v)'
  BY <1>a DEF ShapeInv
<1>c. Shaped(v) /\ Awaited(v)
  BY DEF ShapeInv
<1>d. UNCHANGED <<gen, thread, stop, awaiting>> => Awaited(v)'
  BY <1>c
<1>1. CASE ProcessDocument
  <2>1. taskQueue' \in Seq(Calls) /\ states \in StateMap
        /\ processNextTask(taskQueue', states)
        /\ UNCHANGED <<thread, gen, outbox, stop, awaiting>>
    BY <1>1, <1>a DEF ProcessDocument, TypeOK, StateMap
  <2>2. Effect(v, states)
    BY <1>a, <2>1, DispatchEffect
  <2>3. Shaped(v)'
    BY <1>a, <1>c, <2>1, <2>2, EffectKeepsShape DEF FirstAlive
  <2>4. QED
    BY <1>d, <2>1, <2>3
<1>2. CASE StopWorkers
  <2>1. /\ stop = "no" /\ stop' = "waiting" /\ <<v, gen[v]>> \in awaiting'
        /\ UNCHANGED <<states, thread, gen, outbox>>
        /\ thread[v] \in Alive => inbox'[v] = Append(inbox[v], Terminate)
    BY <1>2 DEF StopWorkers
  <2>2. Awaited(v)'
    BY <2>1
  <2>3. Jobless(inbox[v], stop) /\ thread[v] \in Alive => Jobless(inbox'[v], stop')
    BY <2>1 DEF Jobless
  <2>4. OneJob(inbox[v], stop) /\ thread[v] \in Alive => OneJob(inbox'[v], stop')
    <3>1. SUFFICES ASSUME NEW d \in Calls, inbox[v] = <<d>>, thread[v] \in Alive
                   PROVE  OneJob(inbox'[v], stop')
      BY <2>1 DEF OneJob
    <3>2. inbox'[v] = <<d, Terminate>>
      BY <2>1, <3>1
    <3>3. inbox'[v] \in {<<d, Terminate>>, <<Terminate, d>>}
      BY <3>2
    <3>4. QED
      BY <2>1, <3>3 DEF OneJob
  <2>5. Shaped(v)'
    BY <1>c, <2>1, <2>3, <2>4 DEF Shape, FirstAlive
  <2>6. QED
    BY <2>2, <2>5
<1>3. CASE StopDone
  BY <1>3, <1>c DEF StopDone, FirstAlive, Alive
<1>4. ASSUME NEW w \in Workers, HandleReady(w) PROVE Shaped(v)' /\ Awaited(v)'
  <2> DEFINE freed == [states EXCEPT ![w] = "available"]
  <2>1. UNCHANGED <<thread, gen, stop, awaiting>> /\ freed \in StateMap
        /\ outbox' = [outbox EXCEPT ![w] = Tail(@)]
    BY <1>4, <1>a DEF HandleReady, TypeOK, StateMap
  <2>2. Effect(v, freed)
    <3>1. CASE states' = freed /\ UNCHANGED inbox
      BY <3>1 DEF Effect
    <3>2. CASE processNextTask(taskQueue, freed)
      BY <1>a, <2>1, <3>2, DispatchEffect DEF TypeOK
    <3>3. QED
      BY <1>4, <3>1, <3>2 DEF HandleReady
  <2>3. CASE v # w
    <3>1. freed[v] = states[v] /\ outbox'[v] = outbox[v]
      BY <1>a, <2>1, <2>3 DEF TypeOK
    <3>2. Shaped(v)'
      BY <1>a, <1>c, <2>1, <2>2, <3>1, EffectKeepsShape DEF FirstAlive
    <3>3. QED
      BY <1>d, <2>1, <3>2
  <2>4. CASE v = w
    <3>1. SUFFICES ASSUME FirstAlive(w) PROVE Shaped(v)'
      BY <1>d, <2>1, <2>4 DEF FirstAlive
    <3>2. outbox[w] # <<>> /\ Head(outbox[w]).type = "ready"
      BY <1>4 DEF HandleReady
    <3>3. \A m : m.type # "ready" => outbox[w] # <<m>>
      BY <3>2
    <3>4. thread[w] = "up" /\ Jobless(inbox[w], stop) /\ outbox[w] = <<Ready>>
      BY <1>c, <2>4, <3>1, <3>2, <3>3 DEF Shape, OneReply
    <3>5. outbox'[w] = <<>> /\ freed[w] = "available"
      BY <1>a, <2>1, <3>4 DEF TypeOK
    <3>6. Shape(thread[w], freed[w], inbox[w], outbox'[w], stop)
      BY <3>4, <3>5 DEF Shape
    <3>7. QED
      BY <1>a, <2>1, <2>2, <2>4, <3>1, <3>6, EffectKeepsShape DEF FirstAlive
  <2>5. QED
    BY <2>3, <2>4
\* An answer: the thread it comes from had just that one job.
<1>5. ASSUME NEW w \in Workers, NEW outcome, Settle(w, outcome),
             outbox[w] # <<>>, Head(outbox[w]).type # "ready",
             outbox' = [outbox EXCEPT ![w] = Tail(@)],
             UNCHANGED <<thread, gen, stop, awaiting>>
      PROVE  Shaped(v)' /\ Awaited(v)'
  <2> DEFINE freed == [states EXCEPT ![w] = "available"]
  <2>1. Effect(v, freed)
    BY <1>a, <1>5, SettleEffect
  <2>2. CASE v # w
    <3>1. freed[v] = states[v] /\ outbox'[v] = outbox[v]
      BY <1>a, <1>5, <2>2 DEF TypeOK
    <3>2. Shaped(v)'
      BY <1>a, <1>c, <1>5, <2>1, <3>1, EffectKeepsShape DEF FirstAlive
    <3>3. QED
      BY <1>d, <1>5, <3>2
  <2>3. CASE v = w
    <3>1. SUFFICES ASSUME FirstAlive(w) PROVE Shaped(v)'
      BY <1>d, <1>5, <2>3 DEF FirstAlive
    <3>2. outbox[w] # <<Ready>>
      BY <1>5 DEF Ready
    <3>3. thread[w] = "up" /\ Jobless(inbox[w], stop) /\ OneReply(outbox[w])
      BY <1>c, <1>5, <2>3, <3>1, <3>2 DEF Shape
    <3>4. outbox'[w] = <<>> /\ freed[w] = "available"
      BY <1>a, <1>5, <3>3 DEF TypeOK, OneReply
    <3>5. Shape(thread[w], freed[w], inbox[w], outbox'[w], stop)
      BY <3>3, <3>4 DEF Shape
    <3>6. QED
      BY <1>a, <1>5, <2>1, <2>3, <3>1, <3>5, EffectKeepsShape DEF FirstAlive
  <2>4. QED
    BY <2>2, <2>3
<1>6. ASSUME NEW w \in Workers, HandleWorkerResult(w) \/ HandleWorkerError(w)
      PROVE  Shaped(v)' /\ Awaited(v)'
  BY <1>5, <1>6 DEF HandleWorkerResult, HandleWorkerError
<1>7. ASSUME NEW w \in Workers, HandleErrorEvent(w) PROVE Shaped(v)' /\ Awaited(v)'
  <2>1. Effect(v, [states EXCEPT ![w] = "available"])
    BY <1>7, <1>a, SettleEffect DEF HandleErrorEvent
  <2>2. CASE v = w
    BY <1>7, <1>a, <1>c, <2>2 DEF HandleErrorEvent, FirstAlive, Alive, TypeOK
  <2>3. CASE v # w
    <3>1. [states EXCEPT ![w] = "available"][v] = states[v]
          /\ UNCHANGED <<outbox, gen, stop, awaiting>> /\ thread'[v] = thread[v]
      BY <1>7, <1>a, <2>3 DEF HandleErrorEvent, TypeOK
    <3>2. Shaped(v)'
      BY <1>a, <1>c, <2>1, <3>1, EffectKeepsShape DEF FirstAlive
    <3>3. QED
      BY <1>c, <3>1, <3>2
  <2>4. QED
    BY <2>2, <2>3
<1>8. ASSUME NEW w \in Workers, HandleExit(w) PROVE Shaped(v)' /\ Awaited(v)'
  BY <1>8, <1>a, <1>c DEF HandleExit, FirstAlive, Alive, TypeOK
<1>9. ASSUME NEW w \in Workers, RestartWorker(w) PROVE Shaped(v)' /\ Awaited(v)'
  BY <1>9, <1>a, <1>c DEF RestartWorker, FirstAlive, Alive, TypeOK
<1>10. ASSUME NEW w \in Workers, Boot(w) PROVE Shaped(v)' /\ Awaited(v)'
  <2>1. outbox[w] = <<>> => outbox'[w] = <<Ready>>
    BY <1>10, <1>a DEF Boot, TypeOK
  <2>2. QED
    BY <1>10, <1>a, <1>c, <2>1 DEF Boot, FirstAlive, Alive, TypeOK, Shape
<1>11. ASSUME NEW w \in Workers, Analyse(w) PROVE Shaped(v)' /\ Awaited(v)'
  <2>1. PICK type \in {"result", "error"} :
           outbox' = [outbox EXCEPT
                        ![w] = Append(@, [type |-> type, doc |-> Head(inbox[w])])]
    BY <1>11 DEF Analyse
  <2>2. thread[w] = "up" /\ inbox[w] # <<>> /\ Head(inbox[w]) # Terminate
        /\ inbox' = [inbox EXCEPT ![w] = Tail(@)]
        /\ UNCHANGED <<states, thread, gen, stop, awaiting>>
    BY <1>11 DEF Analyse
  <2>3. CASE v # w
    BY <1>a, <1>c, <2>1, <2>2, <2>3 DEF FirstAlive, TypeOK
  <2>4. CASE v = w
    <3>1. SUFFICES ASSUME FirstAlive(w) PROVE Shaped(v)'
      BY <1>d, <2>2, <2>4 DEF FirstAlive
    <3>2. ~ Jobless(inbox[w], stop)
      BY <2>2 DEF Jobless
    <3>3. states[w] = "busy" /\ OneJob(inbox[w], stop) /\ outbox[w] = <<>>
      BY <1>c, <2>2, <2>4, <3>1, <3>2 DEF Shape
    <3>4. Jobless(inbox'[w], stop)
      <4>1. PICK d \in Calls : inbox[w] = <<d>>
                             \/ (stop # "no" /\ inbox[w] \in {<<d, Terminate>>, <<Terminate, d>>})
        BY <3>3 DEF OneJob
      <4>2. inbox'[w] = Tail(inbox[w])
        BY <1>a, <2>2 DEF TypeOK
      <4>3. CASE inbox[w] = <<d>>
        BY <4>2, <4>3 DEF Jobless
      <4>4. CASE stop # "no" /\ inbox[w] = <<d, Terminate>>
        <5>1. Tail(<<d, Terminate>>) = <<Terminate>>
          OBVIOUS
        <5>2. QED
          BY <4>2, <4>4, <5>1 DEF Jobless
      <4>5. CASE inbox[w] = <<Terminate, d>>
        BY <2>2, <4>5
      <4>6. QED
        BY <4>1, <4>3, <4>4, <4>5
    <3>5. OneReply(outbox'[w])
      <4>1. Head(inbox[w]) \in 0 .. MaxCalls
        <5>1. inbox[w] \in Seq(0 .. MaxCalls)
          BY <1>a DEF TypeOK
        <5>2. QED
          BY <2>2, <5>1, HeadTailProperties
      <4>2. outbox'[w] = <<[type |-> type, doc |-> Head(inbox[w])]>>
        BY <1>a, <2>1, <3>3 DEF TypeOK
      <4>3. /\ [type |-> type, doc |-> Head(inbox[w])] \in Reply
            /\ [type |-> type, doc |-> Head(inbox[w])].type # "ready"
        BY <4>1 DEF Reply
      <4>4. QED
        BY <4>2, <4>3 DEF OneReply
    <3>6. QED
      BY <2>2, <2>4, <3>3, <3>4, <3>5 DEF Shape
  <2>5. QED
    BY <2>3, <2>4
<1>12. ASSUME NEW w \in Workers, Exit(w) \/ Crash(w) PROVE Shaped(v)' /\ Awaited(v)'
  BY <1>12, <1>a, <1>c DEF Exit, Crash, FirstAlive, Alive, TypeOK
<1>13. CASE UNCHANGED vars
  BY <1>13, <1>c DEF vars, FirstAlive
<1>14. QED
  BY <1>1, <1>2, <1>3, <1>4, <1>6, <1>7, <1>8, <1>9, <1>10, <1>11, <1>12,
     <1>13 DEF Next, Runtime

\* Counting the jobs of each shape.
LEMMA ShapeCounts == ShapeInv => FirstThreadHasOneJob
<1> SUFFICES ASSUME ShapeInv, NEW w \in Workers, FirstAlive(w), states[w] # "unset"
             PROVE  Jobs(w) = IF states[w] = "busy" THEN 1 ELSE 0
  BY DEF FirstThreadHasOneJob, FirstAlive
<1> DEFINE InJobs  == {i \in DOMAIN inbox[w] : inbox[w][i] # Terminate}
           OutJobs == {i \in DOMAIN outbox[w] : outbox[w][i].type # "ready"}
<1>1. Jobs(w) = Cardinality(InJobs) + Cardinality(OutJobs)
  BY DEF Jobs
<1>2. Cardinality({}) = 0 /\ Cardinality({1}) = 1 /\ Cardinality({2}) = 1
  BY FS_EmptySet, FS_Singleton
<1>3. Shape(thread[w], states[w], inbox[w], outbox[w], stop)
  BY DEF ShapeInv
<1>4. Jobless(inbox[w], stop) => InJobs = {}
  BY DEF Jobless
<1>5. OneJob(inbox[w], stop) => InJobs = {1} \/ InJobs = {2}
  <2>1. SUFFICES ASSUME NEW d \in Calls,
                        inbox[w] = <<d>> \/ inbox[w] = <<d, Terminate>>
                          \/ inbox[w] = <<Terminate, d>>
                 PROVE  InJobs = {1} \/ InJobs = {2}
    BY DEF OneJob
  <2>2. d # Terminate
    BY DEF Calls, Service!Calls, Terminate
  <2>3. CASE inbox[w] = <<d>>
    BY <2>2, <2>3
  <2>4. CASE inbox[w] = <<d, Terminate>>
    BY <2>2, <2>4
  <2>5. CASE inbox[w] = <<Terminate, d>>
    BY <2>2, <2>5
  <2>6. QED
    BY <2>1, <2>3, <2>4, <2>5
<1>6. outbox[w] = <<>> => OutJobs = {}
  OBVIOUS
<1>7. OneReply(outbox[w]) => OutJobs = {1}
  BY DEF OneReply
<1>8. CASE states[w] = "busy"
  <2>1. \/ OneJob(inbox[w], stop) /\ outbox[w] = <<>>
        \/ Jobless(inbox[w], stop) /\ OneReply(outbox[w])
    BY <1>3, <1>8 DEF Shape
  <2>2. CASE OneJob(inbox[w], stop) /\ outbox[w] = <<>>
    <3>1. Cardinality(InJobs) = 1 /\ Cardinality(OutJobs) = 0
      BY <1>2, <1>5, <1>6, <2>2
    <3>2. QED
      BY <1>1, <1>8, <3>1
  <2>3. CASE Jobless(inbox[w], stop) /\ OneReply(outbox[w])
    <3>1. Cardinality(InJobs) = 0 /\ Cardinality(OutJobs) = 1
      BY <1>2, <1>4, <1>7, <2>3
    <3>2. QED
      BY <1>1, <1>8, <3>1
  <2>4. QED
    BY <2>1, <2>2, <2>3
<1>9. CASE states[w] = "available"
  <2>1. Cardinality(InJobs) = 0 /\ Cardinality(OutJobs) = 0
    BY <1>2, <1>3, <1>4, <1>6, <1>9 DEF Shape
  <2>2. QED
    BY <1>1, <1>9, <2>1
<1>10. QED
  BY <1>8, <1>9 DEF ShapeInv, TypeOK

\* The busy flag of a never restarted worker is true exactly while the worker
\* has one document to answer for, whatever the other workers do.
THEOREM BusyMeansOneJob == Spec => []FirstThreadHasOneJob
<1>1. QED
  BY ShapeInit, ShapeStep, ShapeCounts, PTL DEF Spec

-----------------------------------------------------------------------------
(* A pool of one worker (one or two CPU cores) that does not crash         *)
(* implements AnalysisService.  The invariant: whatever is in flight is    *)
(* the oldest unsettled call, and calls from that one on are pending.      *)

OldestCall(d) == taskQueue # <<>> /\ d = Head(taskQueue)

SoleInv ==
    /\ ShapeInv
    /\ PastInv
    /\ \A w \in Workers :
          /\ gen[w] = 0
          /\ thread[w] \in Alive \cup {"exited", "stopped"}
          /\ thread[w] = "exited" => inbox[w] = <<>> /\ Len(outbox[w]) <= 1
          /\ thread[w] = "stopped" => inbox[w] = <<>> /\ outbox[w] = <<>>
          /\ \A i \in DOMAIN inbox[w] :
                inbox[w][i] # Terminate => OldestCall(inbox[w][i])
          /\ \A i \in DOMAIN outbox[w] :
                outbox[w][i].type # "ready" => OldestCall(outbox[w][i].doc)
    /\ \A n \in Calls : n > submitted - Len(taskQueue) => settled[n] = Pending

\* A dispatch adds the head of the queue to what is in flight.
LEMMA DispatchOldest ==
    ASSUME TypeOK, NEW queue \in Seq(Calls), NEW st \in StateMap,
           processNextTask(queue, st), NEW v \in Workers,
           \A i \in DOMAIN inbox[v] :
              inbox[v][i] # Terminate => queue # <<>> /\ inbox[v][i] = Head(queue)
    PROVE  \A i \in DOMAIN inbox'[v] :
              inbox'[v][i] # Terminate => queue # <<>> /\ inbox'[v][i] = Head(queue)
<1>1. CASE inbox' = inbox
  BY <1>1
<1>2. ASSUME NEW w \in Workers, queue # <<>>, Post(w, Head(queue)),
             NEW i \in DOMAIN inbox'[v]
      PROVE  inbox'[v][i] # Terminate => inbox'[v][i] = Head(queue)
  <2>1. inbox'[v] = inbox[v] \/ inbox'[v] = Append(inbox[v], Head(queue))
    BY <1>2 DEF Post, TypeOK
  <2>2. inbox[v] \in Seq(0 .. MaxCalls)
    BY DEF TypeOK
  <2>3. (i \in DOMAIN inbox[v] /\ inbox'[v][i] = inbox[v][i]) \/ inbox'[v][i] = Head(queue)
    BY <1>2, <2>1, <2>2
  <2>4. QED
    BY <2>3
<1>3. QED
  BY <1>1, <1>2 DEF processNextTask

\* One message delivered: one less, and none when there was but one.
LEMMA TailShorter ==
    ASSUME NEW S, NEW s \in Seq(S), s # <<>>
    PROVE  Tail(s) \in Seq(S) /\ Len(s) \in Nat /\ Len(Tail(s)) = Len(s) - 1
<1>1. Len(s) \in Nat \ {0}
  BY EmptySeq
<1>2. QED
  BY <1>1, HeadTailProperties

LEMMA TailOfOne ==
    ASSUME NEW S, NEW s \in Seq(S), s # <<>>, Len(s) <= 1
    PROVE  Tail(s) = <<>>
<1>1. Len(s) \in Nat \ {0} /\ Tail(s) \in Seq(S) /\ Len(Tail(s)) = Len(s) - 1
  BY EmptySeq, TailShorter
<1>2. Len(Tail(s)) = 0
  BY <1>1
<1>3. QED
  BY <1>1, <1>2, EmptySeq

\* An answer of the sole worker settles the call it is about, and leaves
\* nothing in flight but the call that is now the oldest.
LEMMA SoleSettle ==
    ASSUME SoleInv, NEW w \in Workers, Workers = {w}, NEW outcome,
           outbox[w] # <<>>, Head(outbox[w]).type # "ready",
           outbox' = [outbox EXCEPT ![w] = Tail(@)],
           UNCHANGED <<submitted, thread, gen, stop>>,
           Settle(w, outcome), ShapeInv', PastInv'
    PROVE  /\ SoleInv'
           /\ Head(outbox[w]).doc \in Calls /\ Head(outbox[w]).doc <= submitted
           /\ settled[Head(outbox[w]).doc] = Pending
           /\ settled' = [settled EXCEPT ![Head(outbox[w]).doc] = outcome]
<1> DEFINE n == Head(taskQueue)
           freed == [states EXCEPT ![w] = "available"]
<1>1. TypeOK /\ TypeOK' /\ QueueIsInterval /\ freed \in StateMap
  BY DEF SoleInv, ShapeInv, PastInv, TypeOK, StateMap
<1>2. outbox[w] \in Seq(Reply) /\ Head(outbox[w]) = outbox[w][1] /\ 1 \in DOMAIN outbox[w]
  BY <1>1 DEF TypeOK
<1>3. taskQueue # <<>> /\ Head(outbox[w]).doc = n
  BY <1>2 DEF SoleInv, OldestCall
<1>4. n \in Calls /\ n <= submitted /\ n = submitted - Len(taskQueue) + 1
      /\ submitted \in Nat /\ Len(taskQueue) \in Nat
  <2>1. n = Horizon
    BY <1>3 DEF Horizon
  <2>2. Len(taskQueue) \in Nat \ {0} /\ n = taskQueue[1] /\ submitted \in Nat
    BY <1>1, <1>3, PoolAssumption DEF TypeOK
  <2>3. QED
    BY <1>1, <1>3, <2>1, <2>2, HeadOfInterval DEF QueueIsInterval
<1>5. settled[n] = Pending
  <2>1. n > submitted - Len(taskQueue)
    BY <1>4
  <2>2. QED
    BY <1>4, <2>1 DEF SoleInv
<1>6. /\ settled' = [settled EXCEPT ![n] = outcome]
      /\ taskQueue' = Tail(taskQueue)
      /\ processNextTask(taskQueue', freed)
  BY <1>3 DEF Settle
<1>7. taskQueue' \in Seq(Calls) /\ QueueIsInterval'
      /\ Len(taskQueue') = Len(taskQueue) - 1
  BY <1>1, <1>3, <1>6, ShiftInterval, HeadOfInterval
\* The one reply was all the worker had.
<1>8. /\ \A i \in DOMAIN inbox[w] : inbox[w][i] = Terminate
      /\ outbox'[w] = <<>>
      /\ thread[w] # "stopped"
      /\ thread[w] = "exited" => inbox[w] = <<>>
  <2>1. outbox'[w] = Tail(outbox[w])
    BY <1>1 DEF TypeOK
  <2>2. CASE thread[w] \in Alive
    <3>1. Shape(thread[w], states[w], inbox[w], outbox[w], stop)
      BY <2>2 DEF SoleInv, ShapeInv, FirstAlive
    <3>2. outbox[w] # <<Ready>>
      BY DEF Ready
    <3>3. Jobless(inbox[w], stop) /\ OneReply(outbox[w])
      BY <3>1, <3>2 DEF Shape
    <3>4. \A i \in DOMAIN inbox[w] : inbox[w][i] = Terminate
      BY <3>3 DEF Jobless
    <3>5. outbox'[w] = <<>>
      BY <2>1, <3>3 DEF OneReply
    <3>6. QED
      BY <2>2, <3>4, <3>5 DEF Alive
  <2>3. CASE thread[w] \in {"exited", "stopped"}
    <3>1. inbox[w] = <<>> /\ Len(outbox[w]) <= 1 /\ thread[w] = "exited"
      BY <2>3 DEF SoleInv
    <3>2. outbox'[w] = <<>>
      BY <1>2, <2>1, <3>1, TailOfOne
    <3>3. QED
      BY <3>1, <3>2
  <2>4. QED
    BY <2>2, <2>3 DEF SoleInv
<1>9. \A i \in DOMAIN inbox'[w] :
         inbox'[w][i] # Terminate => taskQueue' # <<>> /\ inbox'[w][i] = Head(taskQueue')
  BY <1>1, <1>6, <1>7, <1>8, DispatchOldest
<1>10. thread[w] = "exited" => inbox'[w] = <<>>
  BY <1>1, <1>6, <1>7, <1>8, DispatchEffect DEF Effect, Alive
<1>11. \A m \in Calls : m > submitted - Len(taskQueue') => settled'[m] = Pending
  <2>1. SUFFICES ASSUME NEW m \in Calls, m > submitted - Len(taskQueue')
                 PROVE  settled'[m] = Pending
    OBVIOUS
  <2>2. m \in Nat
    BY DEF Calls, Service!Calls
  <2>3. m # n /\ m > submitted - Len(taskQueue)
    BY <1>4, <1>7, <2>1, <2>2
  <2>4. settled'[m] = settled[m]
    BY <1>1, <1>6, <2>3 DEF TypeOK
  <2>5. QED
    BY <2>3, <2>4 DEF SoleInv
<1>12. SoleInv'
  <2>1. /\ gen'[w] = 0
        /\ thread'[w] \in Alive \cup {"exited", "stopped"}
        /\ thread'[w] = "exited" => inbox'[w] = <<>> /\ Len(outbox'[w]) <= 1
        /\ thread'[w] = "stopped" => inbox'[w] = <<>> /\ outbox'[w] = <<>>
    BY <1>8, <1>10 DEF SoleInv
  <2>2. (\A i \in DOMAIN outbox[w] :
           outbox[w][i].type # "ready" => OldestCall(outbox[w][i].doc))'
    BY <1>8
  <2>3. (\A i \in DOMAIN inbox[w] :
           inbox[w][i] # Terminate => OldestCall(inbox[w][i]))'
    BY <1>9 DEF OldestCall
  <2>4. \A m \in Calls : (m > submitted - Len(taskQueue) => settled[m] = Pending)'
    BY <1>11
  <2>5. QED
    BY <1>7, <2>1, <2>2, <2>3, <2>4 DEF SoleInv
<1>13. QED
  BY <1>3, <1>4, <1>5, <1>6, <1>12

LEMMA SoleInit ==
    ASSUME Init
    PROVE  SoleInv /\ Service!Init
<1>1. ShapeInv /\ PastInv
  BY ShapeInit, PastInit
<1>2. QED
  BY <1>1 DEF Init, SoleInv, Alive, Service!Init, Calls, Pending

\* Every step of the sole worker's pool is a step of the service, or none.
LEMMA SoleStep ==
    ASSUME NEW w \in Workers, Workers = {w}, MaxCrashes = 0, SoleInv, [Next]_vars
    PROVE  SoleInv' /\ [Service!Next]_<<submitted, settled>>
<1> DEFINE Mail == /\ \A i \in DOMAIN inbox[w] :
                         inbox[w][i] # Terminate => OldestCall(inbox[w][i])
                   /\ \A i \in DOMAIN outbox[w] :
                         outbox[w][i].type # "ready" => OldestCall(outbox[w][i].doc)
           Life == /\ gen[w] = 0
                   /\ thread[w] \in Alive \cup {"exited", "stopped"}
                   /\ thread[w] = "exited" => inbox[w] = <<>> /\ Len(outbox[w]) <= 1
                   /\ thread[w] = "stopped" => inbox[w] = <<>> /\ outbox[w] = <<>>
           Pend == \A n \in Calls :
                      n > submitted - Len(taskQueue) => settled[n] = Pending
<1>a. TypeOK /\ TypeOK' /\ ShapeInv' /\ PastInv'
  BY ShapeStep, PastStep, TypeStep DEF SoleInv, ShapeInv
<1>b. Mail /\ Life /\ Pend
  BY DEF SoleInv
<1>c. Mail' /\ Life' /\ Pend' => SoleInv'
  BY <1>a DEF SoleInv
<1>d. thread[w] \in Alive => Shape(thread[w], states[w], inbox[w], outbox[w], stop)
  BY <1>b DEF SoleInv, ShapeInv, FirstAlive
<1>e. UNCHANGED <<submitted, taskQueue, settled>>
         => Pend' /\ [Service!Next]_<<submitted, settled>>
  BY <1>b
<1>1. CASE ProcessDocument
  <2>1. /\ submitted < MaxCalls /\ submitted' = submitted + 1
        /\ taskQueue' = Append(taskQueue, submitted + 1)
        /\ processNextTask(taskQueue', states)
        /\ UNCHANGED <<settled, thread, gen, outbox>>
    BY <1>1 DEF ProcessDocument
  <2>2. /\ taskQueue \in Seq(Calls) /\ taskQueue' \in Seq(Calls)
        /\ states \in StateMap /\ submitted \in Nat
    BY <1>a, PoolAssumption DEF TypeOK, StateMap
  <2>3. \A d : OldestCall(d) => taskQueue' # <<>> /\ d = Head(taskQueue')
    BY <2>1, <2>2 DEF OldestCall
  <2>4. \A i \in DOMAIN inbox'[w] : inbox'[w][i] # Terminate
           => taskQueue' # <<>> /\ inbox'[w][i] = Head(taskQueue')
    BY <1>a, <1>b, <2>1, <2>2, <2>3, DispatchOldest
  <2>5. Mail'
    BY <1>b, <2>1, <2>3, <2>4 DEF OldestCall
  <2>6. thread[w] \notin Alive => inbox'[w] = inbox[w]
    BY <1>a, <2>1, <2>2, DispatchEffect DEF Effect
  <2>7. Life'
    BY <1>b, <2>1, <2>6 DEF Alive
  <2>8. Pend'
    <3>1. Len(taskQueue') = Len(taskQueue) + 1 /\ Len(taskQueue) \in Nat
      BY <2>1, <2>2
    <3>2. submitted' - Len(taskQueue') = submitted - Len(taskQueue)
      BY <2>1, <2>2, <3>1
    <3>3. QED
      BY <1>b, <2>1, <3>2
  <2>9. Service!Next
    BY <2>1 DEF Service!Next, Service!Call
  <2>10. QED
    BY <1>c, <2>5, <2>7, <2>8, <2>9
<1>2. CASE HandleReady(w)
  <2>1. /\ outbox[w] # <<>> /\ outbox' = [outbox EXCEPT ![w] = Tail(@)]
        /\ UNCHANGED <<submitted, taskQueue, settled, thread, gen, inbox>>
    BY <1>2, <1>b DEF HandleReady
  <2>2. outbox[w] \in Seq(Reply) /\ outbox'[w] = Tail(outbox[w])
    BY <1>a, <2>1 DEF TypeOK
  <2>3. Mail'
    <3>1. \A i \in DOMAIN outbox'[w] :
             i + 1 \in DOMAIN outbox[w] /\ outbox'[w][i] = outbox[w][i + 1]
      BY <2>1, <2>2, TailElement
    <3>2. QED
      BY <1>b, <2>1, <3>1 DEF OldestCall
  <2>4. Life'
    <3>1. Len(outbox'[w]) = Len(outbox[w]) - 1 /\ Len(outbox[w]) \in Nat
      BY <2>1, <2>2, TailShorter
    <3>2. QED
      BY <1>b, <2>1, <3>1
  <2>5. QED
    BY <1>c, <1>e, <2>1, <2>3, <2>4
<1>3. CASE HandleWorkerResult(w)
  <2> DEFINE n == Head(outbox[w]).doc
  <2>1. /\ outbox[w] # <<>> /\ Head(outbox[w]).type # "ready"
        /\ outbox' = [outbox EXCEPT ![w] = Tail(@)]
        /\ UNCHANGED <<submitted, thread, gen, stop>>
        /\ Settle(w, Resolved(n))
    BY <1>3 DEF HandleWorkerResult
  <2>2. /\ SoleInv' /\ n \in Calls /\ n <= submitted /\ settled[n] = Pending
        /\ settled' = [settled EXCEPT ![n] = Resolved(n)]
    BY <1>a, <2>1, SoleSettle
  <2>3. Service!Answer(n)
    BY <2>1, <2>2 DEF Service!Answer, Pending, Resolved
  <2>4. QED
    BY <2>2, <2>3 DEF Service!Next, Calls
<1>4. CASE HandleWorkerError(w)
  <2> DEFINE n == Head(outbox[w]).doc
  <2>1. /\ outbox[w] # <<>> /\ Head(outbox[w]).type # "ready"
        /\ outbox' = [outbox EXCEPT ![w] = Tail(@)]
        /\ UNCHANGED <<submitted, thread, gen, stop>>
        /\ Settle(w, Rejected(n))
    BY <1>4 DEF HandleWorkerError
  <2>2. /\ SoleInv' /\ n \in Calls /\ n <= submitted /\ settled[n] = Pending
        /\ settled' = [settled EXCEPT ![n] = Rejected(n)]
    BY <1>a, <2>1, SoleSettle
  <2>3. Service!Fail(n)
    BY <2>1, <2>2 DEF Service!Fail, Pending, Rejected
  <2>4. QED
    BY <2>2, <2>3 DEF Service!Next, Calls
\* Nothing crashes, so nothing is restarted.
<1>5. CASE HandleErrorEvent(w) \/ RestartWorker(w)
  BY <1>5, <1>b DEF HandleErrorEvent, RestartWorker, Alive
<1>6. CASE HandleExit(w)
  <2>1. /\ thread[w] = "exited" /\ thread'[w] = "stopped" /\ outbox[w] = <<>>
        /\ UNCHANGED <<submitted, taskQueue, settled, gen, inbox, outbox>>
    BY <1>6, <1>a, <1>b DEF HandleExit, TypeOK, Alive
  <2>2. Mail' /\ Life'
    BY <1>b, <2>1 DEF OldestCall
  <2>3. QED
    BY <1>c, <1>e, <2>1, <2>2
<1>7. CASE StopWorkers
  <2>1. /\ UNCHANGED <<submitted, taskQueue, settled, thread, gen, outbox>>
        /\ inbox'[w] = IF thread[w] \in Alive THEN Append(inbox[w], Terminate)
                                              ELSE inbox[w]
    BY <1>7 DEF StopWorkers
  <2>2. \A i \in DOMAIN inbox'[w] : inbox'[w][i] # Terminate
           => i \in DOMAIN inbox[w] /\ inbox'[w][i] = inbox[w][i]
    <3>1. inbox[w] \in Seq(0 .. MaxCalls)
      BY <1>a DEF TypeOK
    <3>2. QED
      BY <2>1, <3>1
  <2>3. Mail'
    BY <1>b, <2>1, <2>2 DEF OldestCall
  <2>4. Life'
    BY <1>b, <2>1 DEF Alive
  <2>5. QED
    BY <1>c, <1>e, <2>1, <2>3, <2>4
\* When stopWorkers returns the thread has exited: nothing is in flight.
<1>8. CASE StopDone
  <2>1. /\ stop' = "done" /\ taskQueue' = <<>>
        /\ UNCHANGED <<submitted, settled, thread, gen, inbox, outbox>>
    BY <1>8 DEF StopDone
  <2>2. gen'[w] = 0 /\ thread'[w] \in Alive \cup {"exited"} => FALSE
    BY <1>a, <2>1 DEF ShapeInv
  <2>3. thread[w] = "stopped"
    BY <1>b, <2>1, <2>2
  <2>4. Mail' /\ Life'
    BY <1>b, <2>1, <2>3
  <2>5. Pend'
    <3>1. Len(taskQueue) \in Nat /\ submitted \in Nat /\ Len(taskQueue') = 0
      BY <1>a, <2>1, PoolAssumption DEF TypeOK
    <3>2. \A n \in Calls : n > submitted - 0 => n > submitted - Len(taskQueue)
      BY <3>1 DEF Calls, Service!Calls
    <3>3. QED
      BY <1>b, <2>1, <3>1, <3>2
  <2>6. QED
    BY <1>c, <2>1, <2>4, <2>5
<1>9. CASE Boot(w)
  <2>1. /\ thread[w] = "starting" /\ thread'[w] = "up"
        /\ outbox'[w] = Append(outbox[w], Ready)
        /\ UNCHANGED <<submitted, taskQueue, settled, gen, inbox>>
    BY <1>9, <1>a DEF Boot, TypeOK
  <2>2. outbox[w] = <<>>
    BY <1>d, <2>1 DEF Shape, Alive
  <2>3. outbox'[w] = <<Ready>>
    BY <2>1, <2>2
  <2>4. \A i \in DOMAIN outbox'[w] : outbox'[w][i].type = "ready"
    BY <2>3 DEF Ready
  <2>5. Mail' /\ Life'
    BY <1>b, <2>1, <2>4 DEF OldestCall, Alive
  <2>6. QED
    BY <1>c, <1>e, <2>1, <2>5
<1>10. CASE Analyse(w)
  <2> DEFINE d == Head(inbox[w])
  <2>1. PICK type \in {"result", "error"} :
           outbox' = [outbox EXCEPT ![w] = Append(@, [type |-> type, doc |-> d])]
    BY <1>10 DEF Analyse
  <2>2. /\ thread[w] = "up" /\ inbox[w] # <<>> /\ d # Terminate
        /\ inbox'[w] = Tail(inbox[w])
        /\ UNCHANGED <<submitted, taskQueue, settled, thread, gen>>
    BY <1>10, <1>a DEF Analyse, TypeOK
  <2>3. inbox[w] \in Seq(0 .. MaxCalls)
    BY <1>a DEF TypeOK
  <2>4. outbox[w] = <<>>
    BY <1>d, <2>2 DEF Shape, Alive, Jobless
  <2>5. outbox'[w] = <<[type |-> type, doc |-> d]>>
    BY <1>a, <2>1, <2>4 DEF TypeOK
  <2>6. OldestCall(d)
    <3>1. 1 \in DOMAIN inbox[w] /\ d = inbox[w][1]
      BY <2>2, <2>3
    <3>2. QED
      BY <1>b, <2>2, <3>1
  <2>7. \A i \in DOMAIN inbox'[w] :
           i + 1 \in DOMAIN inbox[w] /\ inbox'[w][i] = inbox[w][i + 1]
    BY <2>2, <2>3, TailElement
  <2>8. Mail'
    <3>1. (\A i \in DOMAIN inbox[w] :
             inbox[w][i] # Terminate => OldestCall(inbox[w][i]))'
      BY <1>b, <2>2, <2>7 DEF OldestCall
    <3>2. \A i \in DOMAIN outbox'[w] : outbox'[w][i].doc = d
      BY <2>5
    <3>3. (\A i \in DOMAIN outbox[w] :
             outbox[w][i].type # "ready" => OldestCall(outbox[w][i].doc))'
      BY <2>2, <2>6, <3>2 DEF OldestCall
    <3>4. QED
      BY <3>1, <3>3
  <2>9. Life'
    BY <1>b, <2>2
  <2>10. QED
    BY <1>c, <1>e, <2>2, <2>8, <2>9
<1>11. CASE Exit(w)
  <2>1. /\ thread[w] = "up" /\ thread'[w] = "exited" /\ inbox'[w] = <<>>
        /\ UNCHANGED <<submitted, taskQueue, settled, gen, outbox>>
    BY <1>11, <1>a DEF Exit, TypeOK
  <2>2. Len(outbox[w]) <= 1
    <3>1. Shape("up", states[w], inbox[w], outbox[w], stop)
      BY <1>d, <2>1 DEF Alive
    <3>2. outbox[w] = <<>> \/ outbox[w] = <<Ready>> \/ OneReply(outbox[w])
      BY <3>1 DEF Shape
    <3>3. CASE outbox[w] = <<>>
      <4>1. Len(outbox[w]) = 0
        BY <3>3, EmptySeq
      <4>2. QED
        BY <4>1
    <3>4. CASE outbox[w] = <<Ready>>
      BY <3>4
    <3>5. CASE OneReply(outbox[w])
      BY <3>5 DEF OneReply
    <3>6. QED
      BY <3>2, <3>3, <3>4, <3>5
  <2>3. Mail' /\ Life'
    BY <1>b, <2>1, <2>2 DEF OldestCall
  <2>4. QED
    BY <1>c, <1>e, <2>1, <2>3
<1>12. CASE Crash(w)
  BY <1>12, <1>a DEF Crash, TypeOK
<1>13. CASE UNCHANGED vars
  <2>1. Mail' /\ Life'
    BY <1>13, <1>b DEF vars, OldestCall
  <2>2. QED
    BY <1>13, <1>c, <1>e, <2>1 DEF vars
<1>14. QED
  BY <1>1, <1>2, <1>3, <1>4, <1>5, <1>6, <1>7, <1>8, <1>9, <1>10, <1>11,
     <1>12, <1>13 DEF Next, Runtime

\* A pool with one worker whose thread never dies implements the abstract
\* service: every call settles at most once, and with its own analysis.
THEOREM SolePoolImplementsService ==
    ASSUME NEW w, Workers = {w}, MaxCrashes = 0
    PROVE  Spec => ImplementsService
<1>1. Init => SoleInv /\ Service!Init
  BY SoleInit
<1>2. SoleInv /\ [Next]_vars => SoleInv' /\ [Service!Next]_<<submitted, settled>>
  BY SoleStep
<1>3. QED
  BY <1>1, <1>2, PTL DEF Spec, ImplementsService, Service!Spec

=============================================================================
