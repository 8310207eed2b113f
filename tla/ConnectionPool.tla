---------------------------- MODULE ConnectionPool ----------------------------
(***************************************************************************)
(* Transactions over the pool of PostgreSQL connections.                   *)
(*                                                                         *)
(* PostgreSQLService.storeDocument holds a connection (a query runner) for *)
(* its transaction, and asks the pool for a second one while it does.      *)
(* IndexService.deleteIndex sends BEGIN, DELETE and COMMIT as three        *)
(* queries, each on whatever connection the pool has at the top.  Every    *)
(* other query is one autocommitted statement on a pooled connection.      *)
(*                                                                         *)
(* The pool (pg-pool) and the server are external.  Idle connections are a *)
(* stack; requests that find none wait in a queue, for ever: the options   *)
(* connectTimeoutMS and acquireTimeoutMillis of the module are not options *)
(* of pg-pool.  The pool is at its size, and below 'min' it closes no idle *)
(* connection.  A statement waits for the locks of other connections'      *)
(* transactions.                                                           *)
(***************************************************************************)
EXTENDS Naturals, Sequences, FiniteSets, SequencesExt

CONSTANTS
    Conns,     \* connections of the pool (100)
    Requests,  \* concurrent users of the pool
    Docs,      \* documents of the index
    Ops,       \* what requests do
    MaxFaults  \* bound on the statements that fail

None   == "none"
Nobody == "nobody"

ASSUME PoolAssumption ==
    /\ IsFiniteSet(Conns)
    /\ Ops \subseteq {"store", "query", "drop"}
    /\ None \notin Conns
    /\ Nobody \notin Requests
    /\ MaxFaults \in Nat

VARIABLES
    idle,       \* stack of idle connections
    waiting,    \* queue of requests that wait for a connection
    held,       \* the request a connection has been given to
    txn,        \* the transaction a connection has open on the server
    exists,     \* the index, as committed
    op,         \* what each request does
    doc,        \* the document it writes
    at,         \* its next statement
    runner,     \* the connection of its query runner
    committed,  \* history: the requests whose change has been committed
    faults

poolVars == <<idle, waiting, held>>
vars == <<poolVars, txn, exists, op, doc, at, runner, committed, faults>>

\* Statements sent with dataSource.query, and a query runner's first.
Pooled == {"connect", "vector", "query", "BEGIN", "DELETE", "COMMIT", "ROLLBACK"}
\* "leaked" is the end of a request that keeps its connection.
Ends == {"ok", "failed", "leaked"}
Label == Pooled \cup {"save", "commit", "rollback"} \cup Ends

\* The changes of a transaction are named by the requests that made them.
NoTxn == [state |-> "none", changes |-> {}]

Init ==
    /\ idle = SetToSeq(Conns)
    /\ waiting = <<>>
    /\ held = [c \in Conns |-> Nobody]
    /\ txn = [c \in Conns |-> NoTxn]
    /\ exists = TRUE
    /\ op \in [Requests -> Ops]
    /\ doc \in [Requests -> Docs]
    /\ at = [r \in Requests |-> CASE op[r] = "store" -> "connect"
                                  [] op[r] = "query" -> "query"
                                  [] OTHER           -> "BEGIN"]
    /\ runner = [r \in Requests |-> None]
    /\ committed = {}
    /\ faults = 0

Goto(r, label) == at' = [at EXCEPT ![r] = label]

\* The connection the request was given for its next statement.
Given(r, c) == held[c] = r /\ c # runner[r]
Needs(r) == at[r] \in Pooled /\ ~\E c \in Conns : Given(r, c)

-----------------------------------------------------------------------------
(* The pool and the server.                                                *)

Acquire(r) ==
    /\ Needs(r)
    /\ \A i \in DOMAIN waiting : waiting[i] # r
    /\ IF idle = <<>>
       THEN waiting' = Append(waiting, r) /\ UNCHANGED <<idle, held>>
       ELSE /\ held' = [held EXCEPT ![Last(idle)] = r]
            /\ idle' = Front(idle)
            /\ UNCHANGED waiting
    /\ UNCHANGED <<txn, exists, op, doc, at, runner, committed, faults>>

\* Mutant: nobody is told.
ReleaseQuietly(c) ==
    /\ held' = [held EXCEPT ![c] = Nobody]
    /\ idle' = Append(idle, c)
    /\ UNCHANGED waiting

\* A connection that is released goes to the first that waits for one.
Release(c) ==
    IF waiting = <<>>
    THEN /\ held' = [held EXCEPT ![c] = Nobody]
         /\ idle' = Append(idle, c)
         /\ UNCHANGED waiting
    ELSE /\ held' = [held EXCEPT ![c] = Head(waiting)]
         /\ waiting' = Tail(waiting)
         /\ UNCHANGED idle

Open(c) == txn[c].state = "open"

\* An uncommitted change that a change of r on c has to wait for: a write of
\* the same document, and a drop for anything.
Conflict(r, s) == op[r] = "drop" \/ op[s] = "drop" \/ doc[r] = doc[s]
Blocked(r, c) ==
    \E b \in Conns \ {c} : Open(b) /\ \E s \in txn[b].changes : Conflict(r, s)

\* The index is there for a statement on c.
Sees(c) == exists /\ ~\E s \in txn[c].changes : op[s] = "drop"

\* A change is made: in the transaction the connection has open, if any.
Change(r, c) ==
    IF Open(c)
    THEN /\ txn' = [txn EXCEPT ![c].changes = @ \cup {r}]
         /\ UNCHANGED <<exists, committed>>
    ELSE /\ committed' = committed \cup {r}
         /\ exists' = (exists /\ op[r] # "drop")
         /\ UNCHANGED txn

\* A transaction begins, unless one is open: then there is only a warning.
Begin(c) ==
    /\ txn' = IF txn[c].state = "none" THEN [txn EXCEPT ![c].state = "open"] ELSE txn
    /\ UNCHANGED <<exists, committed>>

\* COMMIT of an aborted transaction rolls back; without one it does nothing.
End(c) ==
    LET done == IF Open(c) THEN txn[c].changes ELSE {}
    IN  /\ txn' = [txn EXCEPT ![c] = NoTxn]
        /\ committed' = committed \cup done
        /\ exists' = (exists /\ ~\E s \in done : op[s] = "drop")

Undo(c) == txn' = [txn EXCEPT ![c] = NoTxn] /\ UNCHANGED <<exists, committed>>

\* A statement that fails aborts the transaction, which gives up its locks.
Abort(c) ==
    /\ txn' = IF Open(c) THEN [txn EXCEPT ![c] = [state |-> "aborted", changes |-> {}]]
              ELSE txn
    /\ UNCHANGED <<exists, committed>>

\* A statement fails: by itself, or since its transaction has been aborted.
Fails(c) ==
    /\ Abort(c)
    /\ \/ txn[c].state = "aborted" /\ UNCHANGED faults
       \/ faults < MaxFaults /\ faults' = faults + 1

Works(c) == txn[c].state # "aborted" /\ UNCHANGED faults

-----------------------------------------------------------------------------
(* storeDocument.                                                          *)

\* connect and startTransaction stand before the try: if they throw nobody
\* releases the connection.
StartTransaction(r) ==
    /\ at[r] = "connect"
    /\ \E c \in Conns :
         /\ Given(r, c)
         /\ \/ /\ Works(c) /\ Begin(c)
               /\ runner' = [runner EXCEPT ![r] = c]
               /\ Goto(r, "save")
            \/ Fails(c) /\ UNCHANGED runner /\ Goto(r, "leaked")
    /\ UNCHANGED <<poolVars, op, doc>>

Save(r) ==
    LET c == runner[r] IN
    /\ at[r] = "save"
    /\ \/ ~Blocked(r, c) /\ Works(c) /\ Sees(c) /\ Change(r, c) /\ Goto(r, "vector")
       \/ ~Blocked(r, c) /\ Works(c) /\ ~Sees(c) /\ Abort(c) /\ Goto(r, "rollback")
       \/ Fails(c) /\ Goto(r, "rollback")
    /\ UNCHANGED <<poolVars, op, doc, runner>>

\* A query through the pool, while the runner is held.
GenerateSearchVector(r) ==
    /\ at[r] = "vector"
    /\ \E c \in Conns :
         /\ Given(r, c)
         /\ Release(c)
         /\ \/ Works(c) /\ Goto(r, "commit") /\ UNCHANGED <<txn, exists, committed>>
            \/ Fails(c) /\ Goto(r, "rollback")
    /\ UNCHANGED <<op, doc, runner>>

\* A COMMIT that fails has committed nothing.
CommitTransaction(r) ==
    LET c == runner[r] IN
    /\ at[r] = "commit"
    /\ \/ /\ End(c) /\ Release(c)
          /\ runner' = [runner EXCEPT ![r] = None]
          /\ Goto(r, "ok")
          /\ UNCHANGED faults
       \/ Fails(c) /\ Goto(r, "rollback") /\ UNCHANGED <<poolVars, runner>>
    /\ UNCHANGED <<op, doc>>

\* Mutant: a failed store releases its connection without a rollback.
ReleaseOnly(r) ==
    LET c == runner[r] IN
    /\ at[r] = "rollback"
    /\ Release(c)
    /\ runner' = [runner EXCEPT ![r] = None]
    /\ Goto(r, "failed")
    /\ UNCHANGED <<txn, exists, committed, op, doc, faults>>

\* Mutant: the finally block is missing.
RollbackOnly(r) ==
    LET c == runner[r] IN
    /\ at[r] = "rollback"
    /\ Undo(c)
    /\ runner' = [runner EXCEPT ![r] = None]
    /\ Goto(r, "failed")
    /\ UNCHANGED <<poolVars, op, doc, faults>>

RollbackTransaction(r) ==
    LET c == runner[r] IN
    /\ at[r] = "rollback"
    /\ Undo(c) /\ Release(c)
    /\ runner' = [runner EXCEPT ![r] = None]
    /\ Goto(r, "failed")
    /\ UNCHANGED <<op, doc, faults>>

-----------------------------------------------------------------------------
(* PostgreSQLService.query: one statement, and the connection is released. *)

\* The statement of a bulk batch that writes a document.
Query(r) ==
    /\ at[r] = "query"
    /\ \E c \in Conns :
         /\ Given(r, c)
         /\ Release(c)
         /\ \/ ~Blocked(r, c) /\ Works(c) /\ Sees(c) /\ Change(r, c) /\ Goto(r, "ok")
            \/ ~Blocked(r, c) /\ Works(c) /\ ~Sees(c) /\ Abort(c) /\ Goto(r, "failed")
            \/ Fails(c) /\ Goto(r, "failed")
    /\ UNCHANGED <<op, doc, runner>>

\* deleteIndex and clearIndex: three statements, or ROLLBACK after a failure.
QueryBegin(r) ==
    /\ at[r] = "BEGIN"
    /\ \E c \in Conns :
         /\ Given(r, c)
         /\ Release(c)
         /\ \/ Works(c) /\ Begin(c) /\ Goto(r, "DELETE")
            \/ Fails(c) /\ Goto(r, "ROLLBACK")
    /\ UNCHANGED <<op, doc, runner>>

QueryDelete(r) ==
    /\ at[r] = "DELETE"
    /\ \E c \in Conns :
         /\ Given(r, c)
         /\ Release(c)
         /\ \/ ~Blocked(r, c) /\ Works(c) /\ Change(r, c) /\ Goto(r, "COMMIT")
            \/ Fails(c) /\ Goto(r, "ROLLBACK")
    /\ UNCHANGED <<op, doc, runner>>

QueryCommit(r) ==
    /\ at[r] = "COMMIT"
    /\ \E c \in Conns :
         /\ Given(r, c)
         /\ Release(c)
         /\ \/ End(c) /\ Goto(r, "ok") /\ UNCHANGED faults
            \/ txn[c].state # "aborted" /\ Fails(c) /\ Goto(r, "ROLLBACK")
    /\ UNCHANGED <<op, doc, runner>>

QueryRollback(r) ==
    /\ at[r] = "ROLLBACK"
    /\ \E c \in Conns : Given(r, c) /\ Release(c) /\ Undo(c)
    /\ Goto(r, "failed")
    /\ UNCHANGED <<op, doc, runner, faults>>

Step(r) ==
    \/ Acquire(r)
    \/ StartTransaction(r) \/ Save(r) \/ GenerateSearchVector(r)
    \/ CommitTransaction(r) \/ RollbackTransaction(r)
    \/ Query(r)
    \/ QueryBegin(r) \/ QueryDelete(r) \/ QueryCommit(r) \/ QueryRollback(r)

Next == \E r \in Requests : Step(r)

Spec == Init /\ [][Next]_vars

\* Requests go on where nothing holds them up.
FairSpec == Spec /\ \A r \in Requests : WF_vars(Step(r))

-----------------------------------------------------------------------------
(* Properties.                                                             *)

\* storeDocument is a transaction, whatever others do on the pool's other
\* connections and whatever transaction was left open on its own: what it
\* answers is whether it has been committed.
StoreIsAtomic ==
    \A r \in Requests :
        (op[r] = "store" /\ at[r] \in Ends) => (r \in committed <=> at[r] = "ok")

\* A request that has ended holds no connection, however it failed, unless it
\* was startTransaction that threw.
NothingHeld ==
    \A c \in Conns : (held[c] # Nobody /\ at[held[c]] \in Ends) => at[held[c]] = "leaked"

\* With more connections than concurrent requests every request ends (without
\* deleteIndex, which can leave a transaction and its locks behind).
RequestsEnd ==
    (\A r \in Requests : op[r] # "drop") => \A r \in Requests : <>(at[r] \in Ends)
=============================================================================
