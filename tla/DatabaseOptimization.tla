------------------------- MODULE DatabaseOptimization -------------------------
(***************************************************************************)
(* The optimization scripts and who runs them: DatabaseOptimizationService *)
(* in Bull jobs, or a request of the debug controller that waits.  A       *)
(* script adds a column that is derived from the content of a row, fills   *)
(* it, and makes a trigger that keeps it; its statements run one after the *)
(* other, without a transaction, while documents are written.              *)
(*                                                                         *)
(* "vector" stands for the columns of complete-search-optimization.sql     *)
(* (weighted_search_vector, name, is_active ...), "lower" for name_lower   *)
(* and category_lower of 01-add-search-performance-indexes.sql.            *)
(***************************************************************************)
EXTENDS SqlScript, Integers, FiniteSets

CONSTANTS
    Docs,           \* rows, by document_id: numbers
    Versions,       \* what a content may be
    Contents,       \* contents of the table to begin with
    Jobs,           \* requests to optimize
    MaxTroubles,    \* failures and crashes
    MaxWrites

Columns == {"vector", "lower"}
Null == "null"                      \* no row, or no value in it

ASSUME OptimizationAssumption ==
    /\ Docs \subseteq Nat /\ IsFiniteSet(Docs)
    /\ Null \notin Versions
    /\ Contents \subseteq [Docs -> Versions \cup {Null}]
    /\ MaxTroubles \in Nat /\ MaxWrites \in Nat

VARIABLES
    content,    \* doc -> its content
    columns,    \* columns the table has
    triggers,   \* columns that a trigger keeps
    derived,    \* column -> doc -> the content its value was made of
    job,        \* job -> [by, at, column, next, errors, stalled]: whether Bull
                \* or a request runs the script of the column, and how far it is
    raced,      \* (for a property) documents written while a column that
                \* existed had no trigger
    wiped,      \* (for a property) the schema was made anew
    troubles, writes
table == <<content, columns, triggers, derived>>
optVars == <<table, job, raced, wiped, troubles, writes>>

\* "tune" stands for ALTER DATABASE CURRENT_DATABASE() ..., no SQL at all, so
\* the second script never reports that it had no errors.
Script(c) ==
    IF c = "vector" THEN <<"add", "drop", "create", "fill">>
                    ELSE <<"add", "fill", "drop", "create", "tune">>
Trouble == troubles < MaxTroubles /\ troubles' = troubles + 1
Fine == UNCHANGED troubles
NoJob == [by |-> "bull", at |-> "none", column |-> "vector", next |-> 1, errors |-> 0,
          stalled |-> FALSE]
Unfilled == [d \in Docs |-> Null]

\* A database as the initialisation script leaves it, or one whose first
\* script ran long ago.
OptInit ==
    /\ content \in Contents
    /\ columns \in {{}, {"vector"}}
    /\ triggers = columns
    /\ derived = [c \in Columns |-> IF c \in columns THEN content ELSE Unfilled]
    /\ job = [j \in Jobs |-> NoJob]
    /\ raced = {} /\ wiped = FALSE
    /\ troubles = 0 /\ writes = 0

\* The job is added to the queue.
Queue(j, c) ==
    /\ job[j].at = "none"
    /\ job' = [job EXCEPT ![j].column = c, ![j].at = "waiting"]
    /\ UNCHANGED <<table, raced, wiped, troubles, writes>>

QueueOptimization(j) == Queue(j, "vector")
QueueSearchPerformanceOptimization(j) == Queue(j, "lower")

\* A request runs its script itself.
RunAtOnce(j, c) ==
    /\ job[j].at = "none"
    /\ job' = [job EXCEPT ![j].column = c, ![j].at = "active", ![j].by = "request"]
    /\ UNCHANGED <<table, raced, wiped, troubles, writes>>

CompleteSearchOptimization(j) == RunAtOnce(j, "vector")
OptimizeSearchPerformance(j) == RunAtOnce(j, "lower")

\* mapJobState, of the state Bull has the job in.
MapJobState(at) ==
    CASE at = "active" -> "running"
      [] at \in {"completed", "failed"} -> at
      [] OTHER -> "queued"

\* getProgress, for whoever asks (of a request: what it is about).
Status(j) == IF job[j].at \in {"none", "removed"} THEN Null ELSE MapJobState(job[j].at)

\* cancelOptimization: what ended is not cancelled, and Bull removes no job
\* that a processor holds.
CancelOptimization(j) ==
    /\ Status(j) \notin {Null, "completed", "failed"}
    /\ job[j].at # "active"
    /\ job' = [job EXCEPT ![j].at = "removed"]
    /\ UNCHANGED <<table, raced, wiped, troubles, writes>>

\* Each of the two processors may take a job of either kind.  Without its
\* script, or when the first progress is not noted, the job fails.
Take(j) ==
    /\ job[j].at = "waiting"
    /\ \/ /\ job' = [job EXCEPT ![j].at = "active", ![j].next = 1, ![j].errors = 0]
          /\ Fine
       \/ job' = [job EXCEPT ![j].at = "failed"] /\ Trouble
    /\ UNCHANGED <<table, raced, wiped, writes>>

\* Whether a statement on column c is one that PostgreSQL carries out: a
\* trigger is not made twice, a missing column is not filled.
Possible(s, c) ==
    /\ s # "tune"
    /\ s = "create" => c \notin triggers
    /\ s = "fill" => c \in columns

Effect(s, c) ==
    /\ columns' = IF s = "add" THEN columns \cup {c} ELSE columns
    /\ triggers' = CASE s = "drop" -> triggers \ {c}
                     [] s = "create" -> triggers \cup {c}
                     [] OTHER -> triggers
    /\ derived' = IF s # "fill" THEN derived
                  ELSE [derived EXCEPT ![c] = [d \in Docs |->
                          IF @[d] = Null THEN content[d] ELSE @[d]]]
    /\ UNCHANGED content

Running(j) == job[j].at = "active" /\ job[j].next <= Len(Script(job[j].column))
Advanced(j, errors) ==
    job' = [job EXCEPT ![j].next = @ + 1, ![j].errors = @ + errors]

\* Mutant: an error is not counted.
ForgivingStatement(j) ==
    /\ Running(j)
    /\ Advanced(j, 0)
    /\ LET c == job[j].column  s == Script(c)[job[j].next] IN
        \/ Possible(s, c) /\ Effect(s, c) /\ Fine
        \/ ~Possible(s, c) /\ UNCHANGED table /\ Fine
        \/ UNCHANGED table /\ Trouble
    /\ UNCHANGED <<raced, wiped, writes>>

\* Mutant: a statement that failed is tried again.
RetriedStatement(j) ==
    /\ Running(j)
    /\ LET c == job[j].column  s == Script(c)[job[j].next] IN
        \/ Possible(s, c) /\ Effect(s, c) /\ Advanced(j, 0) /\ Fine
        \/ ~Possible(s, c) /\ UNCHANGED <<table, job>> /\ Fine
        \/ UNCHANGED <<table, job>> /\ Trouble
    /\ UNCHANGED <<raced, wiped, writes>>

\* processOptimization, processSearchPerformanceOptimization and the requests:
\* the next statement of the script.  One that fails is counted and the script
\* goes on; so is, in a job, one whose progress can not be noted.
Statement(j) ==
    /\ Running(j)
    /\ LET c == job[j].column  s == Script(c)[job[j].next] IN
        \/ Possible(s, c) /\ Effect(s, c) /\ Advanced(j, 0) /\ Fine
        \/ ~Possible(s, c) /\ UNCHANGED table /\ Advanced(j, 1) /\ Fine
        \/ /\ job[j].by = "bull" /\ Possible(s, c)
           /\ Effect(s, c) /\ Advanced(j, 1) /\ Trouble
        \/ UNCHANGED table /\ Advanced(j, 1) /\ Trouble
    /\ UNCHANGED <<raced, wiped, writes>>

\* After its statements a job asks for statistics over the column; they fail
\* without it, and the job fails with them.
Finish(j, by, c) ==
    /\ job[j].by = by /\ job[j].column = c
    /\ job[j].at = "active" /\ ~Running(j)
    /\ \/ /\ job' = [job EXCEPT ![j].at = IF c \in columns THEN "completed" ELSE "failed"]
          /\ Fine
       \/ job' = [job EXCEPT ![j].at = "failed"] /\ Trouble
    /\ UNCHANGED <<table, raced, wiped, writes>>

FinishOptimization(j) == Finish(j, "bull", "vector")
FinishSearchPerformance(j) == Finish(j, "bull", "lower")
AnswerCompleteOptimization(j) == Finish(j, "request", "vector")
AnswerSearchPerformance(j) == Finish(j, "request", "lower")

\* The process dies: Bull gives a stalled job to a processor once more, a
\* request is gone.
JobsCrash ==
    job' = [j \in Jobs |->
              IF job[j].at # "active" THEN job[j]
              ELSE IF job[j].stalled \/ job[j].by = "request" THEN [job[j] EXCEPT !.at = "failed"]
              ELSE [job[j] EXCEPT !.at = "waiting", !.stalled = TRUE]]

\* GET debug/init-clean-database: the schema is dropped and made anew.
InitCleanDatabase ==
    /\ ~wiped /\ wiped' = TRUE
    /\ content' = Unfilled
    /\ columns' = {} /\ triggers' = {}
    /\ derived' = [c \in Columns |-> Unfilled]
    /\ raced' = {}
    /\ UNCHANGED <<job, troubles, writes>>

\* A request stores a row: the triggers set their columns; one whose column is
\* missing makes the statement fail.
Write(d, v) ==
    /\ writes < MaxWrites /\ writes' = writes + 1
    /\ v # content[d]
    /\ v = Null \/ triggers \subseteq columns
    /\ content' = [content EXCEPT ![d] = v]
    /\ derived' = [c \in Columns |-> [derived[c] EXCEPT ![d] =
                      IF v = Null \/ c \in triggers THEN v ELSE @]]
    /\ raced' = IF columns \subseteq triggers \/ v = Null THEN raced \ {d}
                ELSE raced \cup {d}
    /\ UNCHANGED <<columns, triggers, job, wiped, troubles>>

\* What goes on without a request.
Process(j) ==
    \/ Take(j) \/ Statement(j)
    \/ FinishOptimization(j) \/ FinishSearchPerformance(j)
    \/ AnswerCompleteOptimization(j) \/ AnswerSearchPerformance(j)

OptNext ==
    \/ \E j \in Jobs :
        \/ QueueOptimization(j) \/ QueueSearchPerformanceOptimization(j)
        \/ CompleteSearchOptimization(j) \/ OptimizeSearchPerformance(j)
        \/ CancelOptimization(j)
        \/ Process(j)
    \/ InitCleanDatabase
    \/ \E d \in Docs, v \in Versions \cup {Null} : Write(d, v)
-----------------------------------------------------------------------------
Succeeded(j) ==
    /\ job[j].at = "completed"
    /\ job[j].errors = Cardinality({i \in DOMAIN Script(job[j].column) :
                                      Script(job[j].column)[i] = "tune"})
Unused(j) == job[j].at \in {"none", "waiting", "removed"} /\ ~job[j].stalled
Untroubled == \A j \in Jobs : Unused(j) \/ Succeeded(j)

\* When every script that was run reports no error but those of statements that
\* can not succeed, the columns are there with their triggers, no trigger names
\* a missing column (which would make every write fail), and the rows that were
\* not written between a column and its trigger have the values of their content
\* (the scripts run without their BEGIN and COMMIT, database-optimization.service.ts:264).
SuccessMeansFollowed ==
    Untroubled /\ ~wiped =>
        /\ triggers \subseteq columns
        /\ \A j \in Jobs : Succeeded(j) =>
            /\ job[j].column \in columns \cap triggers
            /\ \A d \in Docs \ raced : derived[job[j].column][d] = content[d]

\* What a job or a request sends to PostgreSQL are the statements of its script
\* as they are written (parseStatements, database-optimization.service.ts:281):
\* checked for every script of the forms that the shipped ones have.
StatementsAsWritten == \A j \in Jobs : Running(j) => SplitAsWritten

\* A queued script ends, whatever its statements do (the errors are collected,
\* database-optimization.service.ts:202).
JobsEnd ==
    \A j \in Jobs :
        Status(j) \in {"queued", "running"} ~> Status(j) \in {"completed", "failed", Null}
===============================================================================
