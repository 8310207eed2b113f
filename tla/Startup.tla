-------------------------------- MODULE Startup --------------------------------
(***************************************************************************)
(* How a process gets its database ready before it serves requests         *)
(* (PostgreSQLService.onModuleInit), while others start, serve, crash and  *)
(* start again: extensions, a look for the table documents, the script     *)
(* that drops the schema and makes it anew, and the migration of older     *)
(* schemas.                                                                *)
(*                                                                         *)
(* A script is sent as one query without parameters: PostgreSQL runs it in *)
(* one transaction, and scripts that change the schema one after the       *)
(* other.                                                                  *)
(***************************************************************************)
EXTENDS Naturals, Sequences

CONSTANTS
    Procs,      \* processes of the application, old and new ones
    Rows,       \* documents that clients store
    MaxStops    \* bound on failing queries and crashes

ASSUME StartupAssumption == MaxStops \in Nat

\* What the schema consists of, in the order of the script, and the columns of
\* table indices that older schemas lack.
Objects == {"field_weights", "indices", "documents", "triggers"}
Added == {"status", "document_count"}
Extensions == <<"pg_trgm", "btree_gin", "uuid-ossp">>
ScriptExtensions == {"uuid-ossp", "pg_trgm", "unaccent", "pg_stat_statements"}

VARIABLES
    objects,    \* what there is of the schema
    columns,    \* those of Added that table indices has
    extensions, \* extensions, which live in the schema
    rows,       \* documents that are stored
    phase,      \* how far each process has come
    todo,       \* extensions it has still to create
    older,      \* history: documents that were there when it started
    stops       \* queries that failed and crashes so far

schema == <<objects, columns, extensions>>
startVars == <<schema, rows, phase, todo, older, stops>>

\* No schema, an old one, or one of the script.
StartInit ==
    /\ \/ objects = {} /\ columns = {} /\ rows = {}
       \/ objects = Objects /\ columns \in {{}, Added} /\ rows \in SUBSET Rows
    /\ extensions = {}
    /\ phase = [p \in Procs |-> "down"]
    /\ todo = [p \in Procs |-> <<>>]
    /\ older = [p \in Procs |-> {}]
    /\ stops = 0

Enter(p, label) == phase' = [phase EXCEPT ![p] = label]
Stop == stops < MaxStops /\ stops' = stops + 1

\* Every step logs its error and throws it on: the process ends.
Throws(p) == Stop /\ Enter(p, "down") /\ UNCHANGED <<schema, rows>>

OnModuleInit(p) ==
    /\ phase[p] = "down"
    /\ Enter(p, "extensions")
    /\ todo' = [todo EXCEPT ![p] = Extensions]
    /\ older' = [older EXCEPT ![p] = rows]
    /\ UNCHANGED <<schema, rows, stops>>

\* CREATE EXTENSION IF NOT EXISTS, one after the other.
SetupExtensions(p) ==
    /\ phase[p] = "extensions"
    /\ \/ /\ todo[p] # <<>>
          /\ extensions' = extensions \cup {Head(todo[p])}
          /\ todo' = [todo EXCEPT ![p] = Tail(@)]
          /\ UNCHANGED <<objects, columns, rows, phase, stops>>
       \/ /\ todo[p] = <<>> /\ Enter(p, "check")
          /\ UNCHANGED <<schema, rows, todo, stops>>
       \/ Throws(p) /\ UNCHANGED todo
    /\ UNCHANGED older

\* Mutant: the tables are not looked for.
AlwaysCreate(p) ==
    /\ phase[p] = "check"
    /\ Enter(p, "create")
    /\ UNCHANGED <<schema, rows, todo, older, stops>>

\* Of the tables only documents is looked for.
EnsureTablesExist(p) ==
    /\ phase[p] = "check"
    /\ \/ Enter(p, IF "documents" \in objects THEN "migrate" ELSE "create")
          /\ UNCHANGED <<schema, rows, stops>>
       \/ Throws(p)
    /\ UNCHANGED <<todo, older>>

\* The schema goes with its tables, their documents and its extensions, and
\* comes back without btree_gin.
MadeAnew ==
    /\ objects' = Objects
    /\ columns' = Added
    /\ extensions' = ScriptExtensions
    /\ rows' = {}

\* Mutant: the triggers are made by a query of their own.
RunInitStatements(p) ==
    /\ phase[p] = "create"
    /\ \/ /\ objects' = Objects \ {"triggers"}
          /\ columns' = Added /\ extensions' = ScriptExtensions /\ rows' = {}
          /\ UNCHANGED <<phase, stops>>
       \/ MadeAnew /\ Enter(p, "migrate") /\ UNCHANGED stops
       \/ Throws(p)
    /\ UNCHANGED <<todo, older>>

RunInitScript(p) ==
    /\ phase[p] = "create"
    /\ \/ MadeAnew /\ Enter(p, "migrate") /\ UNCHANGED stops
       \/ Throws(p)
    /\ UNCHANGED <<todo, older>>

\* Columns that are missing are added, and what else the script finds missing;
\* it is run by every process that starts.
RunMigrations(p) ==
    /\ phase[p] = "migrate"
    /\ \/ /\ {"indices", "documents"} \subseteq objects
          /\ columns' = Added
          /\ extensions' = extensions \cup {"pg_trgm"}
          /\ Enter(p, "serving")
          /\ UNCHANGED <<objects, rows, stops>>
       \/ Throws(p)
    /\ UNCHANGED <<todo, older>>

\* Requests: one that stores a document, and GET debug/init-clean-database.
Store(p, d) ==
    /\ phase[p] = "serving" /\ "documents" \in objects
    /\ rows' = rows \cup {d}
    /\ UNCHANGED <<schema, phase, todo, older, stops>>

CleanDatabase(p) ==
    /\ phase[p] = "serving"
    /\ MadeAnew
    /\ UNCHANGED <<phase, todo, older, stops>>

ProcessEnds(p) ==
    /\ phase[p] # "down"
    /\ Throws(p)
    /\ UNCHANGED <<todo, older>>

StartNext ==
    \E p \in Procs :
        \/ OnModuleInit(p) \/ SetupExtensions(p) \/ EnsureTablesExist(p)
        \/ RunInitScript(p) \/ RunMigrations(p)
        \/ (\E d \in Rows : Store(p, d)) \/ CleanDatabase(p) \/ ProcessEnds(p)

StartSpec == StartInit /\ [][StartNext]_startVars
-------------------------------------------------------------------------------
\* A process that serves requests finds the whole schema, whatever was there
\* before, whoever starts or makes the schema anew at the same time, and
\* wherever a process ended while it did (the script is one query,
\* postgresql.service.ts:94, and the check looks for one table of it, :60).
ServingMeansReady ==
    (\E p \in Procs : phase[p] = "serving")
        => objects = Objects /\ columns = Added /\ "pg_trgm" \in extensions

\* The script drops the documents of the schema: a process runs it only if
\* there was none when it started, however long before it looked
\* (postgresql.service.ts:67).
StartKeepsDocuments == \A p \in Procs : phase[p] = "create" => older[p] = {}
===============================================================================
