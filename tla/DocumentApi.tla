----------------------------- MODULE DocumentApi -----------------------------
(***************************************************************************)
(* The synchronous HTTP API of one index: DocumentController and           *)
(* IndexController over DocumentService, IndexingService, IndexService and *)
(* PostgreSQLIndexStorageService, and the two tables they share.           *)
(*                                                                         *)
(* A request runs from one await to the next; another request may run at   *)
(* every await, since no transaction spans two of them.  One action is one *)
(* database round trip and the code up to the next one.                    *)
(*                                                                         *)
(* Abstracted: the content of a document, and mappings, are the request    *)
(* that wrote them; documents have at least one field.  search_vector is   *)
(* recomputed by a trigger from the content on every write, so it is not a *)
(* variable.  An index is dropped in one step (its transaction has a model *)
(* of its own).                                                            *)
(***************************************************************************)
CONSTANTS
    Docs,      \* ids of documents of the index
    Requests,  \* HTTP requests, each served once
    Ops        \* the operations requests ask for

DocOps   == {"index", "update", "delete"}
IndexOps == {"create", "drop", "mappings", "settings", "detect"}
ReadOps  == {"get", "list"}

Absent == "absent"  \* no row
Blank  == "blank"   \* a row whose content is {}
Old    == "old"     \* written before the first request
Empty  == "empty"   \* mappings without properties

ASSUME ApiAssumption ==
    /\ Docs # {}
    /\ Ops \subseteq DocOps \cup IndexOps \cup ReadOps
    /\ Requests \cap {Absent, Blank, Old, Empty} = {}

VARIABLES
    exists,    \* the row of the index in table indices is there
    mappings,  \* settings.mappings of that row
    rows,      \* table documents: the content stored under each id
    stats,     \* IndexStatsService.fieldLengths: the documents it counts
    call,      \* what each request asks for
    pc,        \* where each request stands
    seen,      \* TypeORM save: its SELECT found the row
    copy,      \* the mappings of the entity updateIndex holds
    overtaken  \* history: the document was erased while the request ran

vars == <<exists, mappings, rows, stats, call, pc, seen, copy, overtaken>>

Writes == {"index", "update"}
Ended  == {"ok", "failed"}

\* The await a request stands at, named for what comes next.
Label == {"idle", "check", "ensure", "configure", "find", "select", "save", "config",
          "process", "erase", "lookup", "erase again", "read", "bump", "confirm",
          "drop", "insert", "sample", "put", "fetch", "page"} \cup Ended

Doc(r) == call[r].doc
At(r, label) == pc[r] = label
InFlight(r) == pc[r] \notin {"idle"} \cup Ended
Goto(r, label) == pc' = [pc EXCEPT ![r] = label]

\* getIndex: the mappings in the settings of the row, empty if there are none.
NoIndex == Absent
GetIndex == IF exists THEN mappings ELSE NoIndex

\* getDocuments: those of the index that there are.
Stored == {d \in Docs : rows[d] # Absent}

\* A status of the index row that the request may find, and act on, twice:
\* the second query may come before or after another request's drop.
GoneOr(r, late, label) ==
    \/ exists /\ Goto(r, label)
    \/ ~exists /\ \E next \in {"failed", late} : Goto(r, next)

Init ==
    /\ exists = TRUE
    /\ mappings \in {Empty, Old}
    /\ rows \in [Docs -> {Absent, Old}]
    /\ stats = {}
    /\ call \in [Requests -> [op : Ops, doc : Docs]]
    /\ pc = [r \in Requests |-> "idle"]
    /\ seen = [r \in Requests |-> FALSE]
    /\ copy = [r \in Requests |-> Empty]
    /\ overtaken = [r \in Requests |-> FALSE]

Begin(r) ==
    /\ At(r, "idle")
    /\ Goto(r, CASE call[r].op = "drop"     -> "drop"
                 [] call[r].op = "settings" -> "put"
                 [] OTHER                   -> "check")
    /\ UNCHANGED <<exists, mappings, rows, stats, call, seen, copy, overtaken>>

\* getIndex: 404 without an index, 409 with one for createIndex.  (OTHER is
\* "detect".)
Check(r) ==
    /\ At(r, "check")
    /\ Goto(r, CASE call[r].op = "create"   -> IF exists THEN "failed" ELSE "insert"
                 [] ~exists                 -> "failed"
                 [] call[r].op = "index"    -> "ensure"
                 [] call[r].op = "update"   -> "find"
                 [] call[r].op = "delete"   -> "erase"
                 [] call[r].op = "mappings" -> "put"
                 [] call[r].op = "get"      -> "fetch"
                 [] call[r].op = "list"     -> "page"
                 [] OTHER                   -> "sample")
    /\ UNCHANGED <<exists, mappings, rows, stats, call, seen, copy, overtaken>>

-----------------------------------------------------------------------------
(* POST and PUT of a document.                                             *)

\* ensureFieldMappings, its getIndex; without an index, index.mappings throws.
EnsureFieldMappings(r) ==
    /\ At(r, "ensure")
    /\ Goto(r, CASE GetIndex = NoIndex -> "failed"
                 [] GetIndex = Empty   -> "configure"
                 [] OTHER              -> "select")
    /\ UNCHANGED <<exists, mappings, rows, stats, call, seen, copy, overtaken>>

\* IndexService.updateIndex: getIndex or 404, then an UPDATE that sets the
\* whole of settings, and no row at all if the index has gone in between.
\* ensureFieldMappings, PUT of mappings and detection put mappings of their
\* own there, PUT of settings none.
UpdateIndex(r) ==
    /\ \/ At(r, "configure") /\ GoneOr(r, "select", "select")
       \/ At(r, "put") /\ call[r].op = "detect" /\ GoneOr(r, "confirm", "confirm")
       \/ At(r, "put") /\ call[r].op # "detect" /\ GoneOr(r, "ok", "ok")
    /\ mappings' = IF ~exists THEN mappings
                   ELSE IF call[r].op = "settings" THEN Empty ELSE r
    /\ UNCHANGED <<exists, rows, stats, call, seen, copy, overtaken>>

\* updateDocument: the document must exist.
FindDocument(r) ==
    /\ At(r, "find")
    /\ Goto(r, IF rows[Doc(r)] = Absent THEN "failed" ELSE "select")
    /\ UNCHANGED <<exists, mappings, rows, stats, call, seen, copy, overtaken>>

\* storeDocument: TypeORM's save looks the row up ...
StoreSelect(r) ==
    /\ At(r, "select")
    /\ seen' = [seen EXCEPT ![r] = rows[Doc(r)] # Absent]
    /\ Goto(r, "save")
    /\ UNCHANGED <<exists, mappings, rows, stats, call, copy, overtaken>>

\* Mutant: INSERT ... ON CONFLICT DO NOTHING.
StoreUnlessThere(r) ==
    /\ At(r, "save")
    /\ seen[r] \/ exists
    /\ rows' = [rows EXCEPT ![Doc(r)] = IF (@ # Absent) = seen[r] THEN r ELSE @]
    /\ Goto(r, "config")
    /\ UNCHANGED <<exists, mappings, stats, call, seen, copy, overtaken>>

\* ... and then sends an UPDATE, which may match no row any more, or an
\* INSERT, which fails on a duplicate key and on a missing index.
StoreSave(r) ==
    /\ At(r, "save")
    /\ \/ /\ seen[r] /\ rows[Doc(r)] = Absent
          /\ Goto(r, "config")
          /\ UNCHANGED rows
       \/ /\ seen[r] <=> rows[Doc(r)] # Absent
          /\ seen[r] \/ exists
          /\ rows' = [rows EXCEPT ![Doc(r)] = r]
          /\ Goto(r, "config")
       \/ /\ ~seen[r]
          /\ rows[Doc(r)] # Absent \/ ~exists
          /\ Goto(r, "failed")
          /\ UNCHANGED rows
    /\ UNCHANGED <<exists, mappings, stats, call, seen, copy, overtaken>>

\* indexDocument: the storage's getIndex knows no mappings, so the processed
\* document has no fields.  (Without an index the fields of the document are
\* used, and the INSERT that follows fails.)
GetConfig(r) ==
    /\ At(r, "config")
    /\ Goto(r, IF exists THEN "process" ELSE "failed")
    /\ UNCHANGED <<exists, mappings, rows, stats, call, seen, copy, overtaken>>

\* storeProcessedDocument: INSERT ... ON CONFLICT DO UPDATE of the vector, so
\* a row that has gone comes back without content; then updateDocumentStats.
StoreProcessedDocument(r) ==
    /\ At(r, "process")
    /\ \/ /\ ~exists
          /\ Goto(r, "failed")
          /\ UNCHANGED <<rows, stats>>
       \/ /\ exists
          /\ rows' = [rows EXCEPT ![Doc(r)] = IF @ = Absent THEN Blank ELSE @]
          /\ stats' = stats \cup {Doc(r)}
          /\ Goto(r, "read")
    /\ UNCHANGED <<exists, mappings, call, seen, copy, overtaken>>

\* getIndex, then updateIndex's findOne, which throws if a drop came between
\* the two; removeDocument catches that, indexDocument does not.
ReadMetadata(r) ==
    /\ At(r, "read")
    /\ IF exists
       THEN /\ copy' = [copy EXCEPT ![r] = mappings]
            /\ Goto(r, "bump")
       ELSE /\ UNCHANGED copy
            /\ \E next \in {"ok"} \cup (IF call[r].op = "delete" THEN {} ELSE {"failed"}) :
                  Goto(r, next)
    /\ UNCHANGED <<exists, mappings, rows, stats, call, seen, overtaken>>

\* Mutant: the settings it is given replace those of the entity.
SaveDefaults(r) ==
    /\ At(r, "bump")
    /\ exists' = TRUE
    /\ mappings' = Empty
    /\ Goto(r, "confirm")
    /\ UNCHANGED <<rows, stats, call, seen, copy, overtaken>>

\* updateIndex saves the whole entity as it was read (document_count is no
\* column of the entity); TypeORM inserts it if the row has gone.
SaveMetadata(r) ==
    /\ At(r, "bump")
    /\ exists' = TRUE
    /\ mappings' = copy[r]
    /\ Goto(r, "confirm")
    /\ UNCHANGED <<rows, stats, call, seen, copy, overtaken>>

\* updateIndex, and autoDetectMappings, read the index back.
Confirm(r) ==
    /\ At(r, "confirm")
    /\ Goto(r, IF exists \/ call[r].op = "delete" THEN "ok" ELSE "failed")
    /\ UNCHANGED <<exists, mappings, rows, stats, call, seen, copy, overtaken>>

-----------------------------------------------------------------------------
(* DELETE of a document.                                                   *)

EraseRow(r) ==
    /\ rows' = [rows EXCEPT ![Doc(r)] = Absent]
    /\ overtaken' = [s \in Requests |->
                        overtaken[s] \/ (InFlight(s) /\ Doc(s) = Doc(r))]

\* deleteDocument deletes the row first ...
DeleteDocument(r) ==
    /\ At(r, "erase")
    /\ EraseRow(r)
    /\ Goto(r, "lookup")
    /\ UNCHANGED <<exists, mappings, stats, call, seen, copy>>

\* ... and removeDocument then looks for the processed document in the same
\* table: it returns at once unless a concurrent write put the row back.
LookupProcessed(r) ==
    /\ At(r, "lookup")
    /\ Goto(r, IF rows[Doc(r)] = Absent THEN "ok" ELSE "erase again")
    /\ UNCHANGED <<exists, mappings, rows, stats, call, seen, copy, overtaken>>

RemoveDocument(r) ==
    /\ At(r, "erase again")
    /\ EraseRow(r)
    /\ stats' = stats \ {Doc(r)}
    /\ Goto(r, "read")
    /\ UNCHANGED <<exists, mappings, call, seen, copy>>

-----------------------------------------------------------------------------
(* GET of a document and of the documents.                                 *)

GetDocument(r) ==
    /\ At(r, "fetch")
    /\ Goto(r, IF Doc(r) \in Stored THEN "ok" ELSE "failed")
    /\ UNCHANGED <<exists, mappings, rows, stats, call, seen, copy, overtaken>>

\* A page of the documents that pass the filter; there may be none.
ListDocuments(r) ==
    /\ At(r, "page")
    /\ Goto(r, "ok")
    /\ UNCHANGED <<exists, mappings, rows, stats, call, seen, copy, overtaken>>

-----------------------------------------------------------------------------
(* The index itself.                                                       *)

\* deleteIndex: its documents go with it; whether it existed is not checked.
DeleteIndex(r) ==
    /\ At(r, "drop")
    /\ exists' = FALSE
    /\ mappings' = Empty
    /\ rows' = [d \in Docs |-> Absent]
    /\ overtaken' = [s \in Requests |-> overtaken[s] \/ InFlight(s)]
    /\ Goto(r, "ok")
    /\ UNCHANGED <<stats, call, seen, copy>>

\* createIndex stores the settings of its DTO; the mappings it only echoes.
CreateIndex(r) ==
    /\ At(r, "insert")
    /\ \/ exists /\ Goto(r, "failed") /\ UNCHANGED <<exists, mappings>>
       \/ ~exists /\ Goto(r, "ok") /\ exists' = TRUE /\ mappings' = Empty
    /\ UNCHANGED <<rows, stats, call, seen, copy, overtaken>>

\* autoDetectMappings reads documents; without any it changes nothing.
SampleDocuments(r) ==
    /\ At(r, "sample")
    /\ Goto(r, CASE ~exists                -> "failed"
                 [] exists /\ Stored = {} -> "ok"
                 [] OTHER                  -> "put")
    /\ UNCHANGED <<exists, mappings, rows, stats, call, seen, copy, overtaken>>

\* What a request may do next.
Serve(r) ==
    \/ Begin(r) \/ Check(r)
    \/ EnsureFieldMappings(r) \/ UpdateIndex(r) \/ FindDocument(r)
    \/ StoreSelect(r) \/ StoreSave(r) \/ GetConfig(r)
    \/ StoreProcessedDocument(r)
    \/ ReadMetadata(r) \/ SaveMetadata(r) \/ Confirm(r)
    \/ DeleteDocument(r) \/ LookupProcessed(r) \/ RemoveDocument(r)
    \/ DeleteIndex(r) \/ CreateIndex(r) \/ SampleDocuments(r)
    \/ GetDocument(r) \/ ListDocuments(r)

Next == \E r \in Requests : Serve(r)

Spec == Init /\ [][Next]_vars

-----------------------------------------------------------------------------
(* Properties.                                                             *)

\* Every variable has its type.
TypeOK ==
    /\ exists \in BOOLEAN
    /\ mappings \in Requests \cup {Empty, Old}
    /\ rows \in [Docs -> Requests \cup {Absent, Blank, Old}]
    /\ stats \in SUBSET Docs
    /\ call \in [Requests -> [op : Ops, doc : Docs]]
    /\ pc \in [Requests -> Label]
    /\ seen \in [Requests -> BOOLEAN]
    /\ copy \in [Requests -> Requests \cup {Empty, Old}]
    /\ overtaken \in [Requests -> BOOLEAN]

\* What a request has done so far, as its caller may know it.
Status(r) ==
    CASE pc[r] \in {"idle"} \cup Ended -> pc[r]
      [] call[r].op \in Writes
         /\ pc[r] \in {"config", "process", "read", "bump", "confirm"} -> "applied"
      [] call[r].op = "delete"
         /\ pc[r] \in {"lookup", "erase again", "read", "bump", "confirm"} -> "applied"
      [] OTHER -> "pending"

Kind(op) ==
    CASE op \in Writes   -> "put"
      [] op = "delete"   -> "erase"
      [] op = "drop"     -> "clear"
      [] OTHER           -> "admin"

Register == INSTANCE DocumentRegister WITH
    store <- rows,
    request <- [r \in Requests |-> [kind   |-> Kind(call[r].op),
                                    doc    |-> Doc(r),
                                    status |-> Status(r)]]

\* Whatever requests run at once, acknowledged writes and deletes took effect
\* between call and answer, a write never twice, a failed write leaves
\* nothing, and nothing but a write's content is ever stored, except where a
\* delete or a drop overtook a write of the same document.
ImplementsRegister == Register!Spec

\* ensureFieldMappings: once it has let a document through, the index has
\* mappings, whatever POSTs, PUTs of mappings and detections run at once.
\* (A PUT of settings and a drop remove them; so does a PUT or a DELETE of a
\* document, which do not ensure mappings and save an entity they read
\* before there were any.)
ConfiguredBeforeStored ==
    (\A r \in Requests : call[r].op \in {"index", "mappings", "detect", "create"})
        => \A r \in Requests :
              /\ call[r].op = "index"
              /\ pc[r] \in {"select", "save", "config", "process", "read", "bump", "confirm", "ok"}
              => mappings # Empty
=============================================================================
