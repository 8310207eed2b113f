----------------------------- MODULE FieldMappings -----------------------------
(***************************************************************************)
(* What an index knows of its fields: the mappings the first documents     *)
(* give it (DocumentService.ensureFieldMappings) and the weights of known  *)
(* fields (FieldWeightsService), while requests, batches, a detection and  *)
(* those who drop and create the index come between.                       *)
(*                                                                         *)
(* A sample stands for the documents of a request; what is found in them   *)
(* is FieldAnalysis'.  A path is a sequence of keys.                       *)
(***************************************************************************)
EXTENDS Naturals, Sequences, FiniteSets, SequencesExt, Relation

CONSTANTS
    Clients,     \* requests and batches, each served once
    Samples,     \* the documents one of them may bring
    Found,       \* sample -> its fields, each with path and type, in order
    Attempts,    \* how often Bull runs a batch
    MaxTroubles  \* bound on failing statements and crashes

ASSUME FieldAssumption ==
    /\ Attempts \in Nat \ {0} /\ MaxTroubles \in Nat
    /\ \A s \in Samples : Found[s] \in Seq([path : Seq(STRING) \ {<<>>}, type : STRING])

-------------------------------------------------------------------------------
(* The mappings that are detected.                                         *)

\* name and title have a subfield whatever their type.
CreateFieldMapping(field) ==
    [type   |-> field.type,
     fields |-> IF field.path[Len(field.path)] \in {"name", "title"} THEN {"keyword"} ELSE {}]

Detected(s) ==
    LET At(path) == Found[s][SelectInSeq(Found[s], LAMBDA field : field.path = path)]
    IN  [path \in {Found[s][i].path : i \in DOMAIN Found[s]} |-> CreateFieldMapping(At(path))]

-------------------------------------------------------------------------------
(* Known fields and their weights, times ten.                              *)

Pattern(name, weight) == [name |-> name, weight |-> weight]
NoPattern == Pattern("none", 0)
NoWeight == 0  \* undefined

KnownFieldPatterns ==
    << Pattern("name", 100), Pattern("title", 100),
       Pattern("category_name", 20), Pattern("sub_category_name", 20),
       Pattern("category", 20), Pattern("subcategory", 20),
       Pattern("description", 15), Pattern("summary", 15), Pattern("overview", 15),
       Pattern("tags", 10), Pattern("content", 10), Pattern("text", 10) >>

\* The patterns in a key.
Within(key) ==
    CASE key = "sub_category_name" -> {key, "category_name", "category", "name"}
      [] key = "category_name"     -> {key, "category", "name"}
      [] key = "subcategory"       -> {key, "category"}
      [] key = "username"          -> {"name"}
      [] OTHER                     -> {key}

\* A name without its marks.
Squeezed(key) == IF key = "over_view" THEN "overview" ELSE key

Exactly(path, pattern) == path = <<pattern.name>>
Includes(path, pattern) ==
    \/ \E i \in DOMAIN path : pattern.name \in Within(path[i])
    \/ Len(path) = 1 /\ Squeezed(path[1]) = pattern.name

FirstPattern(places) ==
    IF places = {} THEN NoPattern ELSE KnownFieldPatterns[Min(places)]

\* The name itself, the first pattern it contains, or none.  `in` also finds
\* what every object inherits, which has no weight.
FindMatchingPattern(path) ==
    LET places == DOMAIN KnownFieldPatterns
        exact == {i \in places : Exactly(path, KnownFieldPatterns[i])}
    IN  IF exact # {} THEN FirstPattern(exact)
        ELSE IF path = <<"constructor">> THEN Pattern("constructor", NoWeight)
        ELSE FirstPattern({i \in places : Includes(path, KnownFieldPatterns[i])})

\* The paths of a sample with a pattern, in the order in which they were found.
Known(s) ==
    LET fields == Found[s]
        places == {i \in DOMAIN fields : FindMatchingPattern(fields[i].path) # NoPattern}
        Place(i) == Cardinality({j \in places : j <= i})
    IN  [k \in 1 .. Cardinality(places) |-> fields[CHOOSE i \in places : Place(i) = k].path]
KnownIn == [s \in Samples |-> Known(s)]

-------------------------------------------------------------------------------
VARIABLES
    there,     \* the index exists
    fieldMap,  \* its mappings, path by path; none: not configured
    weights,   \* table field_weights
    asks,      \* what each client asks for
    brings,    \* the documents it brings
    stage,     \* how far it is
    toWeigh,   \* fields its transaction has still to look at
    inserted,  \* weights its transaction has inserted
    tries,     \* attempts at a batch
    troubles,  \* failing statements and crashes so far
    writer,    \* history: who wrote the mappings
    lost       \* history: who wrote mappings and then failed

index == <<there, fieldMap, writer>>
client == <<asks, brings>>
fieldVars == <<index, client, weights, stage, toWeigh, inserted, tries, troubles, lost>>

Uploads == {"document", "batch"}
Asks == Uploads \cup {"detect", "drop", "create"}
Unmapped == [path \in {} |-> 0]

FieldInit ==
    /\ there = TRUE
    /\ fieldMap = Unmapped
    /\ weights = Unmapped
    /\ asks \in [Clients -> Asks]
    /\ brings \in [Clients -> Samples]
    /\ stage = [c \in Clients |-> "ensure"]
    /\ toWeigh = [c \in Clients |-> <<>>]
    /\ inserted = [c \in Clients |-> {}]
    /\ tries = [c \in Clients |-> 1]
    /\ troubles = 0
    /\ writer \in Clients
    /\ lost = {}

Proceed(c, label) == stage' = [stage EXCEPT ![c] = label]

\* An error answers a request, and delays a batch for another attempt.
Errs(c) ==
    IF asks[c] = "batch" /\ tries[c] < Attempts
    THEN Proceed(c, "ensure") /\ tries' = [tries EXCEPT ![c] = @ + 1]
    ELSE Proceed(c, "failed") /\ UNCHANGED tries

\* ensureFieldMappings: getIndex, and nothing to do where there are mappings;
\* without an index both it and the handlers throw.
EnsureFieldMappings(c) ==
    /\ stage[c] = "ensure" /\ asks[c] \in Uploads
    /\ \/ there /\ Proceed(c, IF fieldMap = Unmapped THEN "save" ELSE "ok") /\ UNCHANGED tries
       \/ ~there /\ Errs(c)
    /\ UNCHANGED <<index, client, weights, toWeigh, inserted, troubles, lost>>

\* updateIndex sets the mappings as they were detected, whatever there is by
\* now.  If the index has gone it finds that before, or sets nothing.
SaveMappings(c) ==
    /\ stage[c] = "save"
    /\ \/ /\ there
          /\ fieldMap' = Detected(brings[c])
          /\ writer' = c /\ lost' = lost \ {c}
          /\ Proceed(c, "weigh") /\ UNCHANGED tries
       \/ /\ ~there /\ UNCHANGED <<fieldMap, writer, lost>>
          /\ \/ Proceed(c, "weigh") /\ UNCHANGED tries
             \/ Errs(c)
    /\ toWeigh' = [toWeigh EXCEPT ![c] = KnownIn[brings[c]]]
    /\ UNCHANGED <<there, client, weights, inserted, troubles>>

\* autoDetectMappings: the same analysis, and no weights.
AutoDetectMappings(c) ==
    /\ stage[c] = "ensure" /\ asks[c] = "detect"
    /\ IF there
       THEN /\ fieldMap' = Detected(brings[c])
            /\ writer' = c
            /\ Proceed(c, "ok")
       ELSE Proceed(c, "failed") /\ UNCHANGED <<fieldMap, writer>>
    /\ UNCHANGED <<there, client, weights, toWeigh, inserted, tries, troubles, lost>>

-------------------------------------------------------------------------------
(* The transaction of analyzeAndCreateFieldWeights.                        *)

Field(c) == toWeigh[c][1]
Weighs(c) == stage[c] = "weigh" /\ toWeigh[c] # <<>>

\* INSERT waits for a transaction that has inserted the same row.
Holder(c, d) == d # c /\ stage[d] = "weigh" /\ Field(c) \in inserted[d]
Waits == [c, d \in Clients |-> Weighs(c) /\ Field(c) \notin DOMAIN weights /\ Holder(c, d)]
Deadlocked(c) == TransitiveClosure(Waits, Clients)[c, c]

\* Mutant: a field another transaction is about to weigh is left to it.
LeaveToOther(c) ==
    /\ Weighs(c)
    /\ FindMatchingPattern(Field(c)).weight # NoWeight
    /\ inserted' = IF Field(c) \in DOMAIN weights \/ \E d \in Clients : Holder(c, d)
                   THEN inserted ELSE [inserted EXCEPT ![c] = @ \cup {Field(c)}]
    /\ toWeigh' = [toWeigh EXCEPT ![c] = Tail(@)]
    /\ UNCHANGED <<index, client, weights, stage, tries, troubles, lost>>

\* A row that is there is kept, also one that was committed while the INSERT
\* waited (ON CONFLICT DO NOTHING).
WeighField(c) ==
    /\ Weighs(c)
    /\ FindMatchingPattern(Field(c)).weight # NoWeight
    /\ \A d \in Clients : ~Waits[c, d]
    /\ inserted' = IF Field(c) \in DOMAIN weights THEN inserted
                   ELSE [inserted EXCEPT ![c] = @ \cup {Field(c)}]
    /\ toWeigh' = [toWeigh EXCEPT ![c] = Tail(@)]
    /\ UNCHANGED <<index, client, weights, stage, tries, troubles, lost>>

CommitWeights(c) ==
    /\ stage[c] = "weigh" /\ toWeigh[c] = <<>>
    /\ weights' = [path \in DOMAIN weights \cup inserted[c] |->
                     IF path \in inserted[c] THEN FindMatchingPattern(path).weight
                     ELSE weights[path]]
    /\ inserted' = [inserted EXCEPT ![c] = {}]
    /\ Proceed(c, "ok")
    /\ UNCHANGED <<index, client, toWeigh, tries, troubles, lost>>

\* The transaction is rolled back, the mappings stay: at NULL as a weight, at
\* a deadlock, which PostgreSQL ends so, at any failing statement or a crash.
RollBackWeights(c) ==
    /\ stage[c] = "weigh"
    /\ \/ /\ \/ Weighs(c) /\ FindMatchingPattern(Field(c)).weight = NoWeight
             \/ Deadlocked(c)
          /\ UNCHANGED troubles
       \/ troubles < MaxTroubles /\ troubles' = troubles + 1
    /\ inserted' = [inserted EXCEPT ![c] = {}]
    /\ lost' = lost \cup {c}
    /\ Errs(c)
    /\ UNCHANGED <<index, client, weights, toWeigh>>

-------------------------------------------------------------------------------
\* The weights of an index that is dropped stay.
DropIndex(c) ==
    /\ stage[c] = "ensure" /\ asks[c] = "drop"
    /\ there' = FALSE /\ fieldMap' = Unmapped
    /\ Proceed(c, "ok")
    /\ UNCHANGED <<writer, client, weights, toWeigh, inserted, tries, troubles, lost>>

CreateIndex(c) ==
    /\ stage[c] = "ensure" /\ asks[c] = "create"
    /\ there' = TRUE
    /\ Proceed(c, IF there THEN "failed" ELSE "ok")
    /\ UNCHANGED <<fieldMap, writer, client, weights, toWeigh, inserted, tries, troubles, lost>>

FieldNext ==
    \E c \in Clients :
        \/ EnsureFieldMappings(c) \/ SaveMappings(c) \/ AutoDetectMappings(c)
        \/ WeighField(c) \/ CommitWeights(c) \/ RollBackWeights(c)
        \/ DropIndex(c) \/ CreateIndex(c)

FieldSpec == FieldInit /\ [][FieldNext]_fieldVars
-------------------------------------------------------------------------------
\* A mapped field with a known name has the weight of that name, whoever else
\* configures the index, drops it or creates it: unless the mappings were
\* detected on request, or whoever wrote them has its transaction before it or
\* has lost it (document.service.ts:531-540: mappings are saved first, and a
\* retry takes the index for configured).
MappedFieldsWeigh ==
    \A path \in DOMAIN fieldMap :
        \/ asks[writer] = "detect" \/ stage[writer] = "weigh" \/ writer \in lost
        \/ FindMatchingPattern(path) = NoPattern
        \/ /\ path \in DOMAIN weights
           /\ \A i \in DOMAIN KnownFieldPatterns :
                 Exactly(path, KnownFieldPatterns[i])
                    => weights[path] = KnownFieldPatterns[i].weight
===============================================================================
