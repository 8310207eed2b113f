--------------------------- MODULE MCConnectionPool ---------------------------
(* Instances of ConnectionPool, Startup and FieldMappings for TLC, in one    *)
(* run: a behaviour is the start of two processes, or the requests of one    *)
(* that serves, or what they make of the fields of an index.                 *)
EXTENDS ConnectionPool, Startup, FieldMappings, FieldAnalysis, TLC

Of(kind) == [kind |-> kind]
Object(fields) == [kind |-> "object", fields |-> fields]
List(items) == [kind |-> "array", items |-> items]
Entry(key, value) == [key |-> key, value |-> value]

\* One path twice, in one document and in two, in both orders; nothing, nested
\* objects and lists; names that contain others, or that every object has.
Uploaded ==
    { << <<Entry("name", Of("phrase")),
           Entry("source", Object(<<Entry("category_name", Of("word"))>>))>> >>,
      << <<Entry("category_name", Of("url")), Entry("over_view", Of("null"))>>,
         <<Entry("name", Of("day")), Entry("source", Object(<<Entry("name", Of("word"))>>))>> >>,
      << <<Entry("tags", List(<<Of("word"), Of("epoch")>>)), Entry("constructor", Of("phrase"))>> >>,
      << <<Entry("over_view", List(<<>>)),
           Entry("info", Object(<<Entry("email", Of("email")), Entry("username", Of("email")),
                                  Entry("source", Object(<<Entry("title", Of("integer"))>>))>>))>> >> }
FoundIn == [s \in Uploaded |-> AnalyzeDocumentFields(s)]

VARIABLE part
mcVars == <<vars, startVars, fieldVars, part>>

\* A part that does not take place is in one state.  One client drops or
\* creates the index; who does brings nothing.
MCInit ==
    /\ part \in {"start", "requests", "fields"}
    /\ Init
    /\ part # "requests" =>
          /\ op = [r \in Requests |-> "drop"]
          /\ doc = [r \in Requests |-> CHOOSE d \in Docs : TRUE]
    /\ StartInit
    /\ part # "start" => objects = {}
    /\ FieldInit
    /\ part # "fields" => asks = [c \in Clients |-> "drop"]
    /\ asks[writer] \in {"drop", "create"}
    /\ writer = CHOOSE c \in Clients : TRUE
    /\ \A c \in Clients :
          asks[c] \in {"drop", "create"} => brings[c] = CHOOSE s \in Samples : TRUE

MCNext ==
    /\ UNCHANGED part
    /\ \/ part = "start" /\ StartNext /\ UNCHANGED <<vars, fieldVars>>
       \/ part = "requests" /\ Next /\ UNCHANGED <<startVars, fieldVars>>
       \/ part = "fields" /\ FieldNext /\ UNCHANGED <<vars, startVars>>

\* The fairness of FairSpec.
Goes(r) == part = "requests" /\ Step(r) /\ UNCHANGED <<startVars, fieldVars, part>>
MCSpec == MCInit /\ [][MCNext]_mcVars /\ \A r \in Requests : WF_mcVars(Goes(r))

=============================================================================
