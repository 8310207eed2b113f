-------------------------- MODULE DocumentRegister --------------------------
(***************************************************************************)
(* What the document API of one index promises its callers: a put and an   *)
(* erase that are acknowledged took effect between call and answer, a put  *)
(* at most once, and a put that fails leaves nothing behind.  The promise  *)
(* is weaker for a put overtaken by an erase of its document: it may count *)
(* as done without effect, and may leave the document there, but blank.    *)
(***************************************************************************)
CONSTANTS Docs, Requests

VARIABLES
    store,      \* store[d]: the request that wrote d, Old, Blank or Absent
    request,    \* request[r]: its kind, document and status
    overtaken   \* overtaken[r]: its document was erased while r was in flight

Absent == "absent"
Blank  == "blank"
Old    == "old"      \* stored before the first request

Kind == {"put", "erase", "clear", "admin"}
InFlight(r) == request[r].status \in {"pending", "applied"}
Becomes(r, status) == request' = [request EXCEPT ![r].status = status]

Init ==
    /\ store \in [Docs -> {Absent, Old}]
    /\ request \in [Requests -> [kind : Kind, doc : Docs, status : {"idle"}]]
    /\ overtaken = [r \in Requests |-> FALSE]

Begin(r) ==
    /\ request[r].status = "idle"
    /\ Becomes(r, "pending")
    /\ UNCHANGED <<store, overtaken>>

Put(r) ==
    /\ request[r].kind = "put" /\ request[r].status = "pending"
    /\ store' = [store EXCEPT ![request[r].doc] = r]
    /\ Becomes(r, "applied")
    /\ UNCHANGED overtaken

\* The put came first, the erase that overtook it second.
PutErased(r) ==
    /\ request[r].kind = "put" /\ request[r].status = "pending"
    /\ overtaken[r] /\ store[request[r].doc] = Absent
    /\ Becomes(r, "applied")
    /\ UNCHANGED <<store, overtaken>>

PutBlank(r) ==
    /\ request[r].kind = "put" /\ request[r].status = "applied"
    /\ overtaken[r] /\ store[request[r].doc] = Absent
    /\ store' = [store EXCEPT ![request[r].doc] = Blank]
    /\ UNCHANGED <<request, overtaken>>

Erase(r) ==
    /\ request[r].kind = "erase" /\ InFlight(r)
    /\ store' = [store EXCEPT ![request[r].doc] = Absent]
    /\ overtaken' = [s \in Requests |->
                        overtaken[s] \/ (InFlight(s) /\ request[s].doc = request[r].doc)]
    /\ Becomes(r, "applied")

Clear(r) ==
    /\ request[r].kind = "clear" /\ request[r].status = "pending"
    /\ store' = [d \in Docs |-> Absent]
    /\ overtaken' = [s \in Requests |-> overtaken[s] \/ InFlight(s)]
    /\ Becomes(r, "ok")

Succeed(r) ==
    /\ \/ request[r].status = "applied"
       \/ request[r].status = "pending" /\ request[r].kind = "admin"
    /\ Becomes(r, "ok")
    /\ UNCHANGED <<store, overtaken>>

Fail(r) ==
    /\ \/ request[r].status = "pending"
       \/ request[r].status = "applied" /\ store[request[r].doc] # r
    /\ Becomes(r, "failed")
    /\ UNCHANGED <<store, overtaken>>

Next ==
    \E r \in Requests :
        \/ Begin(r) \/ Put(r) \/ PutErased(r) \/ PutBlank(r)
        \/ Erase(r) \/ Clear(r) \/ Succeed(r) \/ Fail(r)

Spec == Init /\ [][Next]_<<store, request, overtaken>>

=============================================================================
