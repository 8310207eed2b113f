---------------------------- MODULE MCSearchEngine ----------------------------
(* An instance of SearchEngine for TLC: two rows, three contents, one        *)
(* script, which is queued or which a request runs.  In a behaviour, one     *)
(* client searches while the rows change, or two walk the hits of a text     *)
(* while a request runs the script.                                          *)
EXTENDS SearchEngine, TLC

MCShape ==
    "named" :> [name |-> 1, rank |-> 2, word |-> FALSE, shown |-> TRUE, hidden |-> FALSE,
                alike |-> TRUE, part |-> TRUE]
 @@ "told" :> [name |-> 2, rank |-> 1, word |-> TRUE, shown |-> TRUE, hidden |-> FALSE,
                alike |-> FALSE, part |-> FALSE]
 @@ "unset" :> [name |-> 3, rank |-> 2, word |-> TRUE, shown |-> FALSE, hidden |-> FALSE,
                alike |-> TRUE, part |-> TRUE]
MCContents == {(1 :> "named") @@ (2 :> "told")}

VARIABLE together
mcVars == <<vars, together>>
Alone == CHOOSE r \in Clients : TRUE

MCInit == Init /\ together \in BOOLEAN
MCNext ==
    /\ Next
    /\ UNCHANGED together
    /\ IF together
       THEN /\ UNCHANGED <<content, wiped>>
            /\ \A j \in Jobs : job'[j].at = "none" \/ job'[j].by = "request"
            /\ \A r \in Clients : req'[r].at \in {"idle", "failed"} \/ req'[r].kind = "text"
       ELSE \A r \in Clients \ {Alone} : req'[r].at = "idle"

\* The fairness of FairSpec.
Runs(j) == Runner(j) /\ UNCHANGED together
MCSpec == MCInit /\ [][MCNext]_mcVars /\ \A j \in Jobs : WF_mcVars(Runs(j))
===============================================================================
