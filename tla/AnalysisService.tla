--------------------------- MODULE AnalysisService ---------------------------
(***************************************************************************)
(* What a caller of DocumentProcessorPool.processDocument is promised: the *)
(* promise of a call settles at most once, and when it resolves it         *)
(* resolves with the analysis of the very document the call passed in      *)
(* (the terms are then stored under that document's id by                  *)
(* IndexingWorkerService).  Nothing is said of the order of the answers,   *)
(* nor that every call is answered: shutdown may abandon calls.            *)
(***************************************************************************)
EXTENDS Naturals

CONSTANT MaxCalls   \* bound: processDocument is called at most this often

VARIABLES
    submitted,  \* calls made so far; the n-th call passes document n
    settled     \* settled[n]: how the promise of call n stands

Calls == 1 .. MaxCalls

\* A promise: doc is the document the answer is about, 0 where it names none.
Outcome == [kind : {"pending", "resolved", "rejected"}, doc : 0 .. MaxCalls]

Pending     == [kind |-> "pending",  doc |-> 0]
Resolved(d) == [kind |-> "resolved", doc |-> d]
Rejected(d) == [kind |-> "rejected", doc |-> d]

Init ==
    /\ submitted = 0
    /\ settled = [n \in Calls |-> Pending]

Call ==
    /\ submitted < MaxCalls
    /\ submitted' = submitted + 1
    /\ UNCHANGED settled

Answer(n) ==
    /\ n <= submitted
    /\ settled[n] = Pending
    /\ settled' = [settled EXCEPT ![n] = Resolved(n)]
    /\ UNCHANGED submitted

Fail(n) ==
    /\ n <= submitted
    /\ settled[n] = Pending
    /\ \E d \in {0, n} : settled' = [settled EXCEPT ![n] = Rejected(d)]
    /\ UNCHANGED submitted

Next == Call \/ \E n \in Calls : Answer(n) \/ Fail(n)

Spec == Init /\ [][Next]_<<submitted, settled>>
==============================================================================
