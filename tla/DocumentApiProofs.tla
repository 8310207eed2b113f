-------------------------- MODULE DocumentApiProofs --------------------------
(***************************************************************************)
(* DocumentApi implements DocumentRegister, for any documents, requests    *)
(* and operations.                                                         *)
(*                                                                         *)
(* What has to be remembered between two awaits of a request is small: a   *)
(* write whose row has gone was overtaken (SaveOvertaken, WriteOvertaken), *)
(* an index that is gone has no rows (NoOrphans), and a request only       *)
(* stands at labels of its operation (OpAt).                               *)
(***************************************************************************)
EXTENDS DocumentApi, TLAPS

NoOrphans == ~exists => \A d \in Docs : rows[d] = Absent

SaveOvertaken ==
    \A r \in Requests :
        (pc[r] = "save" /\ seen[r] /\ rows[Doc(r)] = Absent) => overtaken[r]

WriteOvertaken ==
    \A r \in Requests :
        (call[r].op \in Writes /\ Status(r) = "applied" /\ rows[Doc(r)] = Absent)
            => overtaken[r]

Allowed(op, label) ==
    /\ label \in {"ensure", "configure", "find", "select", "save", "config", "process"}
          => op \in Writes
    /\ label \in {"erase", "lookup", "erase again"} => op = "delete"
    /\ label \in {"read", "bump"} => op \in DocOps
    /\ label = "confirm" => op \in DocOps \cup {"detect"}
    /\ label = "drop" => op = "drop"
    /\ label \in {"insert", "sample", "put"}
          => op \in {"create", "mappings", "settings", "detect"}
    /\ label \in {"fetch", "page"} => op \in ReadOps
    /\ label = "check" => op \notin {"drop", "settings"}

OpAt == \A r \in Requests : Allowed(call[r].op, pc[r])

ApiInv == TypeOK /\ NoOrphans /\ SaveOvertaken /\ WriteOvertaken /\ OpAt

-----------------------------------------------------------------------------
(* Type correctness.                                                       *)

LEMMA TypeInit == Init => TypeOK
  BY ApiAssumption DEF Init, TypeOK, Label, Ended

LEMMA TypeStep == TypeOK /\ [Next]_vars => TypeOK'
<1> SUFFICES ASSUME TypeOK, [Next]_vars PROVE TypeOK'
  OBVIOUS
<1>1. CASE UNCHANGED vars
  BY <1>1 DEF vars, TypeOK
<1>2. ASSUME NEW r \in Requests, NEW l \in Label, Goto(r, l)
      PROVE  pc' \in [Requests -> Label]
  BY <1>2 DEF TypeOK, Goto
<1>3. ASSUME NEW r \in Requests, Begin(r) PROVE TypeOK'
  <2>1. pc' \in [Requests -> Label]
    BY <1>2, <1>3 DEF Begin, Label, Ended
  <2>2. QED
    BY <1>3, <2>1 DEF Begin, TypeOK, Doc
<1>4. ASSUME NEW r \in Requests, Check(r) PROVE TypeOK'
  <2>1. pc' \in [Requests -> Label]
    BY <1>2, <1>4 DEF Check, Label, Ended
  <2>2. QED
    BY <1>4, <2>1 DEF Check, TypeOK, Doc
<1>5. ASSUME NEW r \in Requests, EnsureFieldMappings(r) PROVE TypeOK'
  <2>1. pc' \in [Requests -> Label]
    BY <1>2, <1>5 DEF EnsureFieldMappings, GetIndex, NoIndex, Label, Ended
  <2>2. QED
    BY <1>5, <2>1 DEF EnsureFieldMappings, GetIndex, NoIndex, TypeOK, Doc
<1>6. ASSUME NEW r \in Requests, UpdateIndex(r) PROVE TypeOK'
  <2>1. pc' \in [Requests -> Label]
    BY <1>2, <1>6 DEF UpdateIndex, Label, Ended, GoneOr
  <2>2. QED
    BY <1>6, <2>1 DEF UpdateIndex, TypeOK, Doc
<1>7. ASSUME NEW r \in Requests, FindDocument(r) PROVE TypeOK'
  <2>1. pc' \in [Requests -> Label]
    BY <1>2, <1>7 DEF FindDocument, Label, Ended
  <2>2. QED
    BY <1>7, <2>1 DEF FindDocument, TypeOK, Doc
<1>8. ASSUME NEW r \in Requests, StoreSelect(r) PROVE TypeOK'
  <2>1. pc' \in [Requests -> Label]
    BY <1>2, <1>8 DEF StoreSelect, Label, Ended
  <2>2. QED
    BY <1>8, <2>1 DEF StoreSelect, TypeOK, Doc
<1>9. ASSUME NEW r \in Requests, StoreSave(r) PROVE TypeOK'
  <2>1. pc' \in [Requests -> Label]
    BY <1>2, <1>9 DEF StoreSave, Label, Ended
  <2>2. QED
    <3>1. rows' \in [Docs -> Requests \cup {Absent, Blank, Old}]
      BY <1>9 DEF StoreSave, TypeOK, Doc
    <3>2. QED
      BY <1>9, <2>1, <3>1 DEF StoreSave, TypeOK
<1>10. ASSUME NEW r \in Requests, GetConfig(r) PROVE TypeOK'
  <2>1. pc' \in [Requests -> Label]
    BY <1>2, <1>10 DEF GetConfig, Label, Ended
  <2>2. QED
    BY <1>10, <2>1 DEF GetConfig, TypeOK, Doc
<1>11. ASSUME NEW r \in Requests, StoreProcessedDocument(r) PROVE TypeOK'
  <2>1. pc' \in [Requests -> Label]
    BY <1>2, <1>11 DEF StoreProcessedDocument, Label, Ended
  <2>2. QED
    BY <1>11, <2>1 DEF StoreProcessedDocument, TypeOK, Doc
<1>12. ASSUME NEW r \in Requests, ReadMetadata(r) PROVE TypeOK'
  <2>1. pc' \in [Requests -> Label]
    BY <1>2, <1>12 DEF ReadMetadata, Label, Ended
  <2>2. QED
    BY <1>12, <2>1 DEF ReadMetadata, TypeOK, Doc
<1>13. ASSUME NEW r \in Requests, SaveMetadata(r) PROVE TypeOK'
  <2>1. pc' \in [Requests -> Label]
    BY <1>2, <1>13 DEF SaveMetadata, Label, Ended
  <2>2. QED
    BY <1>13, <2>1 DEF SaveMetadata, TypeOK, Doc
<1>14. ASSUME NEW r \in Requests, Confirm(r) PROVE TypeOK'
  <2>1. pc' \in [Requests -> Label]
    BY <1>2, <1>14 DEF Confirm, Label, Ended
  <2>2. QED
    BY <1>14, <2>1 DEF Confirm, TypeOK, Doc
<1>15. ASSUME NEW r \in Requests, DeleteDocument(r) PROVE TypeOK'
  <2>1. pc' \in [Requests -> Label]
    BY <1>2, <1>15 DEF DeleteDocument, Label, Ended
  <2>2. QED
    BY <1>15, <2>1 DEF DeleteDocument, TypeOK, Doc, EraseRow
<1>16. ASSUME NEW r \in Requests, LookupProcessed(r) PROVE TypeOK'
  <2>1. pc' \in [Requests -> Label]
    BY <1>2, <1>16 DEF LookupProcessed, Label, Ended
  <2>2. QED
    BY <1>16, <2>1 DEF LookupProcessed, TypeOK, Doc
<1>17. ASSUME NEW r \in Requests, RemoveDocument(r) PROVE TypeOK'
  <2>1. pc' \in [Requests -> Label]
    BY <1>2, <1>17 DEF RemoveDocument, Label, Ended
  <2>2. QED
    BY <1>17, <2>1 DEF RemoveDocument, TypeOK, Doc, EraseRow
<1>18. ASSUME NEW r \in Requests, DeleteIndex(r) PROVE TypeOK'
  <2>1. pc' \in [Requests -> Label]
    BY <1>2, <1>18 DEF DeleteIndex, Label, Ended
  <2>2. QED
    BY <1>18, <2>1 DEF DeleteIndex, TypeOK, Doc
<1>19. ASSUME NEW r \in Requests, CreateIndex(r) PROVE TypeOK'
  <2>1. pc' \in [Requests -> Label]
    BY <1>2, <1>19 DEF CreateIndex, Label, Ended
  <2>2. QED
    BY <1>19, <2>1 DEF CreateIndex, TypeOK, Doc
<1>20. ASSUME NEW r \in Requests, SampleDocuments(r) PROVE TypeOK'
  <2>1. pc' \in [Requests -> Label]
    BY <1>2, <1>20 DEF SampleDocuments, Label, Ended
  <2>2. QED
    BY <1>20, <2>1 DEF SampleDocuments, TypeOK, Doc
<1>get. ASSUME NEW r \in Requests, GetDocument(r) PROVE TypeOK'
  <2>1. pc' \in [Requests -> Label]
    BY <1>2, <1>get DEF GetDocument, Label, Ended
  <2>2. QED
    BY <1>get, <2>1 DEF GetDocument, TypeOK, Doc
<1>list. ASSUME NEW r \in Requests, ListDocuments(r) PROVE TypeOK'
  <2>1. pc' \in [Requests -> Label]
    BY <1>2, <1>list DEF ListDocuments, Label, Ended
  <2>2. QED
    BY <1>list, <2>1 DEF ListDocuments, TypeOK, Doc
<1>21. QED
  BY <1>1, <1>3, <1>4, <1>5, <1>6, <1>7, <1>8, <1>9, <1>10, <1>11, <1>12, <1>13,
     <1>14, <1>15, <1>16, <1>17, <1>18, <1>19, <1>20, <1>get, <1>list DEF Next, Serve

\* Every variable of the API has its type in every reachable state.
THEOREM ApiTypeCorrect == Spec => []TypeOK
<1>1. Init => TypeOK
  BY TypeInit
<1>2. TypeOK /\ [Next]_vars => TypeOK'
  BY TypeStep
<1>3. QED
  BY <1>1, <1>2, PTL DEF Spec

-----------------------------------------------------------------------------
(* Labels and operations.                                                  *)

\* A request moves only itself, to a label of its operation.
LEMMA OneMoves ==
    ASSUME TypeOK, OpAt, NEW r \in Requests, Serve(r)
    PROVE  /\ call' = call
           /\ \E l \in Label : Goto(r, l) /\ Allowed(call[r].op, l)
<1> USE DEF At, Allowed, Label, Ended, Writes, DocOps
<1>1. Allowed(call[r].op, pc[r]) /\ call[r].op \in DocOps \cup IndexOps \cup ReadOps
  BY ApiAssumption DEF OpAt, TypeOK
<1>2. CASE Begin(r)
  <2>1. PICK l : /\ l = (CASE call[r].op = "drop" -> "drop" [] call[r].op = "settings" -> "put" [] OTHER -> "check")
                 /\ Goto(r, l) /\ call' = call
    BY <1>2 DEF Begin
  <2>2. l \in Label /\ Allowed(call[r].op, l)
    BY <1>1, <1>2, <2>1 DEF Begin, IndexOps, ReadOps
  <2>3. QED
    BY <2>1, <2>2
<1>3. CASE Check(r)
  BY <1>1, <1>3 DEF Check, IndexOps, ReadOps
<1>4. CASE EnsureFieldMappings(r)
  BY <1>1, <1>4 DEF EnsureFieldMappings, GetIndex, NoIndex, IndexOps, ReadOps
<1>5. CASE UpdateIndex(r)
  <2>1. call' = call /\ (At(r, "configure") \/ At(r, "put"))
    BY <1>5 DEF UpdateIndex
  <2>2. \E l \in {"select", "confirm", "ok", "failed"} :
          /\ Goto(r, l)
          /\ l = "select" => At(r, "configure")
          /\ l = "confirm" => call[r].op = "detect"
    BY <1>5 DEF UpdateIndex, GoneOr
  <2>3. QED
    BY <1>1, <1>5, <2>1, <2>2 DEF UpdateIndex
<1>6. CASE FindDocument(r)
  BY <1>1, <1>6 DEF FindDocument, IndexOps, ReadOps
<1>7. CASE StoreSelect(r)
  BY <1>1, <1>7 DEF StoreSelect, IndexOps, ReadOps
<1>8. CASE StoreSave(r)
  BY <1>1, <1>8 DEF StoreSave, IndexOps, ReadOps
<1>9. CASE GetConfig(r)
  BY <1>1, <1>9 DEF GetConfig, IndexOps, ReadOps
<1>10. CASE StoreProcessedDocument(r)
  BY <1>1, <1>10 DEF StoreProcessedDocument, IndexOps, ReadOps
<1>11. CASE ReadMetadata(r)
  BY <1>1, <1>11 DEF ReadMetadata, IndexOps, ReadOps
<1>12. CASE SaveMetadata(r)
  BY <1>1, <1>12 DEF SaveMetadata, IndexOps, ReadOps
<1>13. CASE Confirm(r)
  BY <1>1, <1>13 DEF Confirm, IndexOps, ReadOps
<1>14. CASE DeleteDocument(r)
  BY <1>1, <1>14 DEF DeleteDocument, IndexOps, ReadOps
<1>15. CASE LookupProcessed(r)
  BY <1>1, <1>15 DEF LookupProcessed, IndexOps, ReadOps
<1>16. CASE RemoveDocument(r)
  BY <1>1, <1>16 DEF RemoveDocument, IndexOps, ReadOps
<1>17. CASE DeleteIndex(r)
  <2>1. Goto(r, "ok") /\ call' = call
    BY <1>17 DEF DeleteIndex
  <2>2. "ok" \in Label /\ Allowed(call[r].op, "ok")
    OBVIOUS
  <2>3. QED
    BY <2>1, <2>2
<1>18. CASE CreateIndex(r)
  BY <1>1, <1>18 DEF CreateIndex, IndexOps, ReadOps
<1>19. CASE SampleDocuments(r)
  BY <1>1, <1>19 DEF SampleDocuments, IndexOps, ReadOps
<1>get. CASE GetDocument(r)
  BY <1>1, <1>get DEF GetDocument, IndexOps, ReadOps
<1>list. CASE ListDocuments(r)
  BY <1>1, <1>list DEF ListDocuments, IndexOps, ReadOps
<1>20. QED
  BY <1>2, <1>3, <1>4, <1>5, <1>6, <1>7, <1>8, <1>9, <1>10, <1>11, <1>12, <1>13,
     <1>14, <1>15, <1>16, <1>17, <1>18, <1>19, <1>get, <1>list DEF Serve

-----------------------------------------------------------------------------
(* The inductive invariant.                                                *)

\* What one request's move does to the status others see: nothing.
LEMMA OthersKeep ==
    ASSUME TypeOK, NEW r \in Requests, NEW l \in Label, Goto(r, l), call' = call,
           NEW s \in Requests, s # r
    PROVE  pc'[s] = pc[s] /\ Status(s)' = Status(s) /\ InFlight(s)' = InFlight(s)
  BY DEF TypeOK, Goto, Status, InFlight

LEMMA ApiInvInit == Init => ApiInv
<1> SUFFICES ASSUME Init PROVE ApiInv
  OBVIOUS
<1>1. TypeOK
  BY TypeInit
<1>2. NoOrphans /\ SaveOvertaken
  BY DEF Init, NoOrphans, SaveOvertaken
<1>3. WriteOvertaken
  BY DEF Init, WriteOvertaken, Status, Ended
<1>4. OpAt
  BY DEF Init, OpAt, Allowed
<1>5. QED
  BY <1>1, <1>2, <1>3, <1>4 DEF ApiInv

\* A move that leaves the rows alone and neither reaches the save nor passes
\* it keeps the three facts about rows.
LEMMA QuietMove ==
    ASSUME ApiInv, NEW r \in Requests, NEW l \in Label, Goto(r, l), call' = call,
           rows' = rows, overtaken' = overtaken, seen' = seen, exists => exists',
           l # "save",
           (call[r].op \in Writes /\ Status(r)' = "applied") => Status(r) = "applied"
    PROVE  NoOrphans' /\ SaveOvertaken' /\ WriteOvertaken'
<1>1. NoOrphans'
  BY DEF ApiInv, NoOrphans
<1>2. SaveOvertaken'
  BY DEF ApiInv, SaveOvertaken, TypeOK, Goto, Doc
<1>3. WriteOvertaken'
  <2> SUFFICES ASSUME NEW s \in Requests, call[s].op \in Writes, Status(s)' = "applied",
                      rows[Doc(s)] = Absent
               PROVE  overtaken[s]
    BY DEF WriteOvertaken, Doc
  <2>1. Status(s) = "applied"
    BY OthersKeep DEF ApiInv
  <2>2. QED
    BY <2>1 DEF ApiInv, WriteOvertaken
<1>4. QED
  BY <1>1, <1>2, <1>3

\* An erase marks every request it could surprise.
LEMMA EraseMarks ==
    ASSUME ApiInv, NEW r \in Requests, NEW l \in Label, Goto(r, l), call' = call,
           l # "save", call[r].op \notin Writes, seen' = seen, exists' \in BOOLEAN,
           \/ EraseRow(r) /\ exists' = exists
           \/ /\ rows' = [d \in Docs |-> Absent]
              /\ overtaken' = [s \in Requests |-> overtaken[s] \/ InFlight(s)]
    PROVE  NoOrphans' /\ SaveOvertaken' /\ WriteOvertaken'
<1>1. NoOrphans'
  BY DEF ApiInv, NoOrphans, EraseRow, TypeOK
<1>2. SaveOvertaken'
  <2> SUFFICES ASSUME NEW s \in Requests, pc'[s] = "save", seen'[s],
                      rows'[Doc(s)'] = Absent
               PROVE  overtaken'[s]
    BY DEF SaveOvertaken
  <2>1. s # r /\ pc[s] = "save" /\ Doc(s) \in Docs /\ Doc(s)' = Doc(s) /\ Doc(r) \in Docs
    BY DEF ApiInv, TypeOK, Goto, Doc
  <2>2. InFlight(s)
    BY <2>1 DEF InFlight, Ended
  <2>3. CASE overtaken[s]
    BY <2>3 DEF EraseRow, ApiInv, TypeOK
  <2>4. CASE rows[Doc(s)] # Absent
    BY <2>1, <2>2, <2>4 DEF EraseRow, ApiInv, TypeOK
  <2>5. QED
    BY <2>1, <2>3, <2>4 DEF ApiInv, SaveOvertaken
<1>3. WriteOvertaken'
  <2> SUFFICES ASSUME NEW s \in Requests, call'[s].op \in Writes, Status(s)' = "applied",
                      rows'[Doc(s)'] = Absent
               PROVE  overtaken'[s]
    BY DEF WriteOvertaken
  <2>1. s # r /\ Status(s) = "applied" /\ Doc(s) \in Docs /\ Doc(s)' = Doc(s) /\ Doc(r) \in Docs
    BY OthersKeep DEF ApiInv, TypeOK, Doc
  <2>2. InFlight(s)
    BY <2>1 DEF InFlight, Status, Ended
  <2>3. CASE overtaken[s]
    BY <2>3 DEF EraseRow, ApiInv, TypeOK
  <2>4. CASE rows[Doc(s)] # Absent
    BY <2>1, <2>2, <2>4 DEF EraseRow, ApiInv, TypeOK
  <2>5. QED
    BY <2>1, <2>3, <2>4 DEF ApiInv, WriteOvertaken
<1>4. QED
  BY <1>1, <1>2, <1>3

\* Every move keeps the three facts about rows; one step per action.
LEMMA RowsStep ==
    ASSUME ApiInv, NEW r \in Requests, Serve(r)
    PROVE  NoOrphans' /\ SaveOvertaken' /\ WriteOvertaken'
<1>1. TypeOK /\ OpAt /\ Allowed(call[r].op, pc[r]) /\ Doc(r) \in Docs
  BY DEF ApiInv, OpAt, TypeOK, Doc
<1>2. PICK l \in Label : Goto(r, l) /\ Allowed(call[r].op, l)
  BY <1>1, OneMoves
<1>3. call' = call /\ pc'[r] = l
  BY <1>1, <1>2, OneMoves DEF TypeOK, Goto
<1>4. call'[r] = call[r]
  BY <1>3
<1> DEFINE Quiet == /\ rows' = rows /\ overtaken' = overtaken /\ seen' = seen
                    /\ exists => exists'
                    /\ l # "save"
                    /\ (call[r].op \in Writes /\ Status(r)' = "applied")
                          => Status(r) = "applied"
<1>5. Quiet => NoOrphans' /\ SaveOvertaken' /\ WriteOvertaken'
  BY <1>2, <1>3, QuietMove
<1>6. CASE Begin(r)
  <2>1. Quiet
    BY <1>1, <1>3, <1>4, <1>6 DEF Begin, At, Goto, TypeOK, Status, Ended, Allowed
  <2>2. QED
    BY <1>5, <2>1
<1>7. CASE Check(r)
  <2>1. Quiet
    BY <1>1, <1>3, <1>4, <1>7 DEF Check, At, Goto, TypeOK, Status, Ended, Allowed
  <2>2. QED
    BY <1>5, <2>1
<1>8. CASE EnsureFieldMappings(r)
  <2>1. Quiet
    BY <1>1, <1>3, <1>4, <1>8
       DEF EnsureFieldMappings, GetIndex, NoIndex, At, Goto, TypeOK, Status, Ended, Allowed
  <2>2. QED
    BY <1>5, <2>1
<1>9. CASE UpdateIndex(r)
  <2>1. rows' = rows /\ overtaken' = overtaken /\ seen' = seen /\ exists' = exists
    BY <1>9 DEF UpdateIndex
  <2>2. \/ pc[r] = "configure" /\ l \in {"select", "failed"}
        \/ pc[r] = "put" /\ l \in {"confirm", "ok", "failed"}
    BY <1>1, <1>3, <1>9 DEF UpdateIndex, At, Goto, TypeOK, GoneOr
  <2>3. pc[r] = "put" => call[r].op \notin Writes
    BY <1>1 DEF Allowed, Writes
  <2>4. Quiet
    BY <1>3, <1>4, <2>1, <2>2, <2>3 DEF Status, Ended
  <2>5. QED
    BY <1>5, <2>4
<1>10. CASE FindDocument(r)
  <2>1. Quiet
    BY <1>1, <1>3, <1>4, <1>10 DEF FindDocument, At, Goto, TypeOK, Status, Ended, Allowed
  <2>2. QED
    BY <1>5, <2>1
<1>11. CASE StoreSelect(r)
  <2>1. /\ rows' = rows /\ overtaken' = overtaken /\ exists' = exists
        /\ seen' = [seen EXCEPT ![r] = rows[Doc(r)] # Absent]
        /\ l = "save"
    BY <1>1, <1>3, <1>11 DEF StoreSelect, Goto, TypeOK
  <2>2. NoOrphans'
    BY <2>1 DEF ApiInv, NoOrphans
  <2>3. SaveOvertaken'
    BY <1>1, <1>2, <1>3, <2>1 DEF ApiInv, SaveOvertaken, Goto, TypeOK, Doc
  <2>4. WriteOvertaken'
    <3>1. Status(r)' # "applied"
      BY <1>3, <2>1 DEF Status, Ended
    <3>2. QED
      BY <1>2, <1>3, <2>1, <3>1, OthersKeep DEF ApiInv, WriteOvertaken, Doc
  <2>5. QED
    BY <2>2, <2>3, <2>4
<1>12. CASE StoreSave(r)
  <2>1. /\ pc[r] = "save" /\ l \in {"config", "failed"}
        /\ overtaken' = overtaken /\ exists' = exists /\ seen' = seen
    BY <1>1, <1>3, <1>12 DEF StoreSave, At, Goto, TypeOK
  <2>2. \/ rows' = rows /\ (l = "config" => (seen[r] /\ rows[Doc(r)] = Absent))
        \/ rows' = [rows EXCEPT ![Doc(r)] = r] /\ (exists \/ rows[Doc(r)] # Absent)
    BY <1>1, <1>3, <1>12 DEF StoreSave, Goto, TypeOK
  <2>3. r # Absent
    BY ApiAssumption
  <2>4. NoOrphans'
    BY <1>1, <2>1, <2>2 DEF ApiInv, NoOrphans, TypeOK
  <2>5. SaveOvertaken'
    BY <1>1, <1>2, <1>3, <2>1, <2>2, <2>3 DEF ApiInv, SaveOvertaken, Goto, TypeOK, Doc
  <2>6. WriteOvertaken'
    <3> SUFFICES ASSUME NEW s \in Requests, call[s].op \in Writes,
                        Status(s)' = "applied", rows'[Doc(s)] = Absent
                 PROVE  overtaken[s]
      BY <1>3, <2>1 DEF WriteOvertaken, Doc
    <3>1. rows[Doc(s)] = Absent
      BY <1>1, <2>2, <2>3 DEF TypeOK, Doc
    <3>2. CASE s = r
      <4>1. l = "config"
        BY <1>3, <2>1, <3>2 DEF Status, Ended
      <4>2. QED
        BY <1>1, <2>1, <2>2, <2>3, <3>1, <3>2, <4>1 DEF ApiInv, SaveOvertaken, TypeOK
    <3>3. CASE s # r
      BY <1>1, <1>2, <1>3, <3>1, <3>3, OthersKeep DEF ApiInv, WriteOvertaken
    <3>4. QED
      BY <3>2, <3>3
  <2>7. QED
    BY <2>4, <2>5, <2>6
<1>13. CASE GetConfig(r)
  <2>1. Quiet
    BY <1>1, <1>3, <1>4, <1>13 DEF GetConfig, At, Goto, TypeOK, Status, Ended, Allowed
  <2>2. QED
    BY <1>5, <2>1
<1>14. CASE StoreProcessedDocument(r)
  <2>1. /\ pc[r] = "process" /\ l \in {"read", "failed"}
        /\ overtaken' = overtaken /\ exists' = exists /\ seen' = seen
    BY <1>1, <1>3, <1>14 DEF StoreProcessedDocument, At, Goto, TypeOK
  <2>2. \/ rows' = rows
        \/ /\ rows' = [rows EXCEPT ![Doc(r)] = IF @ = Absent THEN Blank ELSE @]
           /\ exists
    BY <1>1, <1>14 DEF StoreProcessedDocument
  <2>3. \A d \in Docs : rows'[d] = Absent => rows[d] = Absent
    BY <1>1, <2>2 DEF TypeOK
  <2>4. NoOrphans'
    BY <2>1, <2>2 DEF ApiInv, NoOrphans
  <2>5. SaveOvertaken'
    BY <1>1, <1>2, <1>3, <2>1, <2>3 DEF ApiInv, SaveOvertaken, Goto, TypeOK, Doc
  <2>6. WriteOvertaken'
    <3> SUFFICES ASSUME NEW s \in Requests, call[s].op \in Writes,
                        Status(s)' = "applied", rows'[Doc(s)] = Absent
                 PROVE  overtaken[s]
      BY <1>3, <2>1 DEF WriteOvertaken, Doc
    <3>1. rows[Doc(s)] = Absent
      BY <1>1, <2>3 DEF TypeOK, Doc
    <3>2. Status(s) = "applied"
      <4>1. CASE s = r
        BY <2>1, <4>1 DEF Status, Ended
      <4>2. CASE s # r
        BY <1>1, <1>2, <1>3, <4>2, OthersKeep
      <4>3. QED
        BY <4>1, <4>2
    <3>3. QED
      BY <3>1, <3>2 DEF ApiInv, WriteOvertaken
  <2>7. QED
    BY <2>4, <2>5, <2>6
<1>15. CASE ReadMetadata(r)
  <2>1. Quiet
    BY <1>1, <1>3, <1>4, <1>15 DEF ReadMetadata, At, Goto, TypeOK, Status, Ended, Allowed
  <2>2. QED
    BY <1>5, <2>1
<1>16. CASE SaveMetadata(r)
  <2>1. Quiet
    BY <1>1, <1>3, <1>4, <1>16 DEF SaveMetadata, At, Goto, TypeOK, Status, Ended, Allowed
  <2>2. QED
    BY <1>5, <2>1
<1>17. CASE Confirm(r)
  <2>1. Quiet
    BY <1>1, <1>3, <1>4, <1>17 DEF Confirm, At, Goto, TypeOK, Status, Ended, Allowed
  <2>2. QED
    BY <1>5, <2>1
<1>18. CASE DeleteDocument(r)
  <2>1. /\ EraseRow(r) /\ exists' = exists /\ seen' = seen /\ l # "save"
        /\ call[r].op = "delete"
    BY <1>1, <1>3, <1>18 DEF DeleteDocument, At, Goto, TypeOK, Allowed
  <2>2. QED
    BY <1>1, <1>2, <1>3, <2>1, EraseMarks DEF Writes, TypeOK
<1>19. CASE LookupProcessed(r)
  <2>1. Quiet
    BY <1>1, <1>3, <1>4, <1>19 DEF LookupProcessed, At, Goto, TypeOK, Status, Ended, Allowed
  <2>2. QED
    BY <1>5, <2>1
<1>20. CASE RemoveDocument(r)
  <2>1. /\ EraseRow(r) /\ exists' = exists /\ seen' = seen /\ l # "save"
        /\ call[r].op = "delete"
    BY <1>1, <1>3, <1>20 DEF RemoveDocument, At, Goto, TypeOK, Allowed
  <2>2. QED
    BY <1>1, <1>2, <1>3, <2>1, EraseMarks DEF Writes, TypeOK
<1>21. CASE DeleteIndex(r)
  <2>1. /\ rows' = [d \in Docs |-> Absent]
        /\ overtaken' = [s \in Requests |-> overtaken[s] \/ InFlight(s)]
        /\ exists' = FALSE /\ seen' = seen /\ l # "save"
        /\ call[r].op = "drop"
    BY <1>1, <1>3, <1>21 DEF DeleteIndex, At, Goto, TypeOK, Allowed
  <2>2. QED
    BY <1>1, <1>2, <1>3, <2>1, EraseMarks DEF Writes
<1>22. CASE CreateIndex(r)
  <2>1. Quiet
    BY <1>1, <1>3, <1>4, <1>22 DEF CreateIndex, At, Goto, TypeOK, Status, Ended, Allowed
  <2>2. QED
    BY <1>5, <2>1
<1>23. CASE SampleDocuments(r)
  <2>1. Quiet
    BY <1>1, <1>3, <1>4, <1>23 DEF SampleDocuments, At, Goto, TypeOK, Status, Ended, Allowed
  <2>2. QED
    BY <1>5, <2>1
<1>get. CASE GetDocument(r)
  <2>1. Quiet
    BY <1>1, <1>3, <1>4, <1>get DEF GetDocument, At, Goto, TypeOK, Status, Ended, Allowed
  <2>2. QED
    BY <1>5, <2>1
<1>list. CASE ListDocuments(r)
  <2>1. Quiet
    BY <1>1, <1>3, <1>4, <1>list DEF ListDocuments, At, Goto, TypeOK, Status, Ended, Allowed
  <2>2. QED
    BY <1>5, <2>1
<1>24. QED
  BY <1>6, <1>7, <1>8, <1>9, <1>10, <1>11, <1>12, <1>13, <1>14, <1>15, <1>16, <1>17,
     <1>18, <1>19, <1>20, <1>21, <1>22, <1>23, <1>get, <1>list DEF Serve

LEMMA ApiInvStep == ApiInv /\ [Next]_vars => ApiInv'
<1> SUFFICES ASSUME ApiInv, [Next]_vars PROVE ApiInv'
  OBVIOUS
<1>1. TypeOK'
  BY TypeStep DEF ApiInv
<1>2. CASE UNCHANGED vars
  <2>1. NoOrphans' /\ SaveOvertaken'
    BY <1>2 DEF vars, ApiInv, NoOrphans, SaveOvertaken, Doc
  <2>2. WriteOvertaken'
    BY <1>2 DEF vars, ApiInv, WriteOvertaken, Doc, Status
  <2>3. OpAt'
    BY <1>2 DEF vars, ApiInv, OpAt
  <2>4. QED
    BY <1>1, <2>1, <2>2, <2>3 DEF ApiInv
<1>3. CASE Next
  <2>1. PICK r \in Requests : Serve(r)
    BY <1>3 DEF Next
  <2>2. NoOrphans' /\ SaveOvertaken' /\ WriteOvertaken'
    BY <2>1, RowsStep
  <2>3. OpAt'
    <3>1. call' = call /\ \E l \in Label : Goto(r, l) /\ Allowed(call[r].op, l)
      BY <2>1, OneMoves DEF ApiInv
    <3>2. QED
      BY <3>1 DEF ApiInv, OpAt, Goto, TypeOK
  <2>4. QED
    BY <1>1, <2>2, <2>3 DEF ApiInv
<1>4. QED
  BY <1>2, <1>3

LEMMA ApiInvariant == Spec => []ApiInv
<1>1. QED
  BY ApiInvInit, ApiInvStep, PTL DEF Spec

-----------------------------------------------------------------------------
(* The refinement.                                                         *)

\* The requests of the register a state of the API stands for.
Request == [r \in Requests |-> [kind   |-> Kind(call[r].op),
                                doc    |-> Doc(r),
                                status |-> Status(r)]]

\* A move of one request is a change of status of that request.
LEMMA StatusMoves ==
    ASSUME TypeOK, NEW r \in Requests, NEW l \in Label, Goto(r, l), call' = call
    PROVE  Request' = [Request EXCEPT ![r].status = Status(r)']
<1>1. \A s \in Requests : s # r => Status(s)' = Status(s)
  BY OthersKeep
<1>2. \A s \in Requests : Kind(call[s].op)' = Kind(call[s].op) /\ Doc(s)' = Doc(s)
  BY DEF Kind, Doc
<1>3. QED
  BY <1>1, <1>2 DEF Request

\* A request is in flight in the register exactly when it is in the API.
LEMMA SameInFlight ==
    ASSUME TypeOK, NEW r \in Requests
    PROVE  InFlight(r) <=> Status(r) \in {"pending", "applied"}
  BY DEF InFlight, Status, Ended

LEMMA RegisterInit == Init => Register!Init
<1> SUFFICES ASSUME Init PROVE Register!Init
  OBVIOUS
<1>1. \A r \in Requests : Status(r) = "idle"
  BY DEF Init, Status, Ended
<1>2. \A r \in Requests : Kind(call[r].op) \in Register!Kind /\ Doc(r) \in Docs
  BY DEF Init, Kind, Register!Kind, Doc
<1>3. QED
  BY <1>1, <1>2 DEF Init, Register!Init, Register!Absent, Register!Old, Absent, Old

RegisterNext == [Register!Next]_<<rows, Request, overtaken>>

\* What a move must show to be a step of the register: how the status of its
\* request moves, and what that does to the rows.
LEMMA RegisterMove ==
    ASSUME ApiInv, NEW r \in Requests, NEW l \in Label, Goto(r, l), call' = call,
           \/ /\ rows' = rows /\ overtaken' = overtaken
              /\ \/ Status(r)' = Status(r)
                 \/ Status(r) = "idle" /\ Status(r)' = "pending"
                 \/ Status(r) = "pending" /\ Status(r)' = "failed"
                 \/ Status(r) = "applied" /\ Status(r)' = "ok"
                 \/ /\ Status(r) = "applied" /\ Status(r)' = "failed"
                    /\ rows[Doc(r)] # r
                 \/ /\ Status(r) = "pending" /\ Status(r)' = "ok"
                    /\ Kind(call[r].op) = "admin"
                 \/ /\ Status(r) = "pending" /\ Status(r)' = "applied"
                    /\ call[r].op \in Writes /\ overtaken[r] /\ rows[Doc(r)] = Absent
           \/ /\ Status(r) = "pending" /\ Status(r)' = "applied"
              /\ call[r].op \in Writes
              /\ rows' = [rows EXCEPT ![Doc(r)] = r] /\ overtaken' = overtaken
           \/ /\ Status(r) = "applied" /\ Status(r)' = "applied"
              /\ call[r].op \in Writes /\ overtaken[r] /\ rows[Doc(r)] = Absent
              /\ rows' = [rows EXCEPT ![Doc(r)] = Blank] /\ overtaken' = overtaken
           \/ /\ Status(r) \in {"pending", "applied"} /\ Status(r)' = "applied"
              /\ call[r].op = "delete" /\ EraseRow(r)
           \/ /\ Status(r) = "pending" /\ Status(r)' = "ok" /\ call[r].op = "drop"
              /\ rows' = [d \in Docs |-> Absent]
              /\ overtaken' = [s \in Requests |-> overtaken[s] \/ InFlight(s)]
    PROVE  RegisterNext
<1> DEFINE S == Status(r)'
<1>1. Request' = [Request EXCEPT ![r].status = S]
  BY StatusMoves DEF ApiInv
<1>2. \A s \in Requests : /\ Request[s].kind = Kind(call[s].op)
                          /\ Request[s].doc = Doc(s)
                          /\ Request[s].status = Status(s)
  BY DEF Request
<1>3. call[r].op \in Writes => Kind(call[r].op) = "put"
  BY DEF Kind, Writes
<1>4. call[r].op = "delete" => Kind(call[r].op) = "erase"
  BY DEF Kind, Writes
<1>5. call[r].op = "drop" => Kind(call[r].op) = "clear"
  BY DEF Kind, Writes
<1>6. Register!Absent = Absent /\ Register!Blank = Blank
  BY DEF Register!Absent, Register!Blank, Absent, Blank
<1>7. \A s \in Requests : InFlight(s) <=> Request[s].status \in {"pending", "applied"}
  BY <1>2, SameInFlight DEF ApiInv
<1>same. Status(r)' = Status(r) => Request' = Request
  BY <1>1, <1>2 DEF Request
<1> USE DEF RegisterNext, Register!Next, Register!Becomes, Register!InFlight, Request
<1>8. CASE rows' = rows /\ overtaken' = overtaken /\ Status(r)' = Status(r)
  BY <1>8, <1>same
<1>9. CASE rows' = rows /\ overtaken' = overtaken /\ Status(r) = "idle" /\ S = "pending"
  <2>1. Register!Begin(r)
    BY <1>1, <1>2, <1>9 DEF Register!Begin
  <2>2. QED
    BY <2>1
<1>10. CASE /\ rows' = rows /\ overtaken' = overtaken
            /\ \/ Status(r) = "pending" /\ S = "failed"
               \/ Status(r) = "applied" /\ S = "failed" /\ rows[Doc(r)] # r
  <2>1. Register!Fail(r)
    BY <1>1, <1>2, <1>10 DEF Register!Fail
  <2>2. QED
    BY <2>1
<1>11. CASE /\ rows' = rows /\ overtaken' = overtaken
            /\ \/ Status(r) = "applied" /\ S = "ok"
               \/ /\ Status(r) = "pending" /\ S = "ok"
                  /\ Kind(call[r].op) = "admin"
  <2>1. Register!Succeed(r)
    BY <1>1, <1>2, <1>11 DEF Register!Succeed
  <2>2. QED
    BY <2>1
<1>12. CASE /\ rows' = rows /\ overtaken' = overtaken
            /\ Status(r) = "pending" /\ S = "applied"
            /\ call[r].op \in Writes /\ overtaken[r] /\ rows[Doc(r)] = Absent
  <2>1. Register!PutErased(r)
    BY <1>1, <1>2, <1>3, <1>6, <1>12 DEF Register!PutErased
  <2>2. QED
    BY <2>1
<1>13. CASE /\ Status(r) = "pending" /\ S = "applied" /\ call[r].op \in Writes
            /\ rows' = [rows EXCEPT ![Doc(r)] = r] /\ overtaken' = overtaken
  <2>1. Register!Put(r)
    BY <1>1, <1>2, <1>3, <1>13 DEF Register!Put
  <2>2. QED
    BY <2>1
<1>14. CASE /\ Status(r) = "applied" /\ S = "applied"
            /\ call[r].op \in Writes /\ overtaken[r] /\ rows[Doc(r)] = Absent
            /\ rows' = [rows EXCEPT ![Doc(r)] = Blank] /\ overtaken' = overtaken
  <2>1. Register!PutBlank(r)
    BY <1>2, <1>3, <1>6, <1>14, <1>same DEF Register!PutBlank
  <2>2. QED
    BY <2>1
<1>15. CASE /\ Status(r) \in {"pending", "applied"} /\ S = "applied"
            /\ call[r].op = "delete" /\ EraseRow(r)
  <2>1. overtaken' = [s \in Requests |->
           overtaken[s] \/ (/\ Request[s].status \in {"pending", "applied"}
                            /\ Request[s].doc = Request[r].doc)]
    BY <1>2, <1>7, <1>15 DEF EraseRow
  <2>2. Register!Erase(r)
    BY <1>1, <1>2, <1>4, <1>6, <1>15, <2>1 DEF Register!Erase, EraseRow
  <2>3. QED
    BY <2>2
<1>16. CASE /\ Status(r) = "pending" /\ S = "ok" /\ call[r].op = "drop"
            /\ rows' = [d \in Docs |-> Absent]
            /\ overtaken' = [s \in Requests |-> overtaken[s] \/ InFlight(s)]
  <2>1. overtaken' = [s \in Requests |->
           overtaken[s] \/ Request[s].status \in {"pending", "applied"}]
    BY <1>7, <1>16
  <2>2. Register!Clear(r)
    BY <1>1, <1>2, <1>5, <1>6, <1>16, <2>1 DEF Register!Clear
  <2>3. QED
    BY <2>2
<1>17. QED
  BY <1>8, <1>9, <1>10, <1>11, <1>12, <1>13, <1>14, <1>15, <1>16

\* Every move of a request is a step of the register, or none.
LEMMA RegisterStep ==
    ASSUME ApiInv, NEW r \in Requests, Serve(r)
    PROVE  RegisterNext
<1>1. TypeOK /\ OpAt /\ Allowed(call[r].op, pc[r]) /\ Doc(r) \in Docs
  BY DEF ApiInv, OpAt, TypeOK, Doc
<1>2. PICK l \in Label : Goto(r, l) /\ Allowed(call[r].op, l)
  BY <1>1, OneMoves
<1>3. call' = call /\ call'[r] = call[r] /\ pc'[r] = l
  BY <1>1, <1>2, OneMoves DEF TypeOK, Goto
<1>4. /\ r # Absent
      /\ call[r].op \in DocOps \cup IndexOps \cup ReadOps
      /\ ~exists => rows[Doc(r)] = Absent
  BY <1>1, ApiAssumption DEF ApiInv, NoOrphans, TypeOK
<1>5. \/ Kind(call[r].op) = "admin"
      \/ call[r].op \in Writes
      \/ call[r].op \in {"delete", "drop"}
  BY <1>4 DEF Kind
<1> DEFINE Still == rows' = rows /\ overtaken' = overtaken
           Moves == \/ Status(r)' = Status(r)
                    \/ Status(r) = "idle" /\ Status(r)' = "pending"
                    \/ Status(r) = "pending" /\ Status(r)' = "failed"
                    \/ Status(r) = "applied" /\ Status(r)' = "ok"
                    \/ /\ Status(r) = "applied" /\ Status(r)' = "failed"
                       /\ rows[Doc(r)] # r
                    \/ /\ Status(r) = "pending" /\ Status(r)' = "ok"
                       /\ Kind(call[r].op) = "admin"
<1>6. Still /\ Moves => RegisterNext
  BY <1>2, <1>3, RegisterMove
<1>7. CASE Begin(r)
  <2>1. Still /\ Moves
    BY <1>1, <1>3, <1>4, <1>5, <1>7 DEF Begin, At, Goto, TypeOK, Status, Ended, Allowed,
       Writes, DocOps, IndexOps, ReadOps
  <2>2. QED
    BY <1>6, <2>1
<1>8. CASE Check(r)
  <2>1. Still /\ Moves
    BY <1>1, <1>3, <1>4, <1>5, <1>8 DEF Check, At, Goto, TypeOK, Status, Ended, Allowed,
       Writes, DocOps, IndexOps, ReadOps
  <2>2. QED
    BY <1>6, <2>1
<1>9. CASE EnsureFieldMappings(r)
  <2>1. Still /\ Moves
    BY <1>1, <1>3, <1>4, <1>5, <1>9
       DEF EnsureFieldMappings, GetIndex, NoIndex, At, Goto, TypeOK, Status, Ended, Allowed,
       Writes, DocOps, IndexOps, ReadOps
  <2>2. QED
    BY <1>6, <2>1
<1>10. CASE UpdateIndex(r)
  <2>1. Still /\ Moves
    BY <1>1, <1>3, <1>4, <1>5, <1>10 DEF UpdateIndex, At, Goto, TypeOK, Status, Ended, Allowed,
       Writes, DocOps, IndexOps, ReadOps, GoneOr
  <2>2. QED
    BY <1>6, <2>1
<1>11. CASE FindDocument(r)
  <2>1. Still /\ Moves
    BY <1>1, <1>3, <1>4, <1>5, <1>11 DEF FindDocument, At, Goto, TypeOK, Status, Ended, Allowed,
       Writes, DocOps, IndexOps, ReadOps
  <2>2. QED
    BY <1>6, <2>1
<1>12. CASE StoreSelect(r)
  <2>1. Still /\ Moves
    BY <1>1, <1>3, <1>4, <1>5, <1>12 DEF StoreSelect, At, Goto, TypeOK, Status, Ended, Allowed,
       Writes, DocOps, IndexOps, ReadOps
  <2>2. QED
    BY <1>6, <2>1
<1>13. CASE StoreSave(r)
  <2>1. /\ pc[r] = "save" /\ call[r].op \in Writes /\ overtaken' = overtaken
        /\ \/ l = "failed" /\ rows' = rows
           \/ l = "config" /\ rows' = rows /\ seen[r] /\ rows[Doc(r)] = Absent
           \/ l = "config" /\ rows' = [rows EXCEPT ![Doc(r)] = r]
    BY <1>1, <1>3, <1>13 DEF StoreSave, At, Goto, TypeOK, Allowed
  <2>2. /\ Status(r) = "pending"
        /\ Status(r)' = IF l = "failed" THEN "failed" ELSE "applied"
    BY <1>3, <2>1 DEF Status, Ended, Writes
  <2>3. (seen[r] /\ rows[Doc(r)] = Absent) => overtaken[r]
    BY <2>1 DEF ApiInv, SaveOvertaken
  <2>4. QED
    BY <1>2, <1>3, <2>1, <2>2, <2>3, RegisterMove
<1>14. CASE GetConfig(r)
  <2>1. Still /\ Moves
    BY <1>1, <1>3, <1>4, <1>5, <1>14 DEF GetConfig, At, Goto, TypeOK, Status, Ended, Allowed,
       Writes, DocOps, IndexOps, ReadOps
  <2>2. QED
    BY <1>6, <2>1
<1>15. CASE StoreProcessedDocument(r)
  <2>1. /\ pc[r] = "process" /\ call[r].op \in Writes /\ overtaken' = overtaken
        /\ \/ l = "failed" /\ rows' = rows /\ ~exists
           \/ /\ l = "read"
              /\ rows' = [rows EXCEPT ![Doc(r)] = IF @ = Absent THEN Blank ELSE @]
    BY <1>1, <1>3, <1>15 DEF StoreProcessedDocument, At, Goto, TypeOK, Allowed
  <2>2. /\ Status(r) = "applied"
        /\ Status(r)' = IF l = "failed" THEN "failed" ELSE "applied"
    BY <1>3, <2>1 DEF Status, Ended, Writes
  <2>3. rows[Doc(r)] = Absent => overtaken[r]
    BY <2>1, <2>2 DEF ApiInv, WriteOvertaken
  <2>4. CASE rows[Doc(r)] = Absent /\ l = "read"
    <3>1. rows' = [rows EXCEPT ![Doc(r)] = Blank]
      BY <1>1, <2>1, <2>4 DEF TypeOK
    <3>2. QED
      BY <1>2, <1>3, <2>1, <2>2, <2>3, <2>4, <3>1, RegisterMove
  <2>5. CASE rows[Doc(r)] # Absent \/ l = "failed"
    <3>1. rows' = rows
      BY <1>1, <2>1, <2>5 DEF TypeOK
    <3>2. QED
      BY <1>4, <1>6, <2>1, <2>2, <3>1
  <2>6. QED
    BY <2>1, <2>4, <2>5
<1>16. CASE ReadMetadata(r)
  <2>1. Still /\ Moves
    BY <1>1, <1>3, <1>4, <1>5, <1>16 DEF ReadMetadata, At, Goto, TypeOK, Status, Ended, Allowed,
       Writes, DocOps, IndexOps, ReadOps
  <2>2. QED
    BY <1>6, <2>1
<1>17. CASE SaveMetadata(r)
  <2>1. Still /\ Moves
    BY <1>1, <1>3, <1>4, <1>5, <1>17 DEF SaveMetadata, At, Goto, TypeOK, Status, Ended, Allowed,
       Writes, DocOps, IndexOps, ReadOps
  <2>2. QED
    BY <1>6, <2>1
<1>18. CASE Confirm(r)
  <2>1. /\ pc[r] = "confirm" /\ Still
        /\ l = IF exists \/ call[r].op = "delete" THEN "ok" ELSE "failed"
    BY <1>1, <1>3, <1>18 DEF Confirm, At, Goto, TypeOK
  <2>2. Status(r)' = l
    BY <1>3, <2>1 DEF Status, Ended
  <2>3. CASE call[r].op \in DocOps
    BY <1>4, <1>6, <2>1, <2>2, <2>3 DEF Status, Ended, Writes, DocOps
  <2>4. CASE call[r].op = "detect"
    BY <1>6, <2>1, <2>2, <2>4 DEF Status, Ended, Writes, Kind
  <2>5. QED
    BY <1>1, <2>1, <2>3, <2>4 DEF Allowed
<1>19. CASE DeleteDocument(r)
  <2>1. /\ EraseRow(r) /\ call[r].op = "delete"
        /\ pc[r] \in {"erase", "erase again"} /\ l \in {"lookup", "read"}
    BY <1>1, <1>3, <1>19 DEF DeleteDocument, At, Goto, TypeOK, Allowed
  <2>2. Status(r) \in {"pending", "applied"} /\ Status(r)' = "applied"
    BY <1>3, <2>1 DEF Status, Ended, Writes
  <2>3. QED
    BY <1>2, <1>3, <2>1, <2>2, RegisterMove
<1>20. CASE LookupProcessed(r)
  <2>1. Still /\ Moves
    BY <1>1, <1>3, <1>4, <1>5, <1>20 DEF LookupProcessed, At, Goto, TypeOK, Status, Ended, Allowed,
       Writes, DocOps, IndexOps, ReadOps
  <2>2. QED
    BY <1>6, <2>1
<1>21. CASE RemoveDocument(r)
  <2>1. /\ EraseRow(r) /\ call[r].op = "delete"
        /\ pc[r] \in {"erase", "erase again"} /\ l \in {"lookup", "read"}
    BY <1>1, <1>3, <1>21 DEF RemoveDocument, At, Goto, TypeOK, Allowed
  <2>2. Status(r) \in {"pending", "applied"} /\ Status(r)' = "applied"
    BY <1>3, <2>1 DEF Status, Ended, Writes
  <2>3. QED
    BY <1>2, <1>3, <2>1, <2>2, RegisterMove
<1>22. CASE DeleteIndex(r)
  <2>1. /\ rows' = [d \in Docs |-> Absent]
        /\ overtaken' = [s \in Requests |-> overtaken[s] \/ InFlight(s)]
        /\ pc[r] = "drop" /\ l = "ok" /\ call[r].op = "drop"
    BY <1>1, <1>3, <1>22 DEF DeleteIndex, At, Goto, TypeOK, Allowed
  <2>2. Status(r) = "pending" /\ Status(r)' = "ok"
    BY <1>3, <2>1 DEF Status, Ended, Writes
  <2>3. QED
    BY <1>2, <1>3, <2>1, <2>2, RegisterMove
<1>23. CASE CreateIndex(r)
  <2>1. Still /\ Moves
    BY <1>1, <1>3, <1>4, <1>5, <1>23 DEF CreateIndex, At, Goto, TypeOK, Status, Ended, Allowed,
       Writes, DocOps, IndexOps, ReadOps
  <2>2. QED
    BY <1>6, <2>1
<1>24. CASE SampleDocuments(r)
  <2>1. Still /\ Moves
    BY <1>1, <1>3, <1>4, <1>5, <1>24 DEF SampleDocuments, At, Goto, TypeOK, Status, Ended, Allowed,
       Writes, DocOps, IndexOps, ReadOps
  <2>2. QED
    BY <1>6, <2>1
<1>get. CASE GetDocument(r)
  <2>1. Still /\ Moves
    BY <1>1, <1>3, <1>4, <1>5, <1>get DEF GetDocument, At, Goto, TypeOK, Status, Ended, Allowed,
       Writes, DocOps, IndexOps, ReadOps
  <2>2. QED
    BY <1>6, <2>1
<1>list. CASE ListDocuments(r)
  <2>1. Still /\ Moves
    BY <1>1, <1>3, <1>4, <1>5, <1>list DEF ListDocuments, At, Goto, TypeOK, Status, Ended, Allowed,
       Writes, DocOps, IndexOps, ReadOps
  <2>2. QED
    BY <1>6, <2>1
<1>25. QED
  BY <1>7, <1>8, <1>9, <1>10, <1>11, <1>12, <1>13, <1>14, <1>15, <1>16, <1>17, <1>18,
     <1>19, <1>20, <1>21, <1>22, <1>23, <1>24, <1>get, <1>list DEF Serve

\* Acknowledged writes and deletes of the HTTP API take effect as the register
\* says, for any number of concurrent requests, documents and operations.
THEOREM ApiImplementsRegister == Spec => ImplementsRegister
<1>1. ApiInv /\ [Next]_vars => RegisterNext
  <2> SUFFICES ASSUME ApiInv, [Next]_vars PROVE RegisterNext
    OBVIOUS
  <2>1. CASE UNCHANGED vars
    BY <2>1 DEF vars, RegisterNext, Request, Status, Doc
  <2>2. CASE Next
    <3>1. PICK r \in Requests : Serve(r)
      BY <2>2 DEF Next
    <3>2. QED
      BY <3>1, RegisterStep
  <2>3. QED
    BY <2>1, <2>2
<1>2. RegisterNext => [Register!Next]_<<rows, [r \in Requests |->
                           [kind |-> Kind(call[r].op), doc |-> Doc(r), status |-> Status(r)]],
                           overtaken>>
  BY DEF RegisterNext, Request
<1>3. QED
  BY <1>1, <1>2, RegisterInit, ApiInvariant, PTL
     DEF Spec, ImplementsRegister, Register!Spec

-----------------------------------------------------------------------------
(* Mappings before documents.                                              *)

\* The requests ConfiguredBeforeStored speaks of, and where they stand once
\* ensureFieldMappings has let them through.
Configuring == \A r \in Requests : call[r].op \in {"index", "mappings", "detect", "create"}
Past == {"select", "save", "config", "process", "read", "bump", "confirm", "ok"}

\* Such requests do not drop the index, and an entity that one of them read
\* after its mappings were ensured has mappings, so saving it leaves some.
Configured ==
    /\ exists
    /\ \A r \in Requests :
          /\ call[r].op = "index" => pc[r] # "find"
          /\ call[r].op = "index" /\ pc[r] \in Past => mappings # Empty
          /\ pc[r] = "bump" => copy[r] # Empty

\* What a step does to mappings: it writes some where it writes any, and lets
\* no document past them before there are some.
LEMMA MappingsStay ==
    ASSUME ApiInv, Configuring, Configured, NEW r \in Requests, Serve(r)
    PROVE  /\ exists'
           /\ mappings # Empty => mappings' # Empty
           /\ call[r].op = "index" => pc'[r] # "find"
           /\ call[r].op = "index" /\ pc'[r] \in Past => mappings' # Empty
           /\ pc'[r] = "bump" => copy'[r] # Empty
           /\ \A s \in Requests \ {r} : copy'[s] = copy[s]
<1> DEFINE op == call[r].op
<1>1. /\ TypeOK /\ Allowed(op, pc[r])
      /\ op \in {"index", "mappings", "detect", "create"}
      /\ exists /\ r # Empty
      /\ op = "index" => pc[r] # "find"
      /\ op = "index" /\ pc[r] \in Past => mappings # Empty
      /\ pc[r] = "bump" => copy[r] # Empty
  BY ApiAssumption DEF ApiInv, OpAt, Configuring, Configured
<1> USE DEF At, Goto, TypeOK, Past
<1>2. CASE Begin(r)
  BY <1>1, <1>2 DEF Begin
<1>3. CASE Check(r)
  BY <1>1, <1>3 DEF Check
<1>4. CASE EnsureFieldMappings(r)
  BY <1>1, <1>4 DEF EnsureFieldMappings, GetIndex, NoIndex
<1>5. CASE UpdateIndex(r)
  BY <1>1, <1>5 DEF UpdateIndex, GoneOr, Allowed, Writes, DocOps
<1>6. CASE FindDocument(r)
  BY <1>1, <1>6 DEF FindDocument, Allowed, Writes, DocOps
<1>7. CASE StoreSelect(r)
  BY <1>1, <1>7 DEF StoreSelect, Allowed, Writes, DocOps
<1>8. CASE StoreSave(r)
  BY <1>1, <1>8 DEF StoreSave, Allowed, Writes, DocOps
<1>9. CASE GetConfig(r)
  BY <1>1, <1>9 DEF GetConfig, Allowed, Writes, DocOps
<1>10. CASE StoreProcessedDocument(r)
  BY <1>1, <1>10 DEF StoreProcessedDocument, Allowed, Writes, DocOps
<1>11. CASE ReadMetadata(r)
  BY <1>1, <1>11 DEF ReadMetadata, Allowed, Writes, DocOps
<1>12. CASE SaveMetadata(r)
  BY <1>1, <1>12 DEF SaveMetadata, Allowed, Writes, DocOps
<1>13. CASE Confirm(r)
  BY <1>1, <1>13 DEF Confirm, Allowed, Writes, DocOps
<1>14. CASE DeleteDocument(r)
  BY <1>1, <1>14 DEF DeleteDocument, Allowed, Writes, DocOps
<1>15. CASE LookupProcessed(r)
  BY <1>1, <1>15 DEF LookupProcessed, Allowed, Writes, DocOps
<1>16. CASE RemoveDocument(r)
  BY <1>1, <1>16 DEF RemoveDocument, Allowed, Writes, DocOps
<1>17. CASE DeleteIndex(r)
  BY <1>1, <1>17 DEF DeleteIndex, Allowed, Writes, DocOps
<1>18. CASE CreateIndex(r)
  BY <1>1, <1>18 DEF CreateIndex, Allowed, Writes, DocOps
<1>19. CASE SampleDocuments(r)
  BY <1>1, <1>19 DEF SampleDocuments, Allowed, Writes, DocOps
<1>get. CASE GetDocument(r)
  BY <1>1, <1>get DEF GetDocument, Allowed, ReadOps
<1>list. CASE ListDocuments(r)
  BY <1>1, <1>list DEF ListDocuments, Allowed, ReadOps
<1>20. QED
  BY <1>2, <1>3, <1>4, <1>5, <1>6, <1>7, <1>8, <1>9, <1>10, <1>11, <1>12,
     <1>13, <1>14, <1>15, <1>16, <1>17, <1>18, <1>19, <1>get, <1>list DEF Serve

\* Documents are stored in an index that has mappings, for any number of
\* concurrent first uploads, detections and PUTs of mappings: what
\* ensureFieldMappings (document.service.ts:504) is for.
THEOREM MappingsComeFirst == Spec => []ConfiguredBeforeStored
<1> DEFINE Inv == Configuring => Configured
<1>1. Init => Inv
  BY DEF Init, Configured, Past
<1>2. ApiInv /\ Inv /\ [Next]_vars => Inv'
  <2> SUFFICES ASSUME ApiInv, Inv, [Next]_vars, Configuring' PROVE Configured'
    OBVIOUS
  <2>1. CASE UNCHANGED vars
    BY <2>1 DEF vars, Configuring, Configured
  <2>2. CASE Next
    <3>1. PICK r \in Requests : Serve(r)
      BY <2>2 DEF Next
    <3>2. PICK l \in Label : call' = call /\ Goto(r, l)
      BY <3>1, OneMoves DEF ApiInv
    <3>3. Configuring /\ Configured
      BY <3>2 DEF Configuring
    <3>4. \A s \in Requests \ {r} : pc'[s] = pc[s]
      BY <3>2 DEF Goto, ApiInv, TypeOK
    <3>5. QED
      BY <3>1, <3>2, <3>3, <3>4, MappingsStay DEF Configured
  <2>3. QED
    BY <2>1, <2>2
<1>3. Inv => ConfiguredBeforeStored
  BY DEF Configuring, Configured, Past, ConfiguredBeforeStored
<1>4. QED
  BY <1>1, <1>2, <1>3, ApiInvariant, PTL DEF Spec

=============================================================================
