----------------------------- MODULE StorageProofs -----------------------------
(***************************************************************************)
(* What requests leave behind in PostgreSQL, whatever else goes on: their  *)
(* transactions and the connections of the pool (ConnectionPool), the      *)
(* schema that processes make when they start (Startup), the mappings and  *)
(* weights of the fields of an index (FieldMappings).  The three share no  *)
(* variable and are three specifications; what the runs check of them for  *)
(* a few requests, connections, processes and samples is proved here for   *)
(* any number of each, any documents and any number of failures.           *)
(***************************************************************************)
EXTENDS ConnectionPool, Startup, FieldMappings,
        FiniteSetTheorems, SequenceTheorems, TLAPS

-------------------------------------------------------------------------------
(* ConnectionPool.  A connection is idle, or it is a request's query       *)
(* runner, or a request was given it for its next statement; a request     *)
(* that waits has neither been given one.  What a store changed lies in    *)
(* the transaction of its runner and nowhere else, so nobody but the store *)
(* commits it.                                                             *)

TxnState == [state : {"none", "open", "aborted"}, changes : SUBSET Requests]

PoolTypes ==
    /\ idle \in Seq(Conns)
    /\ waiting \in Seq(Requests)
    /\ held \in [Conns -> Requests \cup {Nobody}]
    /\ txn \in [Conns -> TxnState]
    /\ op \in [Requests -> Ops]
    /\ at \in [Requests -> Label]
    /\ runner \in [Requests -> Conns \cup {None}]
    /\ committed \subseteq Requests

\* The stack has each idle connection once.
IdleFree == IsInjective(idle) /\ \A c \in ToSet(idle) : held[c] = Nobody

\* The queue has each request once, and none that was given a connection.
WaitersNeed == IsInjective(waiting) /\ \A r \in ToSet(waiting) : Needs(r)

\* Statements of a store that its query runner is there for.
InTxn == {"save", "vector", "commit", "rollback"}

\* A store holds its runner from the start of its transaction to its end.
RunnerHeld ==
    \A r \in Requests :
        /\ runner[r] # None <=> at[r] \in InTxn
        /\ runner[r] # None => held[runner[r]] = r

\* A request is given one connection at a time, for a statement.
OneGiven ==
    /\ \A r \in Requests : \A c, d \in Conns : Given(r, c) /\ Given(r, d) => c = d
    /\ \A r \in Requests : \A c \in Conns :
          Given(r, c) => at[r] \in Pooled \cup {"leaked"}

\* Statements are those of the request's operation.
OpAt ==
    \A r \in Requests :
        /\ at[r] \in InTxn \cup {"connect", "leaked"} => op[r] = "store"
        /\ at[r] \in Pooled \ {"connect", "vector"} => op[r] # "store"

\* The transaction of a store is open until its COMMIT and has its change
\* once it has been saved; no other transaction has it.
StoreInTxn ==
    /\ \A r \in Requests : at[r] \in {"save", "vector", "commit"} => Open(runner[r])
    /\ \A r \in Requests : at[r] \in {"vector", "commit"} => r \in txn[runner[r]].changes
    /\ \A c \in Conns : \A r \in txn[c].changes : op[r] = "store" => runner[r] = c

\* What a store has committed is known from where it stands.
CommittedIsOk == \A r \in Requests : op[r] = "store" => (r \in committed <=> at[r] = "ok")

PoolInv == IdleFree /\ WaitersNeed /\ RunnerHeld /\ OneGiven
PoolIInv == PoolTypes /\ PoolInv /\ OpAt /\ StoreInTxn /\ CommittedIsOk

-------------------------------------------------------------------------------
\* The pool starts with every connection on the stack, once.
LEMMA AllIdle == SetToSeq(Conns) \in Seq(Conns) /\ IsInjective(SetToSeq(Conns))
<1> DEFINE n == Cardinality(Conns)
<1>1. n \in Nat /\ ExistsBijection(1..n, Conns)
  BY FS_CardinalityType, PoolAssumption
<1>2. PICK f \in Bijection(1..n, Conns) : TRUE
  BY <1>1 DEF ExistsBijection
<1>3. f \in [1..n -> Conns] /\ IsInjective(f)
  BY <1>2, Zenon DEF Bijection, Injection
<1>4. SetToSeq(Conns) \in [1..n -> Conns] /\ IsInjective(SetToSeq(Conns))
  BY <1>3 DEF SetToSeq
<1> QED  BY <1>1, <1>4

LEMMA InitPoolIInv == Init => PoolIInv
<1> SUFFICES ASSUME Init PROVE PoolIInv
  OBVIOUS
<1>1. idle \in Seq(Conns) /\ IsInjective(idle)
  BY AllIdle DEF Init
<1>2. \A r \in Requests :
        /\ at[r] \in {"connect", "query", "BEGIN"}
        /\ at[r] = "connect" <=> op[r] = "store"
  BY PoolAssumption DEF Init
<1>3. \A c \in Conns : held[c] = Nobody /\ txn[c] = NoTxn
  BY DEF Init
<1>4. \A r \in Requests : runner[r] = None /\ \A c \in Conns : ~Given(r, c)
  BY <1>3, PoolAssumption DEF Init, Given
<1>5. at \in [Requests -> Label]
  BY <1>2 DEF Init, Label, Pooled
<1>6. PoolTypes
  BY <1>1, <1>5 DEF Init, PoolTypes, NoTxn, TxnState
<1>7. IdleFree
  BY <1>1, <1>3 DEF IdleFree, ToSet
<1>8. WaitersNeed
  BY DEF Init, WaitersNeed, IsInjective, ToSet
<1>9. RunnerHeld /\ OneGiven /\ OpAt
  BY <1>2, <1>4 DEF RunnerHeld, OneGiven, OpAt, InTxn, Pooled
<1>10. StoreInTxn
  BY <1>2, <1>3 DEF StoreInTxn, NoTxn
<1>11. CommittedIsOk
  BY <1>2 DEF Init, CommittedIsOk
<1> QED  BY <1>6, <1>7, <1>8, <1>9, <1>10, <1>11 DEF PoolIInv, PoolInv

-------------------------------------------------------------------------------
(* Sequences whose elements are all different.                             *)

LEMMA AppendOnce ==
    ASSUME NEW S, NEW s \in Seq(S), NEW e \in S, IsInjective(s), e \notin ToSet(s)
    PROVE  /\ Append(s, e) \in Seq(S)
           /\ IsInjective(Append(s, e))
           /\ ToSet(Append(s, e)) = ToSet(s) \cup {e}
<1> DEFINE t == Append(s, e)
<1>1. /\ t \in Seq(S) /\ DOMAIN t = 1 .. Len(s) + 1
      /\ Len(s) \in Nat /\ DOMAIN s = 1 .. Len(s)
      /\ t[Len(s) + 1] = e /\ \A i \in 1 .. Len(s) : t[i] = s[i]
  OBVIOUS
<1>2. \A i \in DOMAIN t : i = Len(s) + 1 \/ i \in DOMAIN s
  BY <1>1
<1>3. IsInjective(t)
  BY <1>1, <1>2 DEF IsInjective, ToSet
<1>4. ToSet(t) = ToSet(s) \cup {e}
  BY <1>1, <1>2 DEF ToSet
<1> QED  BY <1>1, <1>3, <1>4

LEMMA TailOnce ==
    ASSUME NEW S, NEW s \in Seq(S), IsInjective(s), s # <<>>
    PROVE  /\ Head(s) \in ToSet(s)
           /\ Tail(s) \in Seq(S)
           /\ IsInjective(Tail(s))
           /\ ToSet(Tail(s)) = ToSet(s) \ {Head(s)}
<1> DEFINE t == Tail(s)
<1>1. /\ t \in Seq(S) /\ DOMAIN t = 1 .. Len(s) - 1 /\ DOMAIN s = 1 .. Len(s)
      /\ Len(s) \in Nat \ {0} /\ Head(s) = s[1] /\ \A i \in DOMAIN t : t[i] = s[i + 1]
  OBVIOUS
<1>2. /\ \A i \in DOMAIN t : i + 1 \in DOMAIN s /\ i + 1 # 1
      /\ \A i \in DOMAIN s \ {1} : i - 1 \in DOMAIN t /\ i = (i - 1) + 1
  BY <1>1
<1>3. IsInjective(t)
  BY <1>1, <1>2 DEF IsInjective
<1>4. ToSet(t) \subseteq ToSet(s) \ {Head(s)}
  BY <1>1, <1>2 DEF IsInjective, ToSet
<1>5. ToSet(s) \ {Head(s)} \subseteq ToSet(t)
  <2> SUFFICES ASSUME NEW i \in DOMAIN s, s[i] # Head(s)
               PROVE  s[i] \in ToSet(t)
    BY DEF ToSet
  <2>1. i - 1 \in DOMAIN t /\ t[i - 1] = s[i]
    BY <1>1, <1>2
  <2> QED  BY <2>1 DEF ToSet
<1>6. Head(s) \in ToSet(s)
  <2>1. 1 \in DOMAIN s
    BY <1>1
  <2> QED  BY <1>1, <2>1 DEF ToSet
<1> QED  BY <1>1, <1>3, <1>4, <1>5, <1>6

LEMMA FrontOnce ==
    ASSUME NEW S, NEW s \in Seq(S), IsInjective(s), s # <<>>
    PROVE  /\ Last(s) \in ToSet(s) /\ Last(s) \in S
           /\ Front(s) \in Seq(S)
           /\ IsInjective(Front(s))
           /\ ToSet(Front(s)) = ToSet(s) \ {Last(s)}
<1> DEFINE t == Front(s)
<1>1. Len(s) \in Nat \ {0} /\ DOMAIN s = 1 .. Len(s) /\ Last(s) = s[Len(s)] /\ Last(s) \in S
  BY DEF Last
<1>2. /\ t \in Seq(S) /\ DOMAIN t = 1 .. Len(s) - 1
      /\ \A i \in 1 .. Len(s) - 1 : t[i] = s[i]
  BY <1>1 DEF Front
<1>3. DOMAIN t = DOMAIN s \ {Len(s)} /\ \A i \in DOMAIN t : t[i] = s[i]
  BY <1>1, <1>2
<1>4. IsInjective(t)
  BY <1>3 DEF IsInjective
<1>5. Len(s) \in DOMAIN s /\ Last(s) \in ToSet(s)
  <2>1. Len(s) \in DOMAIN s
    BY <1>1
  <2> QED  BY <1>1, <2>1 DEF ToSet
<1>6. ToSet(t) = ToSet(s) \ {Last(s)}
  BY <1>1, <1>3, <1>5 DEF IsInjective, ToSet
<1> QED  BY <1>1, <1>2, <1>4, <1>5, <1>6

-------------------------------------------------------------------------------
(* The pool.                                                               *)

PoolTyped ==
    /\ idle \in Seq(Conns)
    /\ waiting \in Seq(Requests)
    /\ held \in [Conns -> Requests \cup {Nobody}]
    /\ at \in [Requests -> Label]
    /\ runner \in [Requests -> Conns \cup {None}]

\* A connection that a request holds is nobody else's.
LEMMA SoleUser ==
    ASSUME PoolTypes, PoolInv, NEW r \in Requests, NEW c \in Conns, held[c] = r
    PROVE  /\ \A s \in Requests \ {r} : runner[s] # c /\ ~Given(s, c)
           /\ c \notin ToSet(idle)
  BY PoolAssumption DEF PoolTypes, PoolInv, RunnerHeld, IdleFree, Given

\* A request that was given a connection, or whose statement needs none, does
\* not wait.
LEMMA NotWaiting ==
    ASSUME PoolTypes, PoolInv, NEW r \in Requests,
           at[r] \notin Pooled \/ \E c \in Conns : Given(r, c)
    PROVE  r \notin ToSet(waiting)
  BY DEF PoolInv, WaitersNeed, Needs

\* Nobody but r moves, and r does not wait: who waits still needs a connection.
LEMMA StillNeeding ==
    ASSUME PoolTypes, PoolInv, NEW r \in Requests, r \notin ToSet(waiting),
           \A s \in Requests \ {r} : at'[s] = at[s],
           ToSet(waiting') \subseteq ToSet(waiting),
           \A s \in ToSet(waiting') : \A c \in Conns : Given(s, c)' => Given(s, c)
    PROVE  \A s \in ToSet(waiting') : Needs(s)'
<1>1. ToSet(waiting) \subseteq Requests
  BY DEF PoolTypes, ToSet
<1> QED  BY <1>1 DEF PoolInv, WaitersNeed, Needs

\* A statement is over and its connection is released: the one it was given, or
\* the runner (GenerateSearchVector, CommitTransaction, the queries).
LEMMA Releasing ==
    ASSUME PoolTypes, PoolInv, NEW r \in Requests, NEW c \in Conns, Release(c),
           NEW l \in Label, at' = [at EXCEPT ![r] = l],
           \/ /\ Given(r, c) /\ UNCHANGED runner
              /\ l \in InTxn <=> runner[r] # None
           \/ /\ at[r] \in InTxn \ Pooled /\ c = runner[r]
              /\ runner' = [runner EXCEPT ![r] = None] /\ l \notin InTxn
    PROVE  PoolTyped' /\ PoolInv'
<1> USE PoolAssumption
<1>1. held[c] = r
  BY DEF Given, PoolTypes, PoolInv, RunnerHeld, InTxn
<1>2. /\ \A s \in Requests \ {r} : runner[s] # c /\ ~Given(s, c)
      /\ c \notin ToSet(idle)
  BY <1>1, SoleUser
<1>3. r \notin ToSet(waiting)
  BY NotWaiting
<1>4. \A d \in Conns : Given(r, d) => d = c
  BY DEF PoolInv, OneGiven, Pooled, InTxn
<1>5. runner' \in [Requests -> Conns \cup {None}] /\ at' \in [Requests -> Label]
  BY DEF PoolTypes
<1>6. \A s \in Requests \ {r} : runner'[s] = runner[s] /\ at'[s] = at[s]
  BY DEF PoolTypes
<1>7. /\ at'[r] = l /\ runner'[r] # c
      /\ runner'[r] # None <=> l \in InTxn
      /\ runner'[r] # None => runner'[r] = runner[r]
  BY DEF PoolTypes, Given
<1>8. ASSUME NEW u \in (Requests \cup {Nobody}) \ {r}, held' = [held EXCEPT ![c] = u]
      PROVE  /\ held' \in [Conns -> Requests \cup {Nobody}]
             /\ \A s \in Requests : \A d \in Conns :
                   Given(s, d)' => s # r /\ (Given(s, d) \/ (s = u /\ d = c))
             /\ RunnerHeld'
  <2>1. held' \in [Conns -> Requests \cup {Nobody}] /\ held'[c] = u
        /\ \A d \in Conns \ {c} : held'[d] = held[d]
    BY <1>8 DEF PoolTypes
  <2>2. \A s \in Requests : \A d \in Conns :
            Given(s, d)' => s # r /\ (Given(s, d) \/ (s = u /\ d = c))
    BY <1>4, <1>6, <1>7, <2>1 DEF Given
  <2>3. \A s \in Requests \ {r} : runner[s] # None => held'[runner[s]] = s
    BY <1>2, <2>1 DEF PoolTypes, PoolInv, RunnerHeld
  <2>4. runner'[r] # None => held'[runner'[r]] = r
    BY <1>7, <2>1 DEF PoolTypes, PoolInv, RunnerHeld
  <2>5. RunnerHeld'
    BY <1>6, <1>7, <2>3, <2>4 DEF PoolInv, RunnerHeld
  <2> QED  BY <2>1, <2>2, <2>5
<1>9. CASE waiting = <<>>
  <2>1. held' = [held EXCEPT ![c] = Nobody] /\ idle' = Append(idle, c) /\ UNCHANGED waiting
    BY <1>9 DEF Release
  <2>2. /\ held' \in [Conns -> Requests \cup {Nobody}] /\ RunnerHeld'
        /\ \A s \in Requests : \A d \in Conns : Given(s, d)' => s # r /\ Given(s, d)
    BY <1>8, <2>1
  <2>3. idle' \in Seq(Conns) /\ IsInjective(idle') /\ ToSet(idle') = ToSet(idle) \cup {c}
    BY <1>2, <2>1, AppendOnce DEF PoolTypes, PoolInv, IdleFree
  <2>4. IdleFree'
    BY <2>1, <2>3 DEF PoolTypes, PoolInv, IdleFree
  <2>5. WaitersNeed'
    BY <1>3, <1>6, <2>1, <2>2, StillNeeding DEF PoolInv, WaitersNeed, PoolTypes, ToSet
  <2>6. OneGiven'
    BY <1>6, <2>2 DEF PoolInv, OneGiven
  <2> QED  BY <1>5, <2>1, <2>2, <2>3, <2>4, <2>5, <2>6 DEF PoolInv, PoolTyped, PoolTypes
<1>10. CASE waiting # <<>>
  <2> DEFINE h == Head(waiting)
  <2>1. /\ h \in ToSet(waiting) /\ waiting' \in Seq(Requests) /\ IsInjective(waiting')
        /\ ToSet(waiting') = ToSet(waiting) \ {h} /\ ToSet(waiting) \subseteq Requests
        /\ held' = [held EXCEPT ![c] = h] /\ UNCHANGED idle
    <3>1. held' = [held EXCEPT ![c] = h] /\ waiting' = Tail(waiting) /\ UNCHANGED idle
      BY <1>10 DEF Release
    <3>2. ToSet(waiting) \subseteq Requests
      BY DEF PoolTypes, ToSet
    <3> QED  BY <1>10, <3>1, <3>2, TailOnce DEF PoolTypes, PoolInv, WaitersNeed
  <2>2. h \in Requests \ {r} /\ Needs(h)
    BY <1>3, <2>1 DEF PoolInv, WaitersNeed
  <2>3. /\ held' \in [Conns -> Requests \cup {Nobody}] /\ RunnerHeld'
        /\ \A s \in Requests : \A d \in Conns :
              Given(s, d)' => s # r /\ (Given(s, d) \/ (s = h /\ d = c))
    BY <1>8, <2>1, <2>2
  <2>4. IdleFree'
    BY <1>2, <2>1 DEF PoolTypes, PoolInv, IdleFree
  <2>5. WaitersNeed'
    BY <1>3, <1>6, <2>1, <2>3, StillNeeding DEF WaitersNeed
  <2>6. OneGiven'
    <3>1. at[h] \in Pooled /\ \A d \in Conns : ~Given(h, d)
      BY <2>2 DEF Needs
    <3> QED  BY <1>6, <2>2, <2>3, <3>1 DEF PoolInv, OneGiven
  <2> QED  BY <1>5, <2>1, <2>3, <2>4, <2>5, <2>6 DEF PoolInv, PoolTyped, PoolTypes
<1> QED  BY <1>9, <1>10

\* A statement that keeps its connection (StartTransaction, Save, a COMMIT that
\* fails).
LEMMA Keeping ==
    ASSUME PoolTypes, PoolInv, NEW r \in Requests, UNCHANGED poolVars,
           NEW l \in Label, at' = [at EXCEPT ![r] = l],
           \/ at[r] \in InTxn \ Pooled /\ l \in InTxn /\ UNCHANGED runner
           \/ at[r] = "connect" /\ l = "leaked" /\ UNCHANGED runner
              /\ \E c \in Conns : Given(r, c)
           \/ at[r] = "connect" /\ l = "save"
              /\ \E c \in Conns : Given(r, c) /\ runner' = [runner EXCEPT ![r] = c]
    PROVE  PoolTyped' /\ PoolInv'
<1> USE PoolAssumption
<1>1. r \notin ToSet(waiting)
  BY NotWaiting
<1>2. UNCHANGED <<idle, waiting, held>>
  BY DEF poolVars
<1>3. \A s \in Requests \ {r} : runner'[s] = runner[s] /\ at'[s] = at[s]
  BY DEF PoolTypes
<1>4. PoolTyped'
  BY <1>2 DEF PoolTypes, PoolTyped
<1>5. IdleFree'
  BY <1>2 DEF PoolInv, IdleFree
<1>6. \A s \in Requests : \A d \in Conns : Given(s, d)' => Given(s, d)
  BY <1>2, <1>3 DEF PoolTypes, Given, PoolInv, RunnerHeld, InTxn
<1>7. WaitersNeed'
  <2>1. \A s \in ToSet(waiting') : s \in Requests
    BY <1>2 DEF PoolTypes, ToSet
  <2> QED  BY <1>1, <1>2, <1>3, <1>6, <2>1, StillNeeding DEF PoolInv, WaitersNeed
<1>8. RunnerHeld'
  <2>1. /\ runner'[r] # None <=> at'[r] \in InTxn
        /\ runner'[r] # None => held[runner'[r]] = r
    BY DEF PoolTypes, Given, PoolInv, RunnerHeld, InTxn
  <2> QED  BY <1>2, <1>3, <2>1 DEF PoolInv, RunnerHeld
<1>9. OneGiven'
  <2>1. \A d \in Conns : Given(r, d)' => at'[r] \in Pooled \cup {"leaked"}
    BY <1>2, <1>6 DEF PoolTypes, Given, PoolInv, OneGiven, InTxn, Pooled
  <2> QED  BY <1>3, <1>6, <2>1 DEF PoolInv, OneGiven
<1> QED  BY <1>4, <1>5, <1>7, <1>8, <1>9 DEF PoolInv

LEMMA Acquiring ==
    ASSUME PoolTypes, PoolInv, NEW r \in Requests, Acquire(r)
    PROVE  PoolTyped' /\ PoolInv'
<1> USE PoolAssumption
<1>1. Needs(r) /\ UNCHANGED <<at, runner>> /\ r \notin ToSet(waiting)
  BY DEF Acquire, ToSet
<1>2. CASE idle = <<>>
  <2>1. waiting' = Append(waiting, r) /\ UNCHANGED <<idle, held>>
    BY <1>2 DEF Acquire
  <2>2. /\ waiting' \in Seq(Requests) /\ IsInjective(waiting')
        /\ ToSet(waiting') = ToSet(waiting) \cup {r}
    BY <1>1, <2>1, AppendOnce DEF PoolTypes, PoolInv, WaitersNeed
  <2>3. WaitersNeed'
    BY <1>1, <2>1, <2>2 DEF PoolInv, WaitersNeed, Needs, Given
  <2> QED  BY <1>1, <2>1, <2>2, <2>3
           DEF PoolTypes, PoolTyped, PoolInv, IdleFree, RunnerHeld, OneGiven, Given
<1>3. CASE idle # <<>>
  <2> DEFINE c == Last(idle)
  <2>1. held' = [held EXCEPT ![c] = r] /\ idle' = Front(idle) /\ UNCHANGED waiting
    BY <1>3 DEF Acquire
  <2>2. /\ c \in ToSet(idle) /\ c \in Conns /\ idle' \in Seq(Conns) /\ IsInjective(idle')
        /\ ToSet(idle') = ToSet(idle) \ {c} /\ ToSet(idle) \subseteq Conns
    <3>1. ToSet(idle) \subseteq Conns
      BY DEF PoolTypes, ToSet
    <3> QED  BY <1>3, <2>1, <3>1, FrontOnce DEF PoolTypes, PoolInv, IdleFree
  <2>3. /\ held[c] = Nobody /\ held' \in [Conns -> Requests \cup {Nobody}] /\ held'[c] = r
        /\ \A d \in Conns \ {c} : held'[d] = held[d]
    BY <2>1, <2>2 DEF PoolTypes, PoolInv, IdleFree
  <2>4. IdleFree'
    BY <2>2, <2>3 DEF PoolInv, IdleFree
  <2>5. \A s \in Requests : \A d \in Conns : Given(s, d)' => Given(s, d) \/ (s = r /\ d = c)
    BY <1>1, <2>3 DEF Given
  <2>6. WaitersNeed'
    BY <1>1, <2>1, <2>5, StillNeeding DEF PoolTypes, PoolInv, WaitersNeed, ToSet
  <2>7. RunnerHeld'
    BY <1>1, <2>3 DEF PoolTypes, PoolInv, RunnerHeld
  <2>8. OneGiven'
    BY <1>1, <2>5 DEF PoolInv, OneGiven, Needs
  <2> QED  BY <1>1, <2>1, <2>2, <2>3, <2>4, <2>6, <2>7, <2>8 DEF PoolTypes, PoolTyped, PoolInv
<1> QED  BY <1>2, <1>3

-------------------------------------------------------------------------------
(* The transactions.                                                       *)

TxnTyped == txn \in [Conns -> TxnState] /\ committed \subseteq Requests
TxnInv == TxnTyped /\ OpAt /\ StoreInTxn /\ CommittedIsOk

\* What is done on c leaves the changes of stores alone.
SparesStores(c) ==
    /\ txn' \in [Conns -> TxnState]
    /\ \A d \in Conns \ {c} : txn'[d] = txn[d]
    /\ committed \subseteq committed' /\ committed' \subseteq Requests
    /\ \A s \in txn'[c].changes \cup (committed' \ committed) : op[s] # "store"

\* A connection that was given for one statement is no store's runner, so its
\* transaction has no store's change.
LEMMA GivenHasNoStore ==
    ASSUME PoolIInv, NEW r \in Requests, NEW c \in Conns, Given(r, c)
    PROVE  /\ txn[c] \in TxnState
           /\ \A s \in txn[c].changes : s \in Requests /\ op[s] # "store"
           /\ \A s \in Requests : runner[s] # c
<1>1. txn[c] \in TxnState
  BY DEF PoolIInv, PoolTypes
<1>2. \A s \in Requests : runner[s] # c
  BY SoleUser DEF PoolIInv, Given
<1>3. \A s \in txn[c].changes : s \in Requests /\ op[s] # "store"
  BY <1>1, <1>2 DEF PoolIInv, StoreInTxn, TxnState
<1> QED  BY <1>1, <1>2, <1>3

\* Whatever is sent on a connection that was given for one statement spares the
\* changes of stores, a store's own change being made on its runner.
LEMMA GivenSparesStores ==
    ASSUME PoolIInv, NEW r \in Requests, NEW c \in Conns, Given(r, c),
           \/ Begin(c) \/ End(c) \/ Undo(c) \/ Abort(c)
           \/ op[r] # "store" /\ Change(r, c)
           \/ UNCHANGED <<txn, committed>>
    PROVE  SparesStores(c)
<1>1. /\ txn \in [Conns -> TxnState] /\ txn[c] \in TxnState /\ committed \subseteq Requests
      /\ \A s \in txn[c].changes : s \in Requests /\ op[s] # "store"
  BY GivenHasNoStore DEF PoolIInv, PoolTypes
<1>3. NoTxn \in TxnState /\ NoTxn.changes = {}
  BY DEF NoTxn, TxnState
<1>4. CASE Begin(c)
  <2>1. [txn[c] EXCEPT !.state = "open"] \in TxnState
        /\ [txn[c] EXCEPT !.state = "open"].changes = txn[c].changes
    BY <1>1 DEF TxnState
  <2>2. txn' \in [Conns -> TxnState] /\ (\A d \in Conns \ {c} : txn'[d] = txn[d])
        /\ txn'[c].changes = txn[c].changes
    BY <1>1, <1>4, <2>1 DEF Begin
  <2> QED  BY <1>1, <1>4, <2>2 DEF Begin, SparesStores
<1>5. CASE End(c)
  <2>1. txn' \in [Conns -> TxnState] /\ (\A d \in Conns \ {c} : txn'[d] = txn[d])
        /\ txn'[c].changes = {}
    BY <1>1, <1>3, <1>5 DEF End
  <2>2. committed' = committed \cup (IF Open(c) THEN txn[c].changes ELSE {})
    BY <1>5 DEF End
  <2> QED  BY <1>1, <2>1, <2>2 DEF SparesStores
<1>6. CASE Undo(c)
  <2>1. txn' \in [Conns -> TxnState] /\ (\A d \in Conns \ {c} : txn'[d] = txn[d])
        /\ txn'[c].changes = {}
    BY <1>1, <1>3, <1>6 DEF Undo
  <2> QED  BY <1>1, <1>6, <2>1 DEF Undo, SparesStores
<1>7. CASE Abort(c)
  <2>1. [state |-> "aborted", changes |-> {}] \in TxnState
    BY DEF TxnState
  <2>2. txn' \in [Conns -> TxnState] /\ (\A d \in Conns \ {c} : txn'[d] = txn[d])
        /\ txn'[c].changes \subseteq txn[c].changes
    BY <1>1, <1>7, <2>1 DEF Abort
  <2> QED  BY <1>1, <1>7, <2>2 DEF Abort, SparesStores
<1>8. CASE op[r] # "store" /\ Change(r, c)
  <2>1. CASE Open(c)
    <3>1. [txn[c] EXCEPT !.changes = @ \cup {r}] \in TxnState
          /\ [txn[c] EXCEPT !.changes = @ \cup {r}].changes = txn[c].changes \cup {r}
      BY <1>1 DEF TxnState
    <3>2. txn' = [txn EXCEPT ![c].changes = @ \cup {r}] /\ UNCHANGED committed
      BY <1>8, <2>1 DEF Change
    <3>3. txn' \in [Conns -> TxnState] /\ (\A d \in Conns \ {c} : txn'[d] = txn[d])
          /\ txn'[c].changes = txn[c].changes \cup {r}
      BY <1>1, <3>1, <3>2
    <3> QED  BY <1>1, <1>8, <3>2, <3>3 DEF SparesStores
  <2>2. CASE ~Open(c)
    BY <1>1, <1>8, <2>2 DEF Change, SparesStores
  <2> QED  BY <2>1, <2>2
<1>9. CASE UNCHANGED <<txn, committed>>
  BY <1>1, <1>9 DEF SparesStores
<1> QED  BY <1>4, <1>5, <1>6, <1>7, <1>8, <1>9

\* A statement on a given connection: of a request that is no store, the query
\* of a store's vector, or a transaction that could not be started.
LEMMA SparingTxnInv ==
    ASSUME PoolIInv, NEW r \in Requests, NEW c \in Conns, Given(r, c), SparesStores(c),
           UNCHANGED <<op, runner>>, NEW l \in Label, at' = [at EXCEPT ![r] = l],
           \/ op[r] # "store" /\ l \in (Pooled \ {"connect", "vector"}) \cup {"ok", "failed"}
           \/ at[r] = "vector" /\ l \in {"commit", "rollback"}
           \/ at[r] = "connect" /\ l = "leaked"
    PROVE  TxnInv'
<1>1. /\ committed \subseteq committed' /\ committed' \subseteq Requests
      /\ \A s \in txn'[c].changes \cup (committed' \ committed) : op[s] # "store"
  BY DEF SparesStores
<1>2. /\ txn' \in [Conns -> TxnState]
      /\ \A d \in Conns \ {c} : txn'[d] = txn[d]
  BY DEF SparesStores
<1>3. at'[r] = l /\ \A s \in Requests \ {r} : at'[s] = at[s]
  BY DEF PoolIInv, PoolTypes
<1>4. TxnTyped'
  BY <1>1, <1>2 DEF PoolIInv, PoolTypes, TxnTyped
<1>5. OpAt'
  <2>1. op[r] = "store" => at[r] \in {"vector", "connect"}
    OBVIOUS
  <2>2. /\ at'[r] \in InTxn \cup {"connect", "leaked"} => op[r] = "store"
        /\ at'[r] \in Pooled \ {"connect", "vector"} => op[r] # "store"
    BY <1>3 DEF PoolIInv, OpAt, InTxn, Pooled
  <2> QED  BY <1>3, <2>2 DEF PoolIInv, OpAt
<1>6. StoreInTxn'
  <2>1. \A s \in Requests : runner[s] # c
    BY GivenHasNoStore
  <2>2. \A s \in Requests : runner[s] # None => runner[s] \in Conns \ {c}
    BY <2>1 DEF PoolIInv, PoolTypes
  <2>3. \A s \in Requests : at'[s] \in {"save", "vector", "commit"} =>
            /\ at[s] = at'[s] \/ (at[s] = "vector" /\ at'[s] = "commit")
            /\ runner[s] \in Conns \ {c}
    BY <1>3, <2>2 DEF PoolIInv, PoolInv, RunnerHeld, InTxn, Pooled
  <2>4. \A s \in Requests : at'[s] \in {"save", "vector", "commit"} => Open(runner[s])'
    BY <1>2, <2>3 DEF PoolIInv, StoreInTxn, Open
  <2>5. \A s \in Requests : at'[s] \in {"vector", "commit"} => s \in txn'[runner[s]].changes
    BY <1>2, <2>3 DEF PoolIInv, StoreInTxn
  <2>6. \A d \in Conns : \A s \in txn'[d].changes : op[s] = "store" => runner[s] = d
    BY <1>1, <1>2 DEF PoolIInv, StoreInTxn
  <2> QED  BY <2>4, <2>5, <2>6 DEF StoreInTxn, Open
<1>7. CommittedIsOk'
  <2>1. \A s \in Requests : op[s] = "store" => (at'[s] = "ok" <=> at[s] = "ok")
    BY <1>3
  <2> QED  BY <1>1, <2>1 DEF PoolIInv, CommittedIsOk
<1> QED  BY <1>4, <1>5, <1>6, <1>7 DEF TxnInv

\* What a store does on its own runner r = runner[s] to itself alone: others'
\* changes in that transaction are no stores'.
LEMMA RunnerIsOwn ==
    ASSUME PoolIInv, NEW r \in Requests, runner[r] # None
    PROVE  /\ runner[r] \in Conns /\ op[r] = "store" /\ txn[runner[r]] \in TxnState
           /\ \A s \in Requests \ {r} : runner[s] # runner[r]
           /\ \A s \in txn[runner[r]].changes \ {r} : s \in Requests /\ op[s] # "store"
<1>1. runner[r] \in Conns /\ held[runner[r]] = r /\ at[r] \in InTxn
  BY DEF PoolIInv, PoolTypes, PoolInv, RunnerHeld
<1>2. op[r] = "store"
  BY <1>1 DEF PoolIInv, OpAt
<1>3. \A s \in Requests \ {r} : runner[s] # runner[r]
  BY <1>1, SoleUser DEF PoolIInv
<1>4. txn[runner[r]] \in TxnState
  BY <1>1 DEF PoolIInv, PoolTypes
<1>5. \A s \in txn[runner[r]].changes \ {r} : s \in Requests /\ op[s] # "store"
  BY <1>1, <1>3, <1>4 DEF PoolIInv, StoreInTxn, TxnState
<1> QED  BY <1>1, <1>2, <1>3, <1>4, <1>5

\* A statement on the runner of a store: the store's change is in its
\* transaction while it stands behind the save, and committed when it is "ok".
LEMMA RunnerTxnInv ==
    ASSUME PoolIInv, NEW r \in Requests, NEW c \in Conns, NEW l \in Label,
           at' = [at EXCEPT ![r] = l], UNCHANGED op,
           \/ /\ runner[r] = c /\ UNCHANGED runner /\ l \in InTxn
              /\ UNCHANGED committed
           \/ /\ runner[r] = c /\ runner' = [runner EXCEPT ![r] = None]
              /\ txn'[c].changes = {}
              /\ l \in {"ok", "failed"}
              /\ committed' = committed \cup (IF l = "ok" THEN txn[c].changes ELSE {})
              /\ l = "ok" => r \in txn[c].changes
           \/ /\ Given(r, c) /\ at[r] = "connect" /\ runner' = [runner EXCEPT ![r] = c]
              /\ l = "save" /\ UNCHANGED committed,
           txn' \in [Conns -> TxnState],
           \A d \in Conns \ {c} : txn'[d] = txn[d],
           txn'[c].changes \subseteq txn[c].changes \cup {r},
           l \in {"save", "vector", "commit"} => Open(c)',
           l \in {"vector", "commit"} => r \in txn'[c].changes
    PROVE  TxnInv'
<1> USE PoolAssumption
<1>1. /\ op[r] = "store" /\ txn[c] \in TxnState
      /\ \A s \in Requests \ {r} : runner[s] # c
      /\ \A s \in txn[c].changes \ {r} : s \in Requests /\ op[s] # "store"
  <2>1. CASE runner[r] = c
    BY <2>1, RunnerIsOwn
  <2>2. CASE Given(r, c) /\ at[r] = "connect"
    BY <2>2, GivenHasNoStore DEF PoolIInv, OpAt
  <2> QED  BY <2>1, <2>2
<1>2. /\ at'[r] = l /\ at' \in [Requests -> Label]
      /\ \A s \in Requests \ {r} : at'[s] = at[s] /\ runner'[s] = runner[s]
  BY DEF PoolIInv, PoolTypes
<1>3. TxnTyped'
  BY <1>1 DEF PoolIInv, PoolTypes, TxnTyped, TxnState
<1>4. OpAt'
  <2>1. at'[r] \notin Pooled \ {"connect", "vector"}
    BY <1>2 DEF InTxn, Pooled
  <2> QED  BY <1>1, <1>2, <2>1 DEF PoolIInv, OpAt
<1>5. StoreInTxn'
  <2>1. \A s \in Requests \ {r} : runner[s] # None => runner[s] \in Conns \ {c}
    BY <1>1 DEF PoolIInv, PoolTypes
  <2>2. \A s \in Requests \ {r} : at[s] \in InTxn =>
            runner'[s] = runner[s] /\ runner[s] \in Conns \ {c}
    BY <1>2, <2>1 DEF PoolIInv, PoolInv, RunnerHeld
  <2>3. l \in InTxn => runner'[r] = c
    BY DEF PoolIInv, PoolTypes, InTxn
  <2>4. \A s \in Requests : at'[s] \in {"save", "vector", "commit"} => Open(runner[s])'
    BY <1>2, <2>2, <2>3 DEF PoolIInv, StoreInTxn, Open, InTxn
  <2>5. \A s \in Requests : at'[s] \in {"vector", "commit"} => s \in txn'[runner'[s]].changes
    BY <1>2, <2>2, <2>3 DEF PoolIInv, StoreInTxn, InTxn
  <2>6. \A d \in Conns : \A s \in txn'[d].changes : op[s] = "store" => runner'[s] = d
    <3>1. ASSUME NEW d \in Conns \ {c}, NEW s \in txn'[d].changes, op[s] = "store"
          PROVE  runner'[s] = d
      <4>1. s \in Requests /\ runner[s] = d
        BY <3>1 DEF PoolIInv, PoolTypes, TxnState, StoreInTxn
      <4>2. s # r
        BY <4>1, <3>1 DEF Given, PoolIInv, PoolInv, RunnerHeld, InTxn, PoolTypes
      <4> QED  BY <1>2, <4>1, <4>2
    <3>2. ASSUME NEW s \in txn'[c].changes, op[s] = "store"
          PROVE  runner'[s] = c
      <4>1. s = r
        BY <1>1, <3>2
      <4>2. l \in InTxn
        BY <3>2 DEF InTxn
      <4> QED  BY <2>3, <4>1, <4>2
    <3> QED  BY <3>1, <3>2
  <2> QED  BY <2>4, <2>5, <2>6 DEF StoreInTxn, Open
<1>6. CommittedIsOk'
  <2>1. \A s \in committed' \ committed : s = r \/ op[s] # "store"
    BY <1>1
  <2>2. at[r] # "ok" /\ r \notin committed
    BY <1>1 DEF PoolIInv, PoolInv, RunnerHeld, InTxn, CommittedIsOk
  <2>3. r \in committed' <=> l = "ok"
    BY <1>1, <2>2 DEF InTxn
  <2> QED  BY <1>2, <2>1, <2>3 DEF PoolIInv, CommittedIsOk
<1> QED  BY <1>3, <1>4, <1>5, <1>6 DEF TxnInv

-------------------------------------------------------------------------------
(* The requests.                                                           *)

LEMMA Assembled ==
    ASSUME PoolIInv, UNCHANGED op, PoolTyped', PoolInv', TxnInv'
    PROVE  PoolIInv'
  BY DEF PoolIInv, PoolTypes, PoolTyped, TxnTyped, TxnInv

\* One statement of dataSource.query on a connection that is released with its
\* answer.
LEMMA QueryIInv ==
    ASSUME PoolIInv, NEW r \in Requests, NEW c \in Conns, Given(r, c), Release(c),
           UNCHANGED <<op, runner>>, NEW l \in Label, at' = [at EXCEPT ![r] = l],
           \/ Begin(c) \/ End(c) \/ Undo(c) \/ Abort(c)
           \/ op[r] # "store" /\ Change(r, c)
           \/ UNCHANGED <<txn, committed>>,
           \/ op[r] # "store" /\ l \in (Pooled \ {"connect", "vector"}) \cup {"ok", "failed"}
           \/ at[r] = "vector" /\ l \in {"commit", "rollback"}
    PROVE  PoolIInv'
<1>1. l \in InTxn <=> runner[r] # None
  <2>1. op[r] # "store" => at[r] \notin InTxn
    BY DEF PoolIInv, OpAt
  <2> QED  BY <2>1 DEF PoolIInv, PoolInv, RunnerHeld, InTxn, Pooled
<1>2. PoolTyped' /\ PoolInv'
  BY <1>1, Releasing DEF PoolIInv
<1>3. TxnInv'
  BY GivenSparesStores, SparingTxnInv
<1> QED  BY <1>2, <1>3, Assembled

LEMMA StartTransactionIInv ==
    ASSUME PoolIInv, NEW r \in Requests, StartTransaction(r)
    PROVE  PoolIInv'
<1>1. PICK c \in Conns :
         /\ Given(r, c)
         /\ \/ /\ Works(c) /\ Begin(c)
               /\ runner' = [runner EXCEPT ![r] = c]
               /\ Goto(r, "save")
            \/ Fails(c) /\ UNCHANGED runner /\ Goto(r, "leaked")
  BY DEF StartTransaction
<1>2. at[r] = "connect" /\ UNCHANGED <<poolVars, op>>
  BY DEF StartTransaction
<1>3. CASE /\ Works(c) /\ Begin(c) /\ runner' = [runner EXCEPT ![r] = c] /\ Goto(r, "save")
  <2>1. at' = [at EXCEPT ![r] = "save"] /\ "save" \in Label
    BY <1>3 DEF Goto, Label
  <2>2. PoolTyped' /\ PoolInv'
    BY <1>1, <1>2, <1>3, <2>1, Keeping DEF PoolIInv
  <2>3. txn[c] \in TxnState /\ txn[c].state \in {"none", "open"} /\ txn \in [Conns -> TxnState]
    BY <1>3 DEF PoolIInv, PoolTypes, TxnState, Works
  <2>4. /\ txn' \in [Conns -> TxnState] /\ (\A d \in Conns \ {c} : txn'[d] = txn[d])
        /\ txn'[c].changes = txn[c].changes /\ txn'[c].state = "open"
        /\ UNCHANGED committed
    BY <1>3, <2>3 DEF Begin, TxnState
  <2>5. TxnInv'
    BY <1>1, <1>2, <1>3, <2>1, <2>4, RunnerTxnInv DEF Open
  <2> QED  BY <1>2, <2>2, <2>5, Assembled
<1>4. CASE Fails(c) /\ UNCHANGED runner /\ Goto(r, "leaked")
  <2>1. at' = [at EXCEPT ![r] = "leaked"] /\ "leaked" \in Label /\ Abort(c)
    BY <1>4 DEF Goto, Label, Ends, Fails
  <2>2. PoolTyped' /\ PoolInv'
    BY <1>1, <1>2, <1>4, <2>1, Keeping DEF PoolIInv
  <2>3. TxnInv'
    BY <1>1, <1>2, <1>4, <2>1, GivenSparesStores, SparingTxnInv
  <2> QED  BY <1>2, <2>2, <2>3, Assembled
<1> QED  BY <1>1, <1>3, <1>4

\* A statement that fails on a runner: nothing of its transaction is left.
LEMMA RunnerAborted ==
    ASSUME PoolIInv, NEW r \in Requests, runner[r] # None, Abort(runner[r]), UNCHANGED runner,
           UNCHANGED op, at' = [at EXCEPT ![r] = "rollback"]
    PROVE  TxnInv'
<1> DEFINE c == runner[r]
<1>1. c \in Conns /\ txn[c] \in TxnState /\ txn \in [Conns -> TxnState]
  BY RunnerIsOwn DEF PoolIInv, PoolTypes
<1>2. [state |-> "aborted", changes |-> {}] \in TxnState
  BY DEF TxnState
<1>3. /\ txn' \in [Conns -> TxnState] /\ (\A d \in Conns \ {c} : txn'[d] = txn[d])
      /\ txn'[c].changes \subseteq txn[c].changes /\ UNCHANGED committed
  BY <1>1, <1>2 DEF Abort
<1>4. "rollback" \in Label /\ "rollback" \in InTxn
  BY DEF Label, InTxn
<1> QED  BY <1>1, <1>3, <1>4, RunnerTxnInv

LEMMA SaveIInv ==
    ASSUME PoolIInv, NEW r \in Requests, Save(r)
    PROVE  PoolIInv'
<1> DEFINE c == runner[r]
<1>1. at[r] = "save" /\ UNCHANGED <<poolVars, op, runner>>
  BY DEF Save
<1>2. /\ runner[r] # None /\ c \in Conns /\ Open(c)
      /\ txn[c] \in TxnState /\ txn \in [Conns -> TxnState]
  BY <1>1 DEF PoolIInv, PoolTypes, PoolInv, RunnerHeld, StoreInTxn, InTxn
<1>3. at[r] \in InTxn \ Pooled /\ {"vector", "rollback"} \subseteq Label \cap InTxn
  BY <1>1 DEF InTxn, Pooled, Label
<1>4. CASE Change(r, c) /\ Goto(r, "vector")
  <2>1. at' = [at EXCEPT ![r] = "vector"]
    BY <1>4 DEF Goto
  <2>2. PoolTyped' /\ PoolInv'
    BY <1>1, <1>3, <2>1, Keeping DEF PoolIInv
  <2>3. txn' = [txn EXCEPT ![c].changes = @ \cup {r}] /\ UNCHANGED committed
    BY <1>2, <1>4 DEF Change
  <2>4. [txn[c] EXCEPT !.changes = @ \cup {r}] \in TxnState
    BY <1>2 DEF TxnState
  <2>5. /\ txn' \in [Conns -> TxnState] /\ (\A d \in Conns \ {c} : txn'[d] = txn[d])
        /\ txn'[c].changes = txn[c].changes \cup {r} /\ txn'[c].state = "open"
    BY <1>2, <2>3, <2>4 DEF Open, TxnState
  <2>6. TxnInv'
    BY <1>1, <1>2, <1>3, <2>1, <2>3, <2>5, RunnerTxnInv DEF Open
  <2> QED  BY <1>1, <2>2, <2>6, Assembled
<1>5. CASE Abort(c) /\ Goto(r, "rollback")
  <2>1. at' = [at EXCEPT ![r] = "rollback"]
    BY <1>5 DEF Goto
  <2>2. PoolTyped' /\ PoolInv'
    BY <1>1, <1>3, <2>1, Keeping DEF PoolIInv
  <2>3. TxnInv'
    BY <1>1, <1>2, <1>5, <2>1, RunnerAborted
  <2> QED  BY <1>1, <2>2, <2>3, Assembled
<1> QED  BY <1>4, <1>5 DEF Save, Fails

LEMMA GenerateSearchVectorIInv ==
    ASSUME PoolIInv, NEW r \in Requests, GenerateSearchVector(r)
    PROVE  PoolIInv'
<1>1. PICK c \in Conns :
         /\ Given(r, c)
         /\ Release(c)
         /\ \/ Works(c) /\ Goto(r, "commit") /\ UNCHANGED <<txn, exists, committed>>
            \/ Fails(c) /\ Goto(r, "rollback")
  BY DEF GenerateSearchVector
<1>2. at[r] = "vector" /\ UNCHANGED <<op, runner>>
  BY DEF GenerateSearchVector
<1>3. PICK l \in {"commit", "rollback"} : at' = [at EXCEPT ![r] = l]
  BY <1>1 DEF Goto
<1>4. l \in Label
  BY DEF Label
<1>5. Abort(c) \/ UNCHANGED <<txn, committed>>
  BY <1>1 DEF Fails
<1> QED  BY <1>1, <1>2, <1>3, <1>4, <1>5, QueryIInv

LEMMA CommitTransactionIInv ==
    ASSUME PoolIInv, NEW r \in Requests, CommitTransaction(r)
    PROVE  PoolIInv'
<1> DEFINE c == runner[r]
<1>1. at[r] = "commit" /\ UNCHANGED op
  BY DEF CommitTransaction
<1>2. /\ runner[r] # None /\ c \in Conns /\ txn[c] \in TxnState /\ txn \in [Conns -> TxnState]
      /\ Open(c) /\ r \in txn[c].changes
  BY <1>1 DEF PoolIInv, PoolTypes, PoolInv, RunnerHeld, StoreInTxn, InTxn
<1>3. at[r] \in InTxn \ Pooled /\ {"ok", "rollback"} \subseteq Label /\ "ok" \notin InTxn
      /\ "rollback" \in InTxn
  BY <1>1 DEF InTxn, Pooled, Label, Ends
<1>4. CASE End(c) /\ Release(c) /\ runner' = [runner EXCEPT ![r] = None] /\ Goto(r, "ok")
  <2>1. at' = [at EXCEPT ![r] = "ok"]
    BY <1>4 DEF Goto
  <2>2. PoolTyped' /\ PoolInv'
    BY <1>2, <1>3, <1>4, <2>1, Releasing DEF PoolIInv
  <2>3. NoTxn \in TxnState /\ NoTxn.changes = {}
    BY DEF NoTxn, TxnState
  <2>4. /\ txn' \in [Conns -> TxnState] /\ (\A d \in Conns \ {c} : txn'[d] = txn[d])
        /\ txn'[c].changes = {} /\ committed' = committed \cup txn[c].changes
    BY <1>2, <1>4, <2>3 DEF End
  <2>5. TxnInv'
    BY <1>1, <1>2, <1>3, <1>4, <2>1, <2>4, RunnerTxnInv
  <2> QED  BY <1>1, <2>2, <2>5, Assembled
<1>5. CASE Fails(c) /\ Goto(r, "rollback") /\ UNCHANGED <<poolVars, runner>>
  <2>1. at' = [at EXCEPT ![r] = "rollback"] /\ Abort(c)
    BY <1>5 DEF Goto, Fails
  <2>2. PoolTyped' /\ PoolInv'
    BY <1>3, <1>5, <2>1, Keeping DEF PoolIInv
  <2>3. TxnInv'
    BY <1>1, <1>2, <1>5, <2>1, RunnerAborted
  <2> QED  BY <1>1, <2>2, <2>3, Assembled
<1> QED  BY <1>4, <1>5 DEF CommitTransaction

LEMMA RollbackTransactionIInv ==
    ASSUME PoolIInv, NEW r \in Requests, RollbackTransaction(r)
    PROVE  PoolIInv'
<1> DEFINE c == runner[r]
<1>1. /\ at[r] = "rollback" /\ Undo(c) /\ Release(c) /\ UNCHANGED op
      /\ runner' = [runner EXCEPT ![r] = None] /\ at' = [at EXCEPT ![r] = "failed"]
  BY DEF RollbackTransaction, Goto
<1>2. runner[r] # None /\ c \in Conns /\ txn[c] \in TxnState /\ txn \in [Conns -> TxnState]
  BY <1>1 DEF PoolIInv, PoolTypes, PoolInv, RunnerHeld, InTxn
<1>3. at[r] \in InTxn \ Pooled /\ "failed" \in Label \ InTxn
  BY <1>1 DEF InTxn, Pooled, Label, Ends
<1>4. PoolTyped' /\ PoolInv'
  BY <1>1, <1>2, <1>3, Releasing DEF PoolIInv
<1>5. NoTxn \in TxnState /\ NoTxn.changes = {}
  BY DEF NoTxn, TxnState
<1>6. /\ txn' \in [Conns -> TxnState] /\ (\A d \in Conns \ {c} : txn'[d] = txn[d])
      /\ txn'[c].changes = {} /\ committed' = committed \cup {}
  BY <1>1, <1>2, <1>5 DEF Undo
<1>7. TxnInv'
  BY <1>1, <1>2, <1>3, <1>6, RunnerTxnInv
<1> QED  BY <1>1, <1>4, <1>7, Assembled

\* The statements of query and of deleteIndex.
LEMMA QueriesIInv ==
    ASSUME PoolIInv, NEW r \in Requests,
           \/ Query(r) \/ QueryBegin(r) \/ QueryDelete(r) \/ QueryCommit(r) \/ QueryRollback(r)
    PROVE  PoolIInv'
<1> DEFINE Labels == (Pooled \ {"connect", "vector"}) \cup {"ok", "failed"}
<1>1. op[r] # "store" /\ UNCHANGED <<op, runner>>
  BY DEF Query, QueryBegin, QueryDelete, QueryCommit, QueryRollback, PoolIInv, OpAt, Pooled
<1>2. \E c \in Conns : \E l \in Labels :
         /\ Given(r, c) /\ Release(c) /\ at' = [at EXCEPT ![r] = l]
         /\ Begin(c) \/ End(c) \/ Undo(c) \/ Abort(c) \/ Change(r, c)
  <2> USE DEF Goto, Fails, Pooled
  <2>1. CASE Query(r)
    BY <2>1 DEF Query
  <2>2. CASE QueryBegin(r)
    BY <2>2 DEF QueryBegin
  <2>3. CASE QueryDelete(r)
    BY <2>3 DEF QueryDelete
  <2>4. CASE QueryCommit(r)
    BY <2>4 DEF QueryCommit
  <2>5. CASE QueryRollback(r)
    BY <2>5 DEF QueryRollback
  <2> QED  BY <2>1, <2>2, <2>3, <2>4, <2>5
<1>3. Labels \subseteq Label
  BY DEF Label, Ends
<1> QED  BY <1>1, <1>2, <1>3, QueryIInv

LEMMA StepPoolIInv == PoolIInv /\ [Next]_vars => PoolIInv'
<1> SUFFICES ASSUME PoolIInv, [Next]_vars PROVE PoolIInv'
  OBVIOUS
<1>1. CASE UNCHANGED vars
  <2>1. UNCHANGED <<idle, waiting, held, txn, op, at, runner, committed>>
    BY <1>1 DEF vars, poolVars
  <2>2. PoolTyped' /\ TxnTyped'
    BY <2>1 DEF PoolIInv, PoolTypes, PoolTyped, TxnTyped
  <2>3. PoolInv'
    BY <2>1 DEF PoolIInv, PoolInv, IdleFree, WaitersNeed, RunnerHeld, OneGiven, Needs, Given
  <2>4. OpAt' /\ StoreInTxn' /\ CommittedIsOk'
    BY <2>1 DEF PoolIInv, OpAt, StoreInTxn, CommittedIsOk, Open
  <2> QED  BY <2>1, <2>2, <2>3, <2>4, Assembled DEF TxnInv
<1>2. ASSUME NEW r \in Requests, Step(r) PROVE PoolIInv'
  <2>1. CASE Acquire(r)
    <3>1. PoolTyped' /\ PoolInv'
      BY <2>1, Acquiring DEF PoolIInv
    <3>2. UNCHANGED <<txn, op, at, runner, committed>>
      BY <2>1 DEF Acquire
    <3>3. TxnInv'
      BY <3>2 DEF PoolIInv, PoolTypes, TxnInv, TxnTyped, OpAt, StoreInTxn, CommittedIsOk, Open
    <3> QED  BY <3>1, <3>2, <3>3, Assembled
  <2>2. CASE StartTransaction(r) \/ Save(r) \/ GenerateSearchVector(r)
    BY <2>2, StartTransactionIInv, SaveIInv, GenerateSearchVectorIInv
  <2>3. CASE CommitTransaction(r) \/ RollbackTransaction(r)
    BY <2>3, CommitTransactionIInv, RollbackTransactionIInv
  <2>4. CASE \/ Query(r) \/ QueryBegin(r) \/ QueryDelete(r)
             \/ QueryCommit(r) \/ QueryRollback(r)
    BY <2>4, QueriesIInv
  <2> QED  BY <1>2, <2>1, <2>2, <2>3, <2>4 DEF Step
<1> QED  BY <1>1, <1>2 DEF Next

-------------------------------------------------------------------------------
\* The invariant holds of every state of every behaviour.
THEOREM PoolInvariance == Spec => []PoolIInv
<1>1. Init => PoolIInv
  BY InitPoolIInv
<1>2. PoolIInv /\ [Next]_vars => PoolIInv'
  BY StepPoolIInv
<1> QED  BY <1>1, <1>2, PTL DEF Spec

\* storeDocument answers what became of its transaction, whatever statements
\* fail and whatever the others do on the pool's connections
\* (postgresql.service.ts:203-246).
THEOREM StoresAreAtomic == Spec => []StoreIsAtomic
<1>1. PoolIInv => StoreIsAtomic
  BY DEF PoolIInv, CommittedIsOk, StoreIsAtomic
<1> QED  BY <1>1, PoolInvariance, PTL

\* Requests that have ended hold no connection, but for a startTransaction that
\* threw (postgresql.service.ts:206-210).
THEOREM ConnectionsComeBack == Spec => []NothingHeld
<1>1. PoolIInv => NothingHeld
  <2> SUFFICES ASSUME PoolIInv, NEW c \in Conns, held[c] # Nobody, at[held[c]] \in Ends
               PROVE  at[held[c]] = "leaked"
    BY DEF NothingHeld
  <2>1. held[c] \in Requests
    BY DEF PoolIInv, PoolTypes
  <2>2. c # runner[held[c]]
    BY <2>1, PoolAssumption DEF PoolIInv, PoolInv, RunnerHeld, InTxn, Ends
  <2>3. at[held[c]] \in Pooled \cup {"leaked"}
    BY <2>1, <2>2 DEF Given, PoolIInv, PoolInv, OneGiven
  <2> QED  BY <2>3 DEF Pooled, Ends
<1> QED  BY <1>1, PoolInvariance, PTL

-------------------------------------------------------------------------------
(* Startup.  A schema is there as a whole or not at all, and a process that *)
(* is past its check finds all of it.                                       *)

Phases == {"down", "extensions", "check", "create", "migrate", "serving"}

StartTyped ==
    /\ phase \in [Procs -> Phases]
    /\ older \in [Procs -> SUBSET Rows]
    /\ rows \subseteq Rows

\* The script is one transaction, so the schema is there as a whole or not at
\* all, and without tables there are no documents.
AllOrNothing ==
    /\ objects \in {{}, Objects}
    /\ objects = {} => rows = {}

\* Behind the check the schema stays, and with the migration it is complete.
PastTheCheck == \A p \in Procs : phase[p] \in {"migrate", "serving"} => objects = Objects
PastMigration ==
    \A p \in Procs : phase[p] = "serving" => columns = Added /\ "pg_trgm" \in extensions

\* Where a process found documents the tables stay, and it passes its check.
FoundDocuments == \A p \in Procs : phase[p] # "down" /\ older[p] # {} => objects = Objects

StartIInv ==
    /\ StartTyped /\ AllOrNothing
    /\ PastTheCheck /\ PastMigration
    /\ FoundDocuments /\ StartKeepsDocuments

-------------------------------------------------------------------------------
\* The invariant holds before the first start (onModuleInit).
LEMMA InitStartIInv == StartInit => StartIInv
<1> SUFFICES ASSUME StartInit PROVE StartIInv
  OBVIOUS
<1>1. Objects # {}
  BY DEF Objects
<1>2. StartTyped
  BY DEF StartInit, StartTyped, Phases
<1>3. AllOrNothing
  BY <1>1 DEF StartInit, AllOrNothing
<1>4. PastTheCheck /\ PastMigration /\ FoundDocuments /\ StartKeepsDocuments
  BY DEF StartInit, PastTheCheck, PastMigration, FoundDocuments, StartKeepsDocuments
<1> QED  BY <1>2, <1>3, <1>4 DEF StartIInv

\* What enters another phase of its own and leaves the schema in place.
LEMMA PhaseTyped ==
    ASSUME StartIInv, NEW p \in Procs, NEW l \in Phases, phase' = [phase EXCEPT ![p] = l]
    PROVE  /\ phase' \in [Procs -> Phases]
           /\ \A q \in Procs : phase'[q] = IF q = p THEN l ELSE phase[q]
  BY DEF StartIInv, StartTyped

\* A step of the start, a failing query or a crash that ends a process changes
\* neither schema nor documents.
LEMMA EndsStartIInv ==
    ASSUME StartIInv, NEW p \in Procs, Throws(p), UNCHANGED older
    PROVE  StartIInv'
<1>1. phase' = [phase EXCEPT ![p] = "down"] /\ UNCHANGED <<schema, rows>>
  BY DEF Throws, Enter
<1>2. \A q \in Procs : phase'[q] = IF q = p THEN "down" ELSE phase[q]
  BY <1>1, PhaseTyped DEF Phases
<1>3. StartTyped'
  BY <1>1, PhaseTyped DEF StartIInv, StartTyped, Phases
<1>4. AllOrNothing' /\ PastTheCheck' /\ PastMigration' /\ FoundDocuments' /\ StartKeepsDocuments'
  BY <1>1, <1>2 DEF StartIInv, AllOrNothing, PastTheCheck, PastMigration, FoundDocuments,
                    StartKeepsDocuments, schema
<1> QED  BY <1>3, <1>4 DEF StartIInv

\* What makes the schema anew gives every process what it relies on, and drops
\* the documents, which no process remembers to have found by then or whose
\* tables are there again.
LEMMA MadeAnewStartIInv ==
    ASSUME StartIInv, NEW p \in Procs, MadeAnew, UNCHANGED older,
           \/ phase' = [phase EXCEPT ![p] = "migrate"]
           \/ UNCHANGED phase,
           phase[p] = "create" \/ UNCHANGED phase
    PROVE  StartIInv'
<1>1. objects' = Objects /\ columns' = Added /\ "pg_trgm" \in extensions'
  BY DEF MadeAnew, ScriptExtensions
<1>2. Objects # {}
  BY DEF Objects
<1>3. \A q \in Procs : phase'[q] = "create" => phase[q] = "create"
  BY PhaseTyped DEF Phases
<1>4. StartTyped'
  BY PhaseTyped DEF StartIInv, StartTyped, Phases, MadeAnew
<1>5. StartKeepsDocuments'
  BY <1>3 DEF StartIInv, StartKeepsDocuments
<1>6. AllOrNothing' /\ PastTheCheck' /\ PastMigration' /\ FoundDocuments'
  BY <1>1, <1>2 DEF AllOrNothing, PastTheCheck, PastMigration, FoundDocuments
<1> QED  BY <1>4, <1>5, <1>6 DEF StartIInv

\* Every action of a process keeps the invariant.
LEMMA StepStartIInv ==
    ASSUME StartIInv, [StartNext]_startVars
    PROVE  StartIInv'
<1> USE DEF Enter, schema
<1>1. ASSUME NEW p \in Procs, OnModuleInit(p)
      PROVE  StartIInv'
  <2>1. /\ \A q \in Procs : phase'[q] = IF q = p THEN "extensions" ELSE phase[q]
        /\ phase' \in [Procs -> Phases]
    BY <1>1, PhaseTyped DEF OnModuleInit, Phases
  <2>2. \A q \in Procs : older'[q] = IF q = p THEN rows ELSE older[q]
    BY <1>1 DEF OnModuleInit, StartIInv, StartTyped
  <2>3. StartTyped'
    BY <1>1, <2>1 DEF OnModuleInit, StartIInv, StartTyped
  <2>4. FoundDocuments' /\ StartKeepsDocuments'
    BY <1>1, <2>1, <2>2 DEF OnModuleInit, StartIInv, AllOrNothing, FoundDocuments, StartKeepsDocuments
  <2>5. AllOrNothing' /\ PastTheCheck' /\ PastMigration'
    BY <1>1, <2>1 DEF OnModuleInit, StartIInv, AllOrNothing, PastTheCheck, PastMigration
  <2> QED  BY <2>3, <2>4, <2>5 DEF StartIInv
<1>2. ASSUME NEW p \in Procs, SetupExtensions(p)
      PROVE  StartIInv'
  <2>1. CASE /\ extensions' = extensions \cup {Head(todo[p])}
             /\ UNCHANGED <<objects, columns, rows, phase, older>>
    BY <2>1 DEF StartIInv, StartTyped, AllOrNothing, PastTheCheck, PastMigration, FoundDocuments,
                StartKeepsDocuments
  <2>2. CASE phase' = [phase EXCEPT ![p] = "check"] /\ UNCHANGED <<schema, rows, older>>
             /\ phase[p] = "extensions"
    <3>1. /\ \A q \in Procs : phase'[q] = IF q = p THEN "check" ELSE phase[q]
          /\ phase' \in [Procs -> Phases]
      BY <2>2, PhaseTyped DEF Phases
    <3> QED
      BY <2>2, <3>1 DEF StartIInv, StartTyped, AllOrNothing, PastTheCheck, PastMigration,
                        FoundDocuments, StartKeepsDocuments
  <2>3. CASE Throws(p) /\ UNCHANGED older
    BY <2>3, EndsStartIInv
  <2> QED  BY <1>2, <2>1, <2>2, <2>3 DEF SetupExtensions
<1>3. ASSUME NEW p \in Procs, EnsureTablesExist(p)
      PROVE  StartIInv'
  <2>1. CASE Throws(p)
    BY <1>3, <2>1, EndsStartIInv DEF EnsureTablesExist
  <2>2. CASE /\ phase' = [phase EXCEPT ![p] =
                              IF "documents" \in objects THEN "migrate" ELSE "create"]
             /\ UNCHANGED <<schema, rows>>
    <3> DEFINE l == IF "documents" \in objects THEN "migrate" ELSE "create"
    <3>1. /\ \A q \in Procs : phase'[q] = IF q = p THEN l ELSE phase[q]
          /\ phase' \in [Procs -> Phases]
      BY <2>2, PhaseTyped DEF Phases
    <3>2. ("documents" \in objects) <=> (objects = Objects)
      BY DEF StartIInv, AllOrNothing, Objects
    <3>3. phase[p] # "down" /\ UNCHANGED older
      BY <1>3 DEF EnsureTablesExist
    <3>4. StartTyped' /\ AllOrNothing' /\ PastTheCheck' /\ PastMigration'
      BY <2>2, <3>1, <3>2, <3>3 DEF StartIInv, StartTyped, AllOrNothing, PastTheCheck, PastMigration
    <3>5. FoundDocuments'
      BY <2>2, <3>1, <3>3 DEF StartIInv, FoundDocuments
    <3>6. StartKeepsDocuments'
      BY <2>2, <3>1, <3>2, <3>3 DEF StartIInv, FoundDocuments, StartKeepsDocuments
    <3> QED  BY <3>4, <3>5, <3>6 DEF StartIInv
  <2> QED  BY <1>3, <2>1, <2>2 DEF EnsureTablesExist
<1>4. ASSUME NEW p \in Procs, RunInitScript(p)
      PROVE  StartIInv'
  <2>1. CASE Throws(p)
    BY <1>4, <2>1, EndsStartIInv DEF RunInitScript
  <2>2. CASE MadeAnew /\ phase' = [phase EXCEPT ![p] = "migrate"]
    BY <1>4, <2>2, MadeAnewStartIInv DEF RunInitScript
  <2> QED  BY <1>4, <2>1, <2>2 DEF RunInitScript
<1>5. ASSUME NEW p \in Procs, RunMigrations(p)
      PROVE  StartIInv'
  <2>1. CASE Throws(p)
    BY <1>5, <2>1, EndsStartIInv DEF RunMigrations
  <2>2. CASE /\ columns' = Added
             /\ extensions' = extensions \cup {"pg_trgm"}
             /\ phase' = [phase EXCEPT ![p] = "serving"]
             /\ UNCHANGED <<objects, rows>>
    <3>1. /\ \A q \in Procs : phase'[q] = IF q = p THEN "serving" ELSE phase[q]
          /\ phase' \in [Procs -> Phases]
      BY <2>2, PhaseTyped DEF Phases
    <3>2. phase[p] = "migrate" /\ UNCHANGED older
      BY <1>5 DEF RunMigrations
    <3> QED
      BY <2>2, <3>1, <3>2 DEF StartIInv, StartTyped, AllOrNothing, PastTheCheck, PastMigration,
                              FoundDocuments, StartKeepsDocuments
  <2> QED  BY <1>5, <2>1, <2>2 DEF RunMigrations
<1>6. ASSUME NEW p \in Procs, NEW d \in Rows, Store(p, d)
      PROVE  StartIInv'
  BY <1>6 DEF Store, StartIInv, StartTyped, AllOrNothing, PastTheCheck, PastMigration,
              FoundDocuments, StartKeepsDocuments
<1>7. ASSUME NEW p \in Procs, CleanDatabase(p)
      PROVE  StartIInv'
  BY <1>7, MadeAnewStartIInv DEF CleanDatabase
<1>8. ASSUME NEW p \in Procs, ProcessEnds(p)
      PROVE  StartIInv'
  BY <1>8, EndsStartIInv DEF ProcessEnds
<1>9. CASE UNCHANGED startVars
  BY <1>9 DEF startVars, StartIInv, StartTyped, AllOrNothing, PastTheCheck, PastMigration,
              FoundDocuments, StartKeepsDocuments
<1> QED
  BY <1>1, <1>2, <1>3, <1>4, <1>5, <1>6, <1>7, <1>8, <1>9 DEF StartNext

\* The invariant holds of every state of every behaviour.
THEOREM StartInvariance == StartSpec => []StartIInv
<1>1. StartInit => StartIInv
  BY InitStartIInv
<1>2. StartIInv /\ [StartNext]_startVars => StartIInv'
  BY StepStartIInv
<1> QED  BY <1>1, <1>2, PTL DEF StartSpec

\* Any number of processes may start, fail and make the schema anew: one that
\* serves requests finds all of it (postgresql.service.ts:30-45).
THEOREM ServingProcessesFindTheSchema == StartSpec => []ServingMeansReady
<1>1. StartIInv => ServingMeansReady
  BY DEF StartIInv, PastTheCheck, PastMigration, ServingMeansReady
<1> QED  BY <1>1, StartInvariance, PTL

\* However long ago a process looked for the tables, it does not drop documents
\* that were there when it started (postgresql.service.ts:59-103).
THEOREM StartingKeepsDocuments == StartSpec => []StartKeepsDocuments
<1>1. StartIInv => StartKeepsDocuments
  BY DEF StartIInv
<1> QED  BY <1>1, StartInvariance, PTL

-------------------------------------------------------------------------------
(* FieldMappings.  Whoever wrote the mappings weighs their fields: each is  *)
(* still to be looked at, inserted by its transaction, or there.            *)

KnownFields(s) == {KnownIn[s][k] : k \in DOMAIN KnownIn[s]}
Fields == UNION {KnownFields(s) : s \in Samples}

FieldsTyped ==
    /\ asks \in [Clients -> Asks]
    /\ brings \in [Clients -> Samples]
    /\ stage \in [Clients -> {"ensure", "save", "weigh", "ok", "failed"}]
    /\ toWeigh \in [Clients -> Seq(Fields)]
    /\ inserted \in [Clients -> SUBSET Fields]
    /\ writer \in Clients
    /\ tries \in [Clients -> Nat]

\* A row of field_weights has the weight of the pattern, whoever inserted it.
PatternWeights == weights = [path \in DOMAIN weights |-> FindMatchingPattern(path).weight]

\* A transaction has still to look at a field, or has inserted it, or found it.
NoFieldLeftOut ==
    \A c \in Clients : stage[c] = "weigh" =>
        KnownFields(brings[c]) \subseteq ToSet(toWeigh[c]) \cup inserted[c] \cup DOMAIN weights

\* Mappings are those of the writer's documents, and stay with the index.
WriterMapped ==
    fieldMap # Unmapped => there /\ fieldMap = Detected(brings[writer])

\* Whoever wrote the mappings weighs their fields, or has, or lost the weights.
WriterWeighs ==
    fieldMap # Unmapped /\ asks[writer] # "detect" /\ writer \notin lost =>
        /\ stage[writer] \in {"weigh", "ok"}
        /\ stage[writer] = "ok" => KnownFields(brings[writer]) \subseteq DOMAIN weights

\* A request to detect mappings is in no transaction.
DetectsOnly ==
    \A c \in Clients : stage[c] \in {"save", "weigh"} => asks[c] \in Uploads

FieldsIInv ==
    /\ FieldsTyped /\ PatternWeights /\ NoFieldLeftOut
    /\ WriterMapped /\ WriterWeighs /\ DetectsOnly

-------------------------------------------------------------------------------
\* What a transaction has to look at is every known field of its documents,
\* and nothing else.
LEMMA KnownIsComplete ==
    ASSUME NEW s \in Samples
    PROVE  /\ KnownIn[s] \in Seq(KnownFields(s))
           /\ \A i \in DOMAIN Found[s] :
                 FindMatchingPattern(Found[s][i].path) # NoPattern
                    => Found[s][i].path \in KnownFields(s)
<1> DEFINE fields == Found[s]
           places == {i \in DOMAIN fields : FindMatchingPattern(fields[i].path) # NoPattern}
           Place(i) == Cardinality({j \in places : j <= i})
           path(k) == fields[CHOOSE i \in places : Place(i) = k].path
<1>1. KnownIn[s] = [k \in 1 .. Cardinality(places) |-> path(k)]
  BY DEF KnownIn, Known
<1>2. places \subseteq Int /\ IsFiniteSet(places) /\ Cardinality(places) \in Nat
  <2>1. fields \in Seq([path : Seq(STRING) \ {<<>>}, type : STRING])
    BY FieldAssumption
  <2>2. DOMAIN fields = 1 .. Len(fields) /\ Len(fields) \in Nat
    BY <2>1
  <2>3. IsFiniteSet(1 .. Len(fields))
    BY <2>2, FS_Interval
  <2>4. places \subseteq 1 .. Len(fields)
    BY <2>2
  <2> QED  BY <2>2, <2>3, <2>4, FS_Subset, FS_CardinalityType
<1>3. \A i \in places : Place(i) \in 1 .. Cardinality(places)
  <2> TAKE i \in places
  <2> DEFINE before == {j \in places : j <= i}
  <2>1. before \in SUBSET places /\ before # {}
    BY <1>2
  <2>2. IsFiniteSet(before) /\ Cardinality(before) <= Cardinality(places)
    BY <1>2, <2>1, FS_Subset
  <2>3. Cardinality(before) \in Nat /\ Cardinality(before) # 0
    BY <2>1, <2>2, FS_CardinalityType, FS_EmptySet
  <2> QED  BY <1>2, <2>2, <2>3
<1>4. \A i, j \in places : i < j => Place(i) # Place(j)
  <2> SUFFICES ASSUME NEW i \in places, NEW j \in places, i < j, Place(i) = Place(j)
               PROVE  FALSE
    OBVIOUS
  <2> DEFINE upTo(k) == {l \in places : l <= k}
  <2>1. upTo(i) \in SUBSET upTo(j) /\ upTo(i) # upTo(j)
    BY <1>2
  <2>2. IsFiniteSet(upTo(j))
    BY <1>2, FS_Subset
  <2>3. Cardinality(upTo(j)) # Cardinality(upTo(i))
    <3> HIDE DEF upTo
    <3> QED  BY <2>1, <2>2, FS_Subset
  <2> QED  BY <2>3
<1>5. \A i \in places : (CHOOSE j \in places : Place(j) = Place(i)) = i
  <2> HIDE DEF places, Place
  <2> TAKE i \in places
  <2> DEFINE l == CHOOSE j \in places : Place(j) = Place(i)
  <2>1. l \in places /\ Place(l) = Place(i)
    OBVIOUS
  <2>2. ~(l < i) /\ ~(i < l)
    BY <1>4, <2>1
  <2>3. l \in Int /\ i \in Int
    BY <1>2, <2>1
  <2> QED  BY <2>2, <2>3
<1>6. KnownFields(s) = {KnownIn[s][k] : k \in 1 .. Cardinality(places)}
  <2>1. DOMAIN KnownIn[s] = 1 .. Cardinality(places)
    BY <1>1
  <2> QED  BY <2>1 DEF KnownFields
<1>7. \A i \in places : Found[s][i].path \in KnownFields(s)
  <2> TAKE i \in places
  <2>1. KnownIn[s][Place(i)] = path(Place(i))
    BY <1>1, <1>3
  <2>2. path(Place(i)) = fields[i].path
    BY <1>5
  <2> QED  BY <1>3, <1>6, <2>1, <2>2
<1>8. KnownIn[s] \in Seq(KnownFields(s))
  <2> HIDE DEF places, path
  <2>1. KnownIn[s] \in [1 .. Cardinality(places) -> KnownFields(s)]
    BY <1>1, <1>6
  <2> QED  BY <1>2, <2>1 DEF Seq
<1> QED  BY <1>7, <1>8

\* A name of its own has its own pattern before any it contains.
LEMMA ExactPattern ==
    ASSUME NEW path, NEW i \in DOMAIN KnownFieldPatterns, Exactly(path, KnownFieldPatterns[i])
    PROVE  FindMatchingPattern(path) = KnownFieldPatterns[i]
<1> DEFINE exact == {j \in DOMAIN KnownFieldPatterns : Exactly(path, KnownFieldPatterns[j])}
<1>1. DOMAIN KnownFieldPatterns = 1 .. 12
  BY DEF KnownFieldPatterns
<1>2. \A j \in DOMAIN KnownFieldPatterns :
          KnownFieldPatterns[j].name = KnownFieldPatterns[i].name => j = i
  BY <1>1, SMTT(60) DEF KnownFieldPatterns, Pattern
<1>3. exact = {i}
  BY <1>2 DEF Exactly
<1>4. Min({i}) = i
  BY <1>1 DEF Min
<1>5. FirstPattern(exact) = KnownFieldPatterns[i]
  BY <1>3, <1>4 DEF FirstPattern
<1> QED  BY <1>3, <1>5 DEF FindMatchingPattern

-------------------------------------------------------------------------------
\* The invariant holds before the first request.
LEMMA FieldsInitially == FieldInit => FieldsIInv
<1> SUFFICES ASSUME FieldInit PROVE FieldsIInv
  OBVIOUS
<1>1. FieldsTyped
  BY FieldAssumption DEF FieldInit, FieldsTyped
<1>2. PatternWeights
  BY DEF FieldInit, PatternWeights, Unmapped
<1>3. NoFieldLeftOut /\ DetectsOnly
  BY DEF FieldInit, NoFieldLeftOut, DetectsOnly
<1>4. WriterMapped /\ WriterWeighs
  BY DEF FieldInit, WriterMapped, WriterWeighs
<1> QED  BY <1>1, <1>2, <1>3, <1>4 DEF FieldsIInv

\* A client that goes on is where it went; the others stay where they are.
LEMMA Proceeding ==
    ASSUME FieldsIInv, NEW c \in Clients,
           NEW l \in {"ensure", "save", "weigh", "ok", "failed"}, Proceed(c, l)
    PROVE  /\ stage' \in [Clients -> {"ensure", "save", "weigh", "ok", "failed"}]
           /\ \A d \in Clients : stage'[d] = IF d = c THEN l ELSE stage[d]
  BY DEF FieldsIInv, FieldsTyped, Proceed

\* Whoever errs is done, or will try again.
LEMMA Erring ==
    ASSUME FieldsIInv, NEW c \in Clients, Errs(c)
    PROVE  /\ stage' \in [Clients -> {"ensure", "save", "weigh", "ok", "failed"}]
           /\ stage'[c] \in {"ensure", "failed"}
           /\ \A d \in Clients \ {c} : stage'[d] = stage[d]
           /\ tries' \in [Clients -> Nat]
<1>1. CASE Proceed(c, "ensure") /\ tries' = [tries EXCEPT ![c] = @ + 1]
  BY <1>1, Proceeding DEF FieldsIInv, FieldsTyped
<1>2. CASE Proceed(c, "failed") /\ UNCHANGED tries
  BY <1>2, Proceeding DEF FieldsIInv, FieldsTyped
<1> QED  BY <1>1, <1>2 DEF Errs

\* Whoever finds an index without mappings goes to save them; it writes nothing yet.
LEMMA EnsuringFieldsIInv ==
    ASSUME FieldsIInv, NEW c \in Clients, EnsureFieldMappings(c)
    PROVE  FieldsIInv'
<1>1. /\ stage' \in [Clients -> {"ensure", "save", "weigh", "ok", "failed"}]
      /\ \A d \in Clients \ {c} : stage'[d] = stage[d]
      /\ stage'[c] \in {"ensure", "save", "ok", "failed"}
      /\ tries' \in [Clients -> Nat]
      /\ stage'[c] \in {"save", "ok"} => there
  BY Proceeding, Erring DEF EnsureFieldMappings, FieldsIInv, FieldsTyped
<1>2. UNCHANGED <<there, fieldMap, writer, asks, brings, weights, toWeigh, inserted, lost>>
  BY DEF EnsureFieldMappings, index, client
<1>3. stage[c] = "ensure" /\ asks[c] \in Uploads
  BY DEF EnsureFieldMappings
<1>4. FieldsTyped'
  BY <1>1, <1>2 DEF FieldsIInv, FieldsTyped
<1>5. PatternWeights' /\ WriterMapped'
  BY <1>2 DEF FieldsIInv, PatternWeights, WriterMapped
<1>6. NoFieldLeftOut' /\ DetectsOnly'
  BY <1>1, <1>2, <1>3 DEF FieldsIInv, NoFieldLeftOut, DetectsOnly
<1>7. WriterWeighs'
  BY <1>1, <1>2, <1>3 DEF FieldsIInv, FieldsTyped, WriterWeighs
<1> QED  BY <1>4, <1>5, <1>6, <1>7 DEF FieldsIInv

\* Whoever saves mappings is their writer from then on, with every known field of
\* its documents before it.
LEMMA SavingFieldsIInv ==
    ASSUME FieldsIInv, NEW c \in Clients, SaveMappings(c)
    PROVE  FieldsIInv'
<1>1. stage[c] = "save" /\ asks[c] \in Uploads
  BY DEF SaveMappings, FieldsIInv, DetectsOnly
<1>2. UNCHANGED <<there, asks, brings, weights, inserted>>
  BY DEF SaveMappings, client
<1>3. brings[c] \in Samples
  BY DEF FieldsIInv, FieldsTyped
<1>4. KnownIn[brings[c]] \in Seq(KnownFields(brings[c]))
  BY <1>3, KnownIsComplete
<1>5. /\ KnownIn[brings[c]] \in Seq(Fields)
      /\ ToSet(KnownIn[brings[c]]) = KnownFields(brings[c])
  <2>1. KnownFields(brings[c]) \subseteq Fields
    BY <1>3 DEF Fields
  <2>2. ToSet(KnownIn[brings[c]]) = KnownFields(brings[c])
    BY DEF ToSet, KnownFields
  <2> QED  BY <1>4, <2>1, <2>2
<1>6. toWeigh' \in [Clients -> Seq(Fields)]
      /\ \A d \in Clients : toWeigh'[d] = IF d = c THEN KnownIn[brings[c]] ELSE toWeigh[d]
  BY <1>5 DEF SaveMappings, FieldsIInv, FieldsTyped
<1>7. /\ stage' \in [Clients -> {"ensure", "save", "weigh", "ok", "failed"}]
      /\ \A d \in Clients \ {c} : stage'[d] = stage[d]
      /\ stage'[c] \in {"ensure", "weigh", "failed"}
      /\ tries' \in [Clients -> Nat]
  BY Proceeding, Erring DEF SaveMappings, FieldsIInv, FieldsTyped
<1>8. PatternWeights'
  BY <1>2 DEF FieldsIInv, PatternWeights
<1>9. NoFieldLeftOut' /\ DetectsOnly'
  BY <1>1, <1>2, <1>5, <1>6, <1>7 DEF FieldsIInv, NoFieldLeftOut, DetectsOnly
<1>10. CASE /\ there
            /\ fieldMap' = Detected(brings[c])
            /\ writer' = c /\ lost' = lost \ {c}
            /\ Proceed(c, "weigh")
  <2>1. FieldsTyped'
    BY <1>2, <1>6, <1>7, <1>10 DEF FieldsIInv, FieldsTyped
  <2>2. WriterMapped'
    BY <1>2, <1>10 DEF WriterMapped
  <2>3. WriterWeighs'
    <3>1. stage'[c] = "weigh"
      BY <1>10, Proceeding
    <3> QED  BY <1>10, <3>1 DEF WriterWeighs
  <2> QED  BY <1>8, <1>9, <2>1, <2>2, <2>3 DEF FieldsIInv
<1>11. CASE ~there /\ UNCHANGED <<fieldMap, writer, lost>>
  <2>1. FieldsTyped'
    BY <1>2, <1>6, <1>7, <1>11 DEF FieldsIInv, FieldsTyped
  <2>2. fieldMap' = Unmapped
    BY <1>11 DEF FieldsIInv, WriterMapped
  <2>3. WriterMapped' /\ WriterWeighs'
    BY <2>2 DEF WriterMapped, WriterWeighs, Unmapped
  <2> QED  BY <1>8, <1>9, <2>1, <2>3 DEF FieldsIInv
<1> QED  BY <1>10, <1>11 DEF SaveMappings

\* Mappings detected on request owe no weights.
LEMMA DetectingFieldsIInv ==
    ASSUME FieldsIInv, NEW c \in Clients, AutoDetectMappings(c)
    PROVE  FieldsIInv'
<1>1. stage[c] = "ensure" /\ asks[c] = "detect"
  BY DEF AutoDetectMappings
<1>2. UNCHANGED <<there, asks, brings, weights, toWeigh, inserted, tries, lost>>
  BY DEF AutoDetectMappings, client
<1>3. /\ stage' \in [Clients -> {"ensure", "save", "weigh", "ok", "failed"}]
      /\ \A d \in Clients \ {c} : stage'[d] = stage[d]
      /\ stage'[c] \in {"ok", "failed"}
  BY Proceeding DEF AutoDetectMappings
<1>4. PatternWeights'
  BY <1>2 DEF FieldsIInv, PatternWeights
<1>5. NoFieldLeftOut' /\ DetectsOnly'
  BY <1>1, <1>2, <1>3 DEF FieldsIInv, NoFieldLeftOut, DetectsOnly
<1>6. CASE there /\ fieldMap' = Detected(brings[c]) /\ writer' = c
  <2>1. FieldsTyped'
    BY <1>2, <1>3, <1>6 DEF FieldsIInv, FieldsTyped
  <2>2. WriterMapped' /\ WriterWeighs'
    BY <1>1, <1>2, <1>6 DEF WriterMapped, WriterWeighs
  <2> QED  BY <1>4, <1>5, <2>1, <2>2 DEF FieldsIInv
<1>7. CASE ~there /\ UNCHANGED <<fieldMap, writer>>
  <2>1. FieldsTyped'
    BY <1>2, <1>3, <1>7 DEF FieldsIInv, FieldsTyped
  <2>2. fieldMap' = Unmapped
    BY <1>7 DEF FieldsIInv, WriterMapped
  <2>3. WriterMapped' /\ WriterWeighs'
    BY <2>2 DEF WriterMapped, WriterWeighs, Unmapped
  <2> QED  BY <1>4, <1>5, <2>1, <2>3 DEF FieldsIInv
<1> QED  BY <1>6, <1>7 DEF AutoDetectMappings

\* The field a transaction looks at is left neither out nor behind.
LEMMA WeighingFieldsIInv ==
    ASSUME FieldsIInv, NEW c \in Clients, WeighField(c)
    PROVE  FieldsIInv'
<1>1. UNCHANGED <<there, fieldMap, writer, asks, brings, weights, stage, tries, lost>>
  BY DEF WeighField, index, client
<1>2. toWeigh[c] \in Seq(Fields) /\ toWeigh[c] # <<>>
  BY DEF WeighField, Weighs, FieldsIInv, FieldsTyped
<1>3. /\ Field(c) \in Fields /\ Tail(toWeigh[c]) \in Seq(Fields)
      /\ ToSet(toWeigh[c]) \subseteq ToSet(Tail(toWeigh[c])) \cup {Field(c)}
  <2> DEFINE t == toWeigh[c]
  <2>1. Len(t) \in Nat \ {0} /\ Len(Tail(t)) = Len(t) - 1
    BY <1>2
  <2>2. ASSUME NEW i \in DOMAIN t
        PROVE  t[i] \in ToSet(Tail(t)) \cup {t[1]}
    <3>1. CASE i = 1
      BY <3>1
    <3>2. CASE i # 1
      <4>1. i - 1 \in DOMAIN Tail(t) /\ Tail(t)[i - 1] = t[i]
        BY <1>2, <2>1, <2>2, <3>2
      <4> QED  BY <4>1 DEF ToSet
    <3> QED  BY <3>1, <3>2
  <2> QED  BY <1>2, <2>1, <2>2 DEF ToSet, Field
<1>4. /\ toWeigh' \in [Clients -> Seq(Fields)]
      /\ \A d \in Clients : toWeigh'[d] = IF d = c THEN Tail(toWeigh[c]) ELSE toWeigh[d]
  BY <1>3 DEF WeighField, FieldsIInv, FieldsTyped
<1>5. /\ inserted' \in [Clients -> SUBSET Fields]
      /\ \A d \in Clients : inserted[d] \subseteq inserted'[d]
      /\ Field(c) \in inserted'[c] \cup DOMAIN weights
  BY <1>3 DEF WeighField, FieldsIInv, FieldsTyped
<1>6. FieldsTyped'
  BY <1>1, <1>4, <1>5 DEF FieldsIInv, FieldsTyped
<1>7. PatternWeights' /\ WriterMapped' /\ WriterWeighs' /\ DetectsOnly'
  BY <1>1 DEF FieldsIInv, PatternWeights, WriterMapped, WriterWeighs, DetectsOnly
<1>8. NoFieldLeftOut'
  <2> SUFFICES ASSUME NEW d \in Clients, stage[d] = "weigh", NEW f \in KnownFields(brings[d])
               PROVE  f \in ToSet(toWeigh'[d]) \cup inserted'[d] \cup DOMAIN weights
    BY <1>1 DEF NoFieldLeftOut
  <2>1. f \in ToSet(toWeigh[d]) \cup inserted[d] \cup DOMAIN weights
    BY DEF FieldsIInv, NoFieldLeftOut
  <2> QED  BY <1>3, <1>4, <1>5, <2>1
<1> QED  BY <1>6, <1>7, <1>8 DEF FieldsIInv

\* A transaction commits when it has looked at every field.
LEMMA CommittingFieldsIInv ==
    ASSUME FieldsIInv, NEW c \in Clients, CommitWeights(c)
    PROVE  FieldsIInv'
<1>1. UNCHANGED <<there, fieldMap, writer, asks, brings, toWeigh, tries, lost>>
  BY DEF CommitWeights, index, client
<1>2. /\ stage' \in [Clients -> {"ensure", "save", "weigh", "ok", "failed"}]
      /\ \A d \in Clients : stage'[d] = IF d = c THEN "ok" ELSE stage[d]
  BY Proceeding DEF CommitWeights
<1>3. /\ inserted' \in [Clients -> SUBSET Fields]
      /\ \A d \in Clients : inserted'[d] = IF d = c THEN {} ELSE inserted[d]
  BY DEF CommitWeights, FieldsIInv, FieldsTyped
<1>4. DOMAIN weights' = DOMAIN weights \cup inserted[c]
  BY DEF CommitWeights
<1>5. PatternWeights'
  <2>1. \A path \in DOMAIN weights : weights[path] = FindMatchingPattern(path).weight
    BY DEF FieldsIInv, PatternWeights
  <2>2. weights' = [path \in DOMAIN weights' |-> FindMatchingPattern(path).weight]
    BY <1>4, <2>1 DEF CommitWeights
  <2> QED  BY <2>2 DEF PatternWeights
<1>6. stage[c] = "weigh" /\ KnownFields(brings[c]) \subseteq DOMAIN weights'
  <2>1. stage[c] = "weigh" /\ ToSet(toWeigh[c]) = {}
    BY DEF CommitWeights, ToSet
  <2> QED  BY <1>4, <2>1 DEF FieldsIInv, NoFieldLeftOut
<1>7. FieldsTyped'
  BY <1>1, <1>2, <1>3 DEF FieldsIInv, FieldsTyped
<1>8. WriterMapped' /\ DetectsOnly'
  BY <1>1, <1>2 DEF FieldsIInv, WriterMapped, DetectsOnly
<1>9. NoFieldLeftOut'
  <2> SUFFICES ASSUME NEW d \in Clients, stage'[d] = "weigh"
               PROVE  KnownFields(brings[d]) \subseteq
                          ToSet(toWeigh[d]) \cup inserted'[d] \cup DOMAIN weights'
    BY <1>1 DEF NoFieldLeftOut
  <2>1. d # c
    BY <1>2
  <2> QED  BY <1>2, <1>3, <1>4, <2>1 DEF FieldsIInv, NoFieldLeftOut
<1>10. WriterWeighs'
  BY <1>1, <1>2, <1>4, <1>6 DEF FieldsIInv, FieldsTyped, WriterWeighs
<1> QED  BY <1>5, <1>7, <1>8, <1>9, <1>10 DEF FieldsIInv

\* Whoever rolls back is lost; what it had inserted is nobody's.
LEMMA RollingBackFieldsIInv ==
    ASSUME FieldsIInv, NEW c \in Clients, RollBackWeights(c)
    PROVE  FieldsIInv'
<1>1. UNCHANGED <<there, fieldMap, writer, asks, brings, weights, toWeigh>>
  BY DEF RollBackWeights, index, client
<1>2. /\ stage' \in [Clients -> {"ensure", "save", "weigh", "ok", "failed"}]
      /\ stage'[c] \in {"ensure", "failed"}
      /\ \A d \in Clients \ {c} : stage'[d] = stage[d]
      /\ tries' \in [Clients -> Nat]
  BY Erring DEF RollBackWeights
<1>3. /\ inserted' \in [Clients -> SUBSET Fields]
      /\ \A d \in Clients : inserted'[d] = IF d = c THEN {} ELSE inserted[d]
      /\ lost' = lost \cup {c}
  BY DEF RollBackWeights, FieldsIInv, FieldsTyped
<1>4. FieldsTyped'
  BY <1>1, <1>2, <1>3 DEF FieldsIInv, FieldsTyped
<1>5. PatternWeights' /\ WriterMapped'
  BY <1>1 DEF FieldsIInv, PatternWeights, WriterMapped
<1>6. NoFieldLeftOut' /\ DetectsOnly'
  BY <1>1, <1>2, <1>3 DEF FieldsIInv, NoFieldLeftOut, DetectsOnly
<1>7. WriterWeighs'
  BY <1>1, <1>2, <1>3 DEF FieldsIInv, FieldsTyped, WriterWeighs
<1> QED  BY <1>4, <1>5, <1>6, <1>7 DEF FieldsIInv

\* An index is dropped with its mappings and created without any.
LEMMA DroppingFieldsIInv ==
    ASSUME FieldsIInv, NEW c \in Clients, DropIndex(c) \/ CreateIndex(c)
    PROVE  FieldsIInv'
<1>1. UNCHANGED <<writer, asks, brings, weights, toWeigh, inserted, tries, lost>>
  BY DEF DropIndex, CreateIndex, client
<1>2. stage[c] = "ensure" /\ asks[c] \in {"drop", "create"}
  BY DEF DropIndex, CreateIndex
<1>3. /\ stage' \in [Clients -> {"ensure", "save", "weigh", "ok", "failed"}]
      /\ \A d \in Clients \ {c} : stage'[d] = stage[d]
      /\ stage'[c] \in {"ok", "failed"}
  BY Proceeding DEF DropIndex, CreateIndex
<1>4. FieldsTyped'
  BY <1>1, <1>3 DEF FieldsIInv, FieldsTyped
<1>5. PatternWeights'
  BY <1>1 DEF FieldsIInv, PatternWeights
<1>6. NoFieldLeftOut' /\ DetectsOnly'
  BY <1>1, <1>3 DEF FieldsIInv, NoFieldLeftOut, DetectsOnly
<1>7. WriterMapped' /\ WriterWeighs'
  <2>1. fieldMap' = Unmapped \/ (there' /\ fieldMap' = fieldMap)
    BY DEF DropIndex, CreateIndex
  <2>2. writer # c \/ fieldMap = Unmapped \/ writer \in lost \/ asks[writer] = "detect"
    BY <1>2 DEF FieldsIInv, WriterWeighs
  <2>3. Unmapped' = Unmapped
    BY DEF Unmapped
  <2>4. CASE fieldMap' = Unmapped
    BY <2>3, <2>4 DEF WriterMapped, WriterWeighs
  <2>5. CASE there' /\ fieldMap' = fieldMap
    BY <1>1, <1>2, <1>3, <2>2, <2>3, <2>5
       DEF FieldsIInv, FieldsTyped, WriterMapped, WriterWeighs
  <2> QED  BY <2>1, <2>4, <2>5
<1> QED  BY <1>4, <1>5, <1>6, <1>7 DEF FieldsIInv

\* Every step of a client keeps the invariant.
LEMMA FieldsStep == FieldsIInv /\ [FieldNext]_fieldVars => FieldsIInv'
<1> SUFFICES ASSUME FieldsIInv, [FieldNext]_fieldVars PROVE FieldsIInv'
  OBVIOUS
<1>1. CASE UNCHANGED fieldVars
  BY <1>1 DEF fieldVars, index, client, FieldsIInv, FieldsTyped, PatternWeights,
              NoFieldLeftOut, WriterMapped, WriterWeighs, DetectsOnly
<1>2. CASE FieldNext
  BY <1>2, EnsuringFieldsIInv, SavingFieldsIInv, DetectingFieldsIInv, WeighingFieldsIInv,
     CommittingFieldsIInv, RollingBackFieldsIInv, DroppingFieldsIInv DEF FieldNext
<1> QED  BY <1>1, <1>2

\* Whoever else configures the index, drops it or creates it, a mapped field
\* with a known name has the weight of that name once its writer's transaction
\* is over and was not lost (document.service.ts:531-540,
\* field-weights.service.ts).
THEOREM MappedFieldsHaveTheirWeights == FieldSpec => []MappedFieldsWeigh
<1>1. FieldInit => FieldsIInv
  BY FieldsInitially
<1>2. FieldsIInv /\ [FieldNext]_fieldVars => FieldsIInv'
  BY FieldsStep
<1>3. FieldsIInv => MappedFieldsWeigh
  <2> SUFFICES ASSUME FieldsIInv, NEW path \in DOMAIN fieldMap,
                      asks[writer] # "detect", stage[writer] # "weigh", writer \notin lost,
                      FindMatchingPattern(path) # NoPattern
               PROVE  /\ path \in DOMAIN weights
                      /\ \A i \in DOMAIN KnownFieldPatterns :
                            Exactly(path, KnownFieldPatterns[i])
                               => weights[path] = KnownFieldPatterns[i].weight
    BY DEF MappedFieldsWeigh
  <2> DEFINE s == brings[writer]
  <2>1. s \in Samples /\ fieldMap # Unmapped
    BY DEF FieldsIInv, FieldsTyped, Unmapped
  <2>2. KnownFields(s) \subseteq DOMAIN weights
    BY <2>1 DEF FieldsIInv, WriterWeighs
  <2>3. DOMAIN fieldMap = {Found[s][i].path : i \in DOMAIN Found[s]}
    BY <2>1 DEF FieldsIInv, WriterMapped, Detected
  <2>4. path \in KnownFields(s)
    BY <2>1, <2>3, KnownIsComplete
  <2>5. weights[path] = FindMatchingPattern(path).weight
    BY <2>2, <2>4 DEF FieldsIInv, PatternWeights
  <2> QED  BY <2>2, <2>4, <2>5, ExactPattern
<1> QED  BY <1>1, <1>2, <1>3, PTL DEF FieldSpec
===============================================================================
