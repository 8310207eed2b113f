-------------------------- MODULE SearchEngineProofs --------------------------
(***************************************************************************)
(* What the run checks of the optimization scripts for one job and of the  *)
(* walks of one or two clients, proved for any number of jobs and requests *)
(* that run scripts at once, any number of clients, any documents and      *)
(* writes, and any number of failures and crashes.                         *)
(***************************************************************************)
EXTENDS SearchEngine, TLAPS, FiniteSetTheorems, SequenceTheorems

Values == Versions \cup {Null}

Job == [by : {"bull", "request"},
        at : {"none", "waiting", "active", "completed", "failed", "removed"},
        column : Columns, next : Nat \ {0}, errors : Nat, stalled : BOOLEAN]

Typed ==
    /\ content \in [Docs -> Values]
    /\ columns \subseteq Columns
    /\ triggers \subseteq Columns
    /\ derived \in [Columns -> [Docs -> Values]]
    /\ raced \subseteq Docs
    /\ job \in [Jobs -> Job]

\* The places of a script's CREATE TRIGGER and of the UPDATE that fills, and
\* the errors that no run of it is without.
TriggerAt(c) == IF c = "vector" THEN 3 ELSE 4
FillAt(c) == IF c = "vector" THEN 4 ELSE 2
Tunes(c, n) == IF c = "lower" /\ n > 5 THEN 1 ELSE 0

\* A script that was ever begun has gone well so far, or it is a fault that
\* Untroubled does not excuse.
Begun(j) == job[j].at \notin {"none", "waiting", "removed"} \/ job[j].stalled
Faultless(j) ==
    /\ job[j].at \in {"active", "completed"}
    /\ job[j].errors = Tunes(job[j].column, job[j].next)
Faulty(j) == Begun(j) /\ ~Faultless(j)

\* A script went well beyond its n-th statement.
Past(j, n) == Faultless(j) /\ job[j].next > n

\* A script of the column has not gone well beyond its n-th statement, so that
\* not all is done.
Open(c, n) ==
    \E j \in Jobs : /\ job[j].column = c
                    /\ Faulty(j) \/ (Faultless(j) /\ job[j].next <= n)

\* Errors are counted, and scripts are begun and ended once in a run.
Counted(j) ==
    /\ job[j].next <= Len(Script(job[j].column)) + 1
    /\ job[j].errors >= Tunes(job[j].column, job[j].next)
    /\ job[j].at = "completed" => job[j].next = Len(Script(job[j].column)) + 1
    /\ job[j].at = "none" => ~job[j].stalled
    /\ ~Begun(j) => job[j].next = 1 /\ job[j].errors = 0

\* A column is filled with the content of its row or not yet.
Filling ==
    \A c \in Columns, d \in Docs :
        /\ c \notin columns => derived[c][d] = Null
        /\ d \notin raced => derived[c][d] \in {Null, content[d]}

\* What a script has done is there, a trigger unless another script is about
\* to make it anew.
Done(j) ==
    LET c == job[j].column IN
    /\ Past(j, 1) => c \in columns
    /\ Past(j, FillAt(c)) => \A d \in Docs \ raced : derived[c][d] = content[d]
    /\ Past(j, TriggerAt(c)) => c \in triggers \/ Open(c, TriggerAt(c))

\* A trigger of a missing column is a fault, or a column about to be added.
Founded == \A c \in triggers \ columns : Open(c, 1)

IInv ==
    /\ Typed
    /\ \A j \in Jobs : Counted(j)
    /\ ~wiped => Filling /\ Founded /\ \A j \in Jobs : Done(j)

-------------------------------------------------------------------------------
(* Scripts.                                                                *)

LEMMA Scripts ==
    /\ Len(Script("vector")) = 4 /\ Len(Script("lower")) = 5
    /\ DOMAIN Script("vector") = 1 .. 4 /\ DOMAIN Script("lower") = 1 .. 5
    /\ Script("vector")[1] = "add" /\ Script("vector")[2] = "drop"
    /\ Script("vector")[3] = "create" /\ Script("vector")[4] = "fill"
    /\ Script("lower")[1] = "add" /\ Script("lower")[2] = "fill"
    /\ Script("lower")[3] = "drop" /\ Script("lower")[4] = "create"
    /\ Script("lower")[5] = "tune"
  BY DEF Script

\* Where the statements stand in either script.
LEMMA Statements ==
    ASSUME NEW c \in Columns, NEW n \in Nat \ {0}, n <= Len(Script(c))
    PROVE  /\ Len(Script(c)) \in {4, 5}
           /\ Script(c)[n] = "add" <=> n = 1
           /\ Script(c)[n] = "create" <=> n = TriggerAt(c)
           /\ Script(c)[n] = "fill" <=> n = FillAt(c)
           /\ Script(c)[n] = "drop" => n + 1 = TriggerAt(c)
           /\ Script(c)[n] = "tune" <=> c = "lower" /\ n = 5
           /\ Tunes(c, n + 1) = IF Script(c)[n] = "tune" THEN Tunes(c, n) + 1 ELSE Tunes(c, n)
           /\ Tunes(c, n) = 0
           /\ TriggerAt(c) \in {3, 4} /\ FillAt(c) \in {2, 4}
<1>1. CASE c = "vector"
  <2>0. Len(Script(c)) = 4
    BY <1>1, Scripts
  <2>1. n = 1 \/ n = 2 \/ n = 3 \/ n = 4
    BY <2>0
  <2> QED  BY <1>1, <2>0, <2>1, Scripts DEF TriggerAt, FillAt, Tunes
<1>2. CASE c = "lower"
  <2>0. Len(Script(c)) = 5
    BY <1>2, Scripts
  <2>1. n = 1 \/ n = 2 \/ n = 3 \/ n = 4 \/ n = 5
    BY <2>0
  <2> QED  BY <1>2, <2>0, <2>1, Scripts DEF TriggerAt, FillAt, Tunes
<1> QED  BY <1>1, <1>2 DEF Columns

LEMMA Places ==
    ASSUME NEW c \in Columns
    PROVE  /\ TriggerAt(c) \in Nat /\ 1 < TriggerAt(c) /\ TriggerAt(c) <= Len(Script(c))
           /\ FillAt(c) \in Nat /\ 1 < FillAt(c) /\ FillAt(c) <= Len(Script(c))
           /\ Len(Script(c)) \in Nat /\ Tunes(c, 1) = 0
  BY Scripts DEF Columns, TriggerAt, FillAt, Tunes

\* The errors that Succeeded allows.
LEMMA AllowedErrors ==
    ASSUME NEW c \in Columns
    PROVE  Cardinality({i \in DOMAIN Script(c) : Script(c)[i] = "tune"})
             = Tunes(c, Len(Script(c)) + 1)
<1>1. CASE c = "vector"
  <2>1. {i \in DOMAIN Script(c) : Script(c)[i] = "tune"} = {}
    BY <1>1, Scripts
  <2> QED  BY <1>1, <2>1, FS_EmptySet DEF Tunes
<1>2. CASE c = "lower"
  <2>1. {i \in DOMAIN Script(c) : Script(c)[i] = "tune"} = {5}
    BY <1>2, Scripts
  <2>2. Cardinality({5}) = 1
    BY FS_Singleton
  <2>3. Tunes(c, Len(Script(c)) + 1) = 1
    BY <1>2, Scripts DEF Tunes
  <2> QED  BY <2>1, <2>2, <2>3
<1> QED  BY <1>1, <1>2 DEF Columns

-------------------------------------------------------------------------------
(* Steps that leave the table alone.                                       *)

LEMMA JobTypes ==
    ASSUME Typed, NEW j \in Jobs
    PROVE  /\ job[j] \in Job
           /\ job[j].column \in Columns /\ job[j].next \in Nat \ {0}
           /\ job[j].errors \in Nat /\ job[j].stalled \in BOOLEAN
           /\ job[j].at \in {"none", "waiting", "active", "completed", "failed", "removed"}
  BY DEF Typed, Job

\* A job may be queued, begun, begun again, ended or lost: none goes beyond a
\* statement that way, and none that was begun is forgotten.
Calm(k) ==
    /\ job'[k].column = job[k].column \/ ~Begun(k)
    /\ Begun(k) => Begun(k)'
    /\ Faultless(k)' => \/ job'[k].next = 1
                        \/ /\ Faultless(k)
                           /\ job'[k].next = job[k].next
                           /\ job'[k].column = job[k].column
    /\ Counted(k)'

LEMMA CalmOpen ==
    ASSUME Typed, Typed', \A k \in Jobs : Calm(k),
           NEW c \in Columns, NEW n \in Nat \ {0}, Open(c, n)
    PROVE  Open(c, n)'
<1>1. PICK k \in Jobs : /\ job[k].column = c
                        /\ Faulty(k) \/ (Faultless(k) /\ job[k].next <= n)
  BY DEF Open
<1>2. Begun(k)
  BY <1>1 DEF Faulty, Faultless, Begun
<1>3. job'[k].column = c /\ Begun(k)'
  BY <1>1, <1>2 DEF Calm
<1>4. Faulty(k)' \/ (Faultless(k)' /\ job'[k].next <= n)
  <2>1. CASE ~Faultless(k)'
    BY <1>3, <2>1 DEF Faulty
  <2>2. CASE Faultless(k)'
    <3>1. CASE job'[k].next = 1
      BY <2>2, <3>1
    <3>2. CASE Faultless(k) /\ (job'[k].next = job[k].next)
      BY <1>1, <2>2, <3>2 DEF Faulty
    <3> QED  BY <2>2, <3>1, <3>2 DEF Calm
  <2> QED  BY <2>1, <2>2
<1> QED  BY <1>3, <1>4 DEF Open

LEMMA CalmStep ==
    ASSUME IInv, Typed', \A k \in Jobs : Calm(k), UNCHANGED <<table, raced, wiped>>
    PROVE  IInv'
<1>1. \A k \in Jobs : Counted(k)'
  BY DEF Calm
<1>2. ASSUME ~wiped' PROVE Filling' /\ Founded' /\ \A j \in Jobs : Done(j)'
  <2>1. ~wiped /\ Filling /\ Founded /\ Typed /\ \A j \in Jobs : Done(j)
    BY <1>2 DEF IInv
  <2>2. Filling'
    BY <2>1 DEF Filling, table
  <2>3. Founded'
    <3> SUFFICES ASSUME NEW c \in triggers \ columns PROVE Open(c, 1)'
      BY DEF Founded, table
    <3>1. c \in Columns /\ Open(c, 1)
      BY <2>1 DEF Founded, Typed
    <3> QED  BY <2>1, <3>1, CalmOpen
  <2>4. ASSUME NEW j \in Jobs PROVE Done(j)'
    <3>1. PICK c \in Columns : c = job'[j].column
      <4>1. job'[j] \in Job
        BY DEF Typed
      <4> QED  BY <4>1 DEF Job
    <3>2. ASSUME NEW n \in Nat \ {0}, Past(j, n)'
          PROVE  Past(j, n) /\ c = job[j].column
      BY <3>1, <3>2 DEF Past, Calm
    <3>3. Done(j)
      BY <2>1
    <3>4. Past(j, 1)' => c \in columns'
      BY <3>2, <3>3 DEF Done, table
    <3>5. Past(j, FillAt(c))' => \A d \in Docs \ raced' : derived'[c][d] = content'[d]
      BY <3>2, <3>3, Places DEF Done, table
    <3>6. Past(j, TriggerAt(c))' => c \in triggers' \/ Open(c, TriggerAt(c))'
      <4> SUFFICES ASSUME Past(j, TriggerAt(c))' PROVE c \in triggers' \/ Open(c, TriggerAt(c))'
        OBVIOUS
      <4>1. TriggerAt(c) \in Nat \ {0}
        BY Places
      <4>2. c \in triggers \/ Open(c, TriggerAt(c))
        BY <3>2, <3>3, <4>1 DEF Done
      <4> QED  BY <2>1, <4>1, <4>2, CalmOpen DEF table
    <3> QED  BY <3>1, <3>4, <3>5, <3>6 DEF Done
  <2> QED  BY <2>2, <2>3, <2>4
<1> QED  BY <1>1, <1>2 DEF IInv

\* A job that is not touched.
LEMMA Untouched ==
    ASSUME NEW k \in Jobs, Counted(k), job'[k] = job[k]
    PROVE  Calm(k)
  BY DEF Calm, Counted, Begun, Faultless

\* One job is touched, and the others are not.
LEMMA OneCalm ==
    ASSUME IInv, UNCHANGED <<table, raced, wiped>>, NEW j \in Jobs, NEW x \in Job,
           job' = [job EXCEPT ![j] = x], job'[j] = x => Calm(j)
    PROVE  IInv'
<1>1. job'[j] = x /\ \A k \in Jobs \ {j} : job'[k] = job[k]
  BY DEF IInv, Typed
<1>2. Typed'
  BY DEF IInv, Typed, table
<1>3. \A k \in Jobs : Calm(k)
  BY <1>1, Untouched DEF IInv
<1> QED  BY <1>2, <1>3, CalmStep

LEMMA QueueStep ==
    ASSUME IInv, NEW j \in Jobs, NEW c \in Columns, Queue(j, c) \/ RunAtOnce(j, c)
    PROVE  IInv'
<1>1. /\ UNCHANGED <<table, raced, wiped>> /\ job[j].at = "none"
      /\ Typed /\ Counted(j)
  BY DEF Queue, RunAtOnce, IInv
<1>2. PICK x : /\ job' = [job EXCEPT ![j] = x]
               /\ \/ x = [job[j] EXCEPT !.column = c, !.at = "waiting"]
                  \/ x = [job[j] EXCEPT !.column = c, !.at = "active", !.by = "request"]
  BY DEF Queue, RunAtOnce
<1>3. /\ x \in Job
      /\ x.column = c /\ x.next = job[j].next /\ x.errors = job[j].errors
      /\ x.stalled = job[j].stalled /\ x.at \in {"waiting", "active"}
  BY <1>1, <1>2, JobTypes DEF Job
<1>4. ~Begun(j) /\ job[j].next = 1 /\ job[j].errors = 0 /\ ~job[j].stalled
  BY <1>1 DEF Counted, Begun
<1>5. ASSUME job'[j] = x PROVE Calm(j)
  <2>1. /\ job'[j].column = c /\ job'[j].next = 1 /\ job'[j].errors = 0
        /\ job'[j].at \in {"waiting", "active"} /\ ~job'[j].stalled
    BY <1>3, <1>4, <1>5
  <2>2. Counted(j)'
    BY <2>1, Places DEF Counted
  <2> QED  BY <1>4, <2>1, <2>2 DEF Calm
<1> QED  BY <1>1, <1>2, <1>3, <1>5, OneCalm

LEMMA CancelStep ==
    ASSUME IInv, NEW j \in Jobs, CancelOptimization(j)
    PROVE  IInv'
<1>1. Typed /\ Counted(j)
  BY DEF IInv
<1>2. UNCHANGED <<table, raced, wiped>> /\ job[j].at = "waiting"
  BY <1>1, JobTypes DEF CancelOptimization, Status, MapJobState, Null
<1>3. PICK x : /\ job' = [job EXCEPT ![j] = x]
               /\ x = [job[j] EXCEPT !.at = "removed"]
  BY DEF CancelOptimization
<1>4. /\ x \in Job
      /\ x.column = job[j].column /\ x.next = job[j].next /\ x.errors = job[j].errors
      /\ x.stalled = job[j].stalled /\ x.at = "removed"
  BY <1>1, <1>3, JobTypes DEF Job
<1>5. job'[j] = x => Calm(j)
  BY <1>1, <1>2, <1>4 DEF Calm, Counted, Begun, Faultless
<1> QED  BY <1>2, <1>3, <1>4, <1>5, OneCalm

LEMMA TakeStep ==
    ASSUME IInv, NEW j \in Jobs, Take(j)
    PROVE  IInv'
<1>1. /\ UNCHANGED <<table, raced, wiped>> /\ job[j].at = "waiting"
      /\ Typed /\ Counted(j)
  BY DEF Take, IInv
<1>2. PICK x : /\ job' = [job EXCEPT ![j] = x]
               /\ \/ x = [job[j] EXCEPT !.at = "active", !.next = 1, !.errors = 0]
                  \/ x = [job[j] EXCEPT !.at = "failed"]
  BY DEF Take
<1>3. /\ x \in Job
      /\ x.column = job[j].column /\ x.stalled = job[j].stalled
      /\ \/ x.at = "active" /\ x.next = 1 /\ x.errors = 0
         \/ x.at = "failed" /\ x.next = job[j].next /\ x.errors = job[j].errors
  <2>1. CASE x = [job[j] EXCEPT !.at = "active", !.next = 1, !.errors = 0]
    <3>1. job[j] \in Job /\ 1 \in Nat \ {0} /\ 0 \in Nat
      BY <1>1, JobTypes
    <3>2. x \in Job
      BY <2>1, <3>1 DEF Job
    <3>3. x.at = "active" /\ x.next = 1 /\ x.errors = 0
      BY <2>1, <3>1 DEF Job
    <3>4. x.column = job[j].column /\ x.stalled = job[j].stalled
      BY <2>1, <3>1 DEF Job
    <3> QED  BY <3>2, <3>3, <3>4
  <2>2. CASE x = [job[j] EXCEPT !.at = "failed"]
    BY <1>1, <2>2, JobTypes DEF Job
  <2> QED  BY <1>2, <2>1, <2>2
<1>4. job'[j] = x => Calm(j)
  BY <1>1, <1>3, JobTypes, Places DEF Calm, Counted, Begun, Faultless
<1> QED  BY <1>1, <1>2, <1>3, <1>4, OneCalm

LEMMA FinishStep ==
    ASSUME IInv, NEW j \in Jobs, NEW by, NEW c, Finish(j, by, c)
    PROVE  IInv'
<1>1. /\ UNCHANGED <<table, raced, wiped>> /\ job[j].at = "active" /\ ~Running(j)
      /\ Typed /\ Counted(j)
  BY DEF Finish, IInv
<1>2. PICK x : /\ job' = [job EXCEPT ![j] = x]
               /\ \/ x = [job[j] EXCEPT !.at = "completed"]
                  \/ x = [job[j] EXCEPT !.at = "failed"]
  BY DEF Finish
<1>3. /\ x \in Job
      /\ x.column = job[j].column /\ x.next = job[j].next /\ x.errors = job[j].errors
      /\ x.stalled = job[j].stalled /\ x.at \in {"completed", "failed"}
  BY <1>1, <1>2, JobTypes DEF Job
<1>4. job[j].next = Len(Script(job[j].column)) + 1
  <2>1. job[j].column \in Columns /\ job[j].next \in Nat \ {0}
    BY <1>1, JobTypes
  <2>2. Len(Script(job[j].column)) \in Nat
    BY <2>1, Places
  <2> QED  BY <1>1, <2>1, <2>2 DEF Running, Counted
<1>5. job'[j] = x => Calm(j)
  BY <1>1, <1>3, <1>4 DEF Calm, Counted, Begun, Faultless
<1> QED  BY <1>1, <1>2, <1>3, <1>5, OneCalm

LEMMA CrashStep ==
    ASSUME IInv, JobsCrash, UNCHANGED <<table, raced, wiped>>
    PROVE  IInv'
<1>1. Typed /\ \A k \in Jobs : Counted(k)
  BY DEF IInv
<1>2. ASSUME NEW k \in Jobs
      PROVE  job'[k] \in Job /\ Calm(k)
  <2>1. PICK x : /\ x = job'[k]
                 /\ \/ x = job[k]
                    \/ job[k].at = "active" /\ x = [job[k] EXCEPT !.at = "failed"]
                    \/ /\ job[k].at = "active"
                       /\ x = [job[k] EXCEPT !.at = "waiting", !.stalled = TRUE]
    BY DEF JobsCrash
  <2>2. CASE x = job[k]
    BY <1>1, <2>1, <2>2, Untouched, JobTypes
  <2>3. CASE x # job[k]
    <3>1. /\ x \in Job
          /\ job[k].at = "active" /\ x.at \in {"failed", "waiting"}
          /\ x.at = "waiting" => x.stalled
          /\ x.column = job[k].column
          /\ x.next = job[k].next /\ x.errors = job[k].errors
      BY <1>1, <2>1, <2>3, JobTypes DEF Job
    <3> QED  BY <1>1, <2>1, <3>1 DEF Calm, Counted, Begun, Faultless
  <2> QED  BY <2>2, <2>3
<1>3. job' \in [Jobs -> Job]
  <2>1. job' = [k \in Jobs |-> job'[k]]
    BY DEF JobsCrash
  <2> QED  BY <1>2, <2>1
<1>4. Typed'
  BY <1>1, <1>3 DEF Typed, table
<1> QED  BY <1>2, <1>4, CalmStep

-------------------------------------------------------------------------------
(* Statements.                                                             *)

\* What a statement does to the job that runs it.  One after which the script
\* is still without a fault was carried out (or is the one that never is).
LEMMA Advance ==
    ASSUME IInv, NEW j \in Jobs, Statement(j),
           NEW c, c = job[j].column, NEW n, n = job[j].next, NEW s, s = Script(c)[n]
    PROVE  /\ c \in Columns /\ n \in Nat \ {0} /\ n <= Len(Script(c))
           /\ \A k \in Jobs \ {j} : job'[k] = job[k]
           /\ job'[j].column = c /\ job'[j].next = n + 1
           /\ Begun(j)' /\ Counted(j)'
           /\ Faulty(j) => Faulty(j)'
           /\ Faultless(j)' => Faultless(j) /\ (s = "tune" \/ (Possible(s, c) /\ Effect(s, c)))
           /\ (UNCHANGED table) \/ (Possible(s, c) /\ Effect(s, c))
           /\ UNCHANGED <<raced, wiped>>
           /\ job' \in [Jobs -> Job]
<1>1. Typed /\ Counted(j)
  BY DEF IInv
<1>2. c \in Columns /\ n \in Nat \ {0} /\ job[j].errors \in Nat /\ job[j] \in Job
  BY <1>1, JobTypes
<1>3. n <= Len(Script(c)) /\ job[j].at = "active"
  BY DEF Statement, Running
<1>4. PICK e \in {0, 1} :
        /\ Advanced(j, e)
        /\ (UNCHANGED table) \/ (Possible(s, c) /\ Effect(s, c))
        /\ e = 0 => Possible(s, c) /\ Effect(s, c)
        /\ s = "tune" => e = 1
        /\ UNCHANGED <<raced, wiped>>
  <2>1. s = "tune" => ~Possible(s, c)
    BY DEF Possible
  <2> QED  BY <2>1 DEF Statement
<1>5. PICK x : /\ job' = [job EXCEPT ![j] = x]
               /\ x = [job[j] EXCEPT !.next = n + 1, !.errors = job[j].errors + e]
  BY <1>4 DEF Advanced
<1>6. n + 1 \in Nat \ {0} /\ job[j].errors + e \in Nat
  BY <1>2
<1>7. x \in Job
  BY <1>2, <1>5, <1>6 DEF Job
<1>8. x.next = n + 1 /\ x.errors = job[j].errors + e
  BY <1>2, <1>5 DEF Job
<1>9. x.column = c /\ x.at = "active"
  BY <1>2, <1>3, <1>5 DEF Job
<1>10. /\ job'[j] = x /\ job' \in [Jobs -> Job]
       /\ \A k \in Jobs \ {j} : job'[k] = job[k]
  BY <1>1, <1>5, <1>7 DEF Typed
<1>11. Tunes(c, n) = 0 /\ Tunes(c, n + 1) = IF s = "tune" THEN 1 ELSE 0
  BY <1>2, <1>3, Statements
<1>12. Len(Script(c)) \in Nat
  BY <1>2, Places
<1>13. job'[j].column = c /\ job'[j].next = n + 1 /\ job'[j].at = "active"
       /\ job'[j].errors = job[j].errors + e
  BY <1>8, <1>9, <1>10
<1>14. Begun(j)' /\ Begun(j)
  BY <1>3, <1>13 DEF Begun
<1>15. Faultless(j)' <=> job[j].errors + e = Tunes(c, n + 1)
  BY <1>13 DEF Faultless
<1>16. Faultless(j) <=> job[j].errors = 0
  BY <1>3, <1>11 DEF Faultless
<1>17. Counted(j)'
  BY <1>2, <1>3, <1>4, <1>11, <1>12, <1>13, <1>14 DEF Counted
<1>18. Faulty(j) => Faulty(j)'
  BY <1>2, <1>4, <1>11, <1>14, <1>15, <1>16 DEF Faulty
<1>19. Faultless(j)' => Faultless(j) /\ (s = "tune" \/ e = 0)
  BY <1>2, <1>4, <1>11, <1>15, <1>16
<1> QED  BY <1>2, <1>3, <1>4, <1>10, <1>13, <1>14, <1>17, <1>18, <1>19

\* What a script had not done is not done by another statement.
LEMMA StatementOpen ==
    ASSUME IInv, NEW j \in Jobs, Statement(j),
           NEW c, c = job[j].column, NEW n, n = job[j].next,
           NEW d \in Columns, NEW m \in Nat, Open(d, m)
    PROVE  Open(d, m)' \/ (d = c /\ n = m /\ Faultless(j)')
<1>1. /\ c \in Columns /\ n \in Nat \ {0}
      /\ \A k \in Jobs \ {j} : job'[k] = job[k]
      /\ job'[j].column = c /\ job'[j].next = n + 1
      /\ Begun(j)'
      /\ Faulty(j) => Faulty(j)'
  BY Advance
<1>2. PICK k \in Jobs : /\ job[k].column = d
                        /\ Faulty(k) \/ (Faultless(k) /\ job[k].next <= m)
  BY DEF Open
<1>3. CASE k # j
  BY <1>1, <1>2, <1>3 DEF Open, Faulty, Faultless, Begun
<1>4. CASE k = j
  <2>1. CASE Faulty(j) \/ ~Faultless(j)'
    <3>1. Faulty(j)'
      BY <1>1, <2>1, Advance DEF Faulty
    <3> QED  BY <1>1, <1>2, <1>4, <3>1 DEF Open
  <2>2. CASE ~Faulty(j) /\ Faultless(j)'
    <3>1. n <= m /\ d = c
      BY <1>2, <1>4, <2>2
    <3>2. CASE n < m
      <4>1. n + 1 <= m
        BY <1>1, <3>2
      <4> QED  BY <1>1, <2>2, <3>1, <4>1 DEF Open
    <3>3. CASE n = m
      BY <2>2, <3>1, <3>3
    <3> QED  BY <1>1, <3>1, <3>2, <3>3
  <2> QED  BY <2>1, <2>2
<1> QED  BY <1>3, <1>4

LEMMA StatementStep ==
    ASSUME IInv, NEW j \in Jobs, Statement(j)
    PROVE  IInv'
<1>1. PICK c, n, s : c = job[j].column /\ n = job[j].next /\ s = Script(c)[n]
  OBVIOUS
<1>2. /\ c \in Columns /\ n \in Nat \ {0} /\ n <= Len(Script(c))
      /\ \A k \in Jobs \ {j} : job'[k] = job[k]
      /\ job'[j].column = c /\ job'[j].next = n + 1
      /\ Begun(j)' /\ Counted(j)'
      /\ Faulty(j) => Faulty(j)'
      /\ Faultless(j)' => Faultless(j) /\ (s = "tune" \/ (Possible(s, c) /\ Effect(s, c)))
      /\ (UNCHANGED table) \/ (Possible(s, c) /\ Effect(s, c))
      /\ UNCHANGED <<raced, wiped>>
      /\ job' \in [Jobs -> Job]
  BY <1>1, Advance
<1>3. /\ s = "add" <=> n = 1
      /\ s = "create" <=> n = TriggerAt(c)
      /\ s = "fill" <=> n = FillAt(c)
      /\ s = "drop" => n + 1 = TriggerAt(c)
      /\ s = "tune" => n = 5
      /\ TriggerAt(c) \in {3, 4} /\ FillAt(c) \in {2, 4}
  BY <1>1, <1>2, Statements
<1>4. /\ content' = content
      /\ columns' \in {columns, columns \cup {c}}
      /\ s = "add" \/ columns' = columns
      /\ triggers' \in {triggers, triggers \ {c}, triggers \cup {c}}
      /\ s = "drop" \/ triggers \subseteq triggers'
      /\ s = "create" \/ triggers' \subseteq triggers
      /\ \/ derived' = derived
         \/ /\ s = "fill" /\ c \in columns
            /\ derived' = [derived EXCEPT ![c] = [d \in Docs |->
                              IF derived[c][d] = Null THEN content[d] ELSE derived[c][d]]]
      /\ Faultless(j)' => /\ Faultless(j)
                          /\ s = "add" => c \in columns'
                          /\ s = "create" => c \in triggers'
                          /\ s = "fill" =>
                                /\ c \in columns
                                /\ derived' = [derived EXCEPT ![c] = [d \in Docs |->
                                     IF derived[c][d] = Null THEN content[d] ELSE derived[c][d]]]
  <2>1. CASE UNCHANGED table /\ ~(Possible(s, c) /\ Effect(s, c))
    BY <1>2, <2>1 DEF table
  <2>2. CASE Possible(s, c) /\ Effect(s, c)
    BY <1>2, <2>2 DEF Possible, Effect
  <2> QED  BY <1>2, <2>1, <2>2
<1>5. Typed /\ \A k \in Jobs : Counted(k)
  BY DEF IInv
<1>6. Typed'
  <2>1. derived' \in [Columns -> [Docs -> Values]]
    BY <1>2, <1>4, <1>5 DEF Typed
  <2> QED  BY <1>2, <1>4, <1>5, <2>1 DEF Typed
<1>7. \A k \in Jobs : Counted(k)'
  BY <1>2, <1>5 DEF Counted, Begun
<1>8. ASSUME ~wiped' PROVE Filling' /\ Founded' /\ \A k \in Jobs : Done(k)'
  <2>1. ~wiped /\ Filling /\ Founded /\ \A k \in Jobs : Done(k)
    BY <1>2, <1>8 DEF IInv
  <2>2. ASSUME NEW d \in Columns, NEW m \in Nat, Open(d, m)
        PROVE  Open(d, m)' \/ (d = c /\ n = m /\ Faultless(j)')
    BY <1>1, <2>2, StatementOpen
  <2>3. \A e \in Docs : derived'[c][e] = derived[c][e]
                        \/ (derived[c][e] = Null /\ derived'[c][e] = content[e])
    BY <1>2, <1>4, <1>5 DEF Typed
  <2>4. \A d \in Columns : d # c => derived'[d] = derived[d]
    BY <1>2, <1>4, <1>5 DEF Typed
  <2>5. Filling'
    <3> SUFFICES ASSUME NEW d \in Columns, NEW e \in Docs
                 PROVE  /\ d \notin columns' => derived'[d][e] = Null
                        /\ e \notin raced => derived'[d][e] \in {Null, content[e]}
      BY <1>2, <1>4 DEF Filling
    <3>1. /\ d \notin columns => derived[d][e] = Null
          /\ e \notin raced => derived[d][e] \in {Null, content[e]}
      BY <2>1 DEF Filling
    <3>2. d \notin columns' => d \notin columns
      BY <1>4
    <3>3. d \notin columns => derived'[d] = derived[d]
      BY <1>2, <1>4, <1>5 DEF Typed
    <3> QED  BY <2>3, <2>4, <3>1, <3>2, <3>3
  <2>6. Founded'
    <3> SUFFICES ASSUME NEW d \in triggers' \ columns' PROVE Open(d, 1)'
      BY DEF Founded
    <3>1. d \in Columns /\ d \notin columns
      BY <1>4, <1>6 DEF Typed
    <3>2. CASE d \in triggers
      <4>1. Open(d, 1)
        BY <2>1, <3>1, <3>2 DEF Founded
      <4>2. ~(d = c /\ n = 1 /\ Faultless(j)')
        BY <1>3, <1>4
      <4> QED  BY <2>2, <3>1, <4>1, <4>2
    <3>3. CASE d \notin triggers
      <4>1. d = c /\ s = "create"
        BY <1>4, <3>3
      <4>2. n > 1
        BY <1>3, <4>1
      <4>3. ~Past(j, 1)
        BY <1>1, <2>1, <3>1, <4>1 DEF Done
      <4>4. ~Faultless(j)'
        BY <1>1, <1>4, <4>2, <4>3 DEF Past
      <4>5. Faulty(j)'
        BY <1>2, <4>4 DEF Faulty
      <4> QED  BY <1>2, <4>1, <4>5 DEF Open
    <3> QED  BY <3>2, <3>3
  <2>7. ASSUME NEW k \in Jobs PROVE Done(k)'
    <3>1. PICK d \in Columns : d = job[k].column /\ d = job'[k].column
      BY <1>1, <1>2, <1>5, JobTypes
    <3>2. ASSUME NEW m \in Nat \ {0}, Past(k, m)'
          PROVE  Past(k, m) \/ (k = j /\ d = c /\ m = n /\ Faultless(j)')
      <4>1. CASE k # j
        BY <1>2, <3>2, <4>1 DEF Past, Faultless
      <4>2. CASE k = j
        <5>1. Faultless(j)' /\ Faultless(j) /\ n + 1 > m
          BY <1>2, <1>4, <3>2, <4>2 DEF Past
        <5>2. n > m \/ n = m
          BY <1>2, <5>1
        <5> QED  BY <1>1, <3>1, <4>2, <5>1, <5>2 DEF Past
      <4> QED  BY <4>1, <4>2
    <3>3. /\ Past(k, 1) => d \in columns
          /\ Past(k, FillAt(d)) => \A e \in Docs \ raced : derived[d][e] = content[e]
          /\ Past(k, TriggerAt(d)) => d \in triggers \/ Open(d, TriggerAt(d))
      BY <2>1, <3>1 DEF Done
    <3>4. Past(k, 1)' => d \in columns'
      BY <1>3, <1>4, <3>2, <3>3
    <3>5. ASSUME Past(k, FillAt(d))', NEW e \in Docs \ raced
          PROVE  derived'[d][e] = content[e]
      <4>1. Past(k, FillAt(d)) \/ (d = c /\ s = "fill" /\ Faultless(j)')
        BY <1>3, <3>2, <3>5, Places
      <4>2. CASE Past(k, FillAt(d))
        BY <2>3, <2>4, <3>3, <4>2
      <4>3. CASE d = c /\ s = "fill" /\ Faultless(j)'
        <5>1. derived[c][e] \in {Null, content[e]}
          BY <1>2, <2>1 DEF Filling
        <5>2. derived'[c][e] = IF derived[c][e] = Null THEN content[e] ELSE derived[c][e]
          BY <1>2, <1>4, <1>5, <4>3 DEF Typed
        <5> QED  BY <4>3, <5>1, <5>2
      <4> QED  BY <4>1, <4>2, <4>3
    <3>6. ASSUME Past(k, TriggerAt(d))'
          PROVE  d \in triggers' \/ Open(d, TriggerAt(d))'
      <4>1. TriggerAt(d) \in Nat \ {0}
        BY Places
      <4>2. Past(k, TriggerAt(d)) \/ (d = c /\ s = "create" /\ Faultless(j)')
        BY <1>3, <3>2, <3>6, <4>1
      <4>3. CASE d = c /\ s = "create" /\ Faultless(j)'
        BY <1>4, <4>3
      <4>4. CASE Past(k, TriggerAt(d)) /\ d \in triggers
        <5>1. CASE d \in triggers'
          BY <5>1
        <5>2. CASE d \notin triggers'
          <6>1. d = c /\ s = "drop"
            BY <1>4, <4>4, <5>2
          <6>2. job'[j].next = TriggerAt(d) /\ job'[j].column = d
            BY <1>2, <1>3, <6>1
          <6>3. Faulty(j)' \/ Faultless(j)'
            BY <1>2 DEF Faulty
          <6>4. job'[j].next <= TriggerAt(d)
            BY <4>1, <6>2
          <6> QED  BY <6>2, <6>3, <6>4 DEF Open
        <5> QED  BY <5>1, <5>2
      <4>5. CASE Open(d, TriggerAt(d))
        <5>1. Open(d, TriggerAt(d))' \/ (d = c /\ n = TriggerAt(d) /\ Faultless(j)')
          BY <2>2, <4>1, <4>5
        <5> QED  BY <1>3, <1>4, <5>1
      <4> QED  BY <3>3, <4>2, <4>3, <4>4, <4>5
    <3> QED  BY <1>2, <1>4, <3>1, <3>4, <3>5, <3>6 DEF Done
  <2> QED  BY <2>5, <2>6, <2>7
<1> QED  BY <1>6, <1>7, <1>8 DEF IInv

-------------------------------------------------------------------------------
(* The other steps.                                                        *)

LEMMA WriteStep ==
    ASSUME IInv, NEW d \in Docs, NEW v \in Values, Write(d, v)
    PROVE  IInv'
<1>1. Typed /\ \A k \in Jobs : Counted(k)
  BY DEF IInv
<1>2. /\ UNCHANGED <<columns, triggers, job, wiped>>
      /\ v = Null \/ triggers \subseteq columns
      /\ content' = [content EXCEPT ![d] = v]
      /\ derived' = [c \in Columns |-> [derived[c] EXCEPT ![d] =
                        IF v = Null \/ c \in triggers THEN v ELSE derived[c][d]]]
      /\ raced' = IF columns \subseteq triggers \/ v = Null THEN raced \ {d}
                  ELSE raced \cup {d}
  BY DEF Write
<1>3. Typed'
  <2>1. content' \in [Docs -> Values]
    BY <1>1, <1>2 DEF Typed
  <2>2. derived' \in [Columns -> [Docs -> Values]]
    BY <1>1, <1>2 DEF Typed
  <2> QED  BY <1>1, <1>2, <2>1, <2>2 DEF Typed
<1>4. /\ content'[d] = v
      /\ \A e \in Docs : e # d => content'[e] = content[e]
      /\ \A c \in Columns :
            /\ derived'[c][d] = IF v = Null \/ c \in triggers THEN v ELSE derived[c][d]
            /\ \A e \in Docs : e # d => derived'[c][e] = derived[c][e]
      /\ \A e \in Docs : e # d => (e \in raced' <=> e \in raced)
      /\ d \in raced' \/ v = Null \/ columns \subseteq triggers
  <2>1. \A c \in Columns : derived'[c] = [derived[c] EXCEPT ![d] =
                        IF v = Null \/ c \in triggers THEN v ELSE derived[c][d]]
    BY <1>2
  <2>2. \A c \in Columns : derived[c] \in [Docs -> Values]
    BY <1>1 DEF Typed
  <2>3. \A c \in Columns :
            /\ derived'[c][d] = IF v = Null \/ c \in triggers THEN v ELSE derived[c][d]
            /\ \A e \in Docs : e # d => derived'[c][e] = derived[c][e]
    BY <2>1, <2>2
  <2> QED  BY <1>1, <1>2, <2>3 DEF Typed
<1>5. /\ \A k \in Jobs : Counted(k)' /\ job' = job
      /\ \A k \in Jobs, n \in Nat : Past(k, n)' <=> Past(k, n)
      /\ \A c \in Columns, n \in Nat : Open(c, n)' <=> Open(c, n)
  BY <1>1, <1>2 DEF Counted, Past, Open, Faulty, Faultless, Begun
<1>6. ASSUME ~wiped' PROVE Filling' /\ Founded' /\ \A k \in Jobs : Done(k)'
  <2>1. ~wiped /\ Filling /\ Founded /\ \A k \in Jobs : Done(k)
    BY <1>2, <1>6 DEF IInv
  <2>2. Filling'
    <3> SUFFICES ASSUME NEW c \in Columns, NEW e \in Docs
                 PROVE  /\ c \notin columns => derived'[c][e] = Null
                        /\ e \notin raced' => derived'[c][e] \in {Null, content'[e]}
      BY <1>2 DEF Filling
    <3>1. /\ c \notin columns => derived[c][e] = Null
          /\ e \notin raced => derived[c][e] \in {Null, content[e]}
      BY <2>1 DEF Filling
    <3>2. CASE e # d
      BY <1>4, <3>1, <3>2
    <3>3. CASE e = d
      BY <1>2, <1>4, <3>1, <3>3
    <3> QED  BY <3>2, <3>3
  <2>3. Founded'
    BY <1>1, <1>2, <1>5, <2>1 DEF Founded, Typed
  <2>4. ASSUME NEW k \in Jobs PROVE Done(k)'
    <3>1. PICK c \in Columns : c = job[k].column
      BY <1>1, JobTypes
    <3>2. FillAt(c) \in Nat /\ TriggerAt(c) \in Nat /\ 1 < FillAt(c)
      BY Places
    <3>3. /\ Past(k, 1) => c \in columns
          /\ Past(k, FillAt(c)) => \A e \in Docs \ raced : derived[c][e] = content[e]
          /\ Past(k, TriggerAt(c)) => c \in triggers \/ Open(c, TriggerAt(c))
      BY <2>1, <3>1 DEF Done
    <3>4. Past(k, FillAt(c)) => c \in columns
      <4>1. job[k].next \in Nat
        BY <1>1, JobTypes
      <4> QED  BY <3>2, <3>3, <4>1 DEF Past
    <3>5. ASSUME Past(k, FillAt(c)), NEW e \in Docs \ raced'
          PROVE  derived'[c][e] = content'[e]
      <4>1. CASE e # d
        BY <1>4, <3>3, <3>5, <4>1
      <4>2. CASE e = d
        BY <1>4, <3>4, <3>5, <4>2
      <4> QED  BY <4>1, <4>2
    <3> QED  BY <1>2, <1>5, <3>1, <3>2, <3>3, <3>5 DEF Done
  <2> QED  BY <2>2, <2>3, <2>4
<1> QED  BY <1>3, <1>5, <1>6 DEF IInv

LEMMA CleanStep ==
    ASSUME IInv, InitCleanDatabase
    PROVE  IInv'
<1>1. /\ wiped' /\ job' = job
      /\ content' = Unfilled /\ columns' = {} /\ triggers' = {}
      /\ derived' = [c \in Columns |-> Unfilled] /\ raced' = {}
  BY DEF InitCleanDatabase
<1>2. Unfilled \in [Docs -> Values]
  BY DEF Unfilled, Values
<1>3. Typed'
  BY <1>1, <1>2 DEF IInv, Typed
<1>4. \A k \in Jobs : Counted(k)'
  BY <1>1 DEF IInv, Counted, Begun
<1> QED  BY <1>1, <1>3, <1>4 DEF IInv

LEMMA Stuttering ==
    ASSUME IInv, UNCHANGED <<table, job, raced, wiped>>
    PROVE  IInv'
<1>1. Typed'
  BY DEF IInv, Typed, table
<1>2. \A k \in Jobs : Calm(k)
  BY Untouched DEF IInv
<1> QED  BY <1>1, <1>2, CalmStep

LEMMA InitIInv == Init => IInv
<1> SUFFICES ASSUME Init PROVE IInv
  OBVIOUS
<1>1. /\ content \in Contents
      /\ columns \in {{}, {"vector"}} /\ triggers = columns
      /\ derived = [c \in Columns |-> IF c \in columns THEN content ELSE Unfilled]
      /\ job = [j \in Jobs |-> NoJob] /\ raced = {}
  BY DEF Init, OptInit
<1>2. content \in [Docs -> Values] /\ Unfilled \in [Docs -> Values]
  BY <1>1, OptimizationAssumption DEF Unfilled, Values
<1>3. NoJob \in Job
  BY DEF NoJob, Job, Columns
<1>4. Typed
  <2>1. derived \in [Columns -> [Docs -> Values]]
    BY <1>1, <1>2
  <2> QED  BY <1>1, <1>2, <1>3, <2>1 DEF Typed, Columns
<1>5. ASSUME NEW j \in Jobs
      PROVE  /\ job[j].column = "vector" /\ job[j].next = 1 /\ job[j].errors = 0
             /\ job[j].at = "none" /\ ~job[j].stalled
  BY <1>1 DEF NoJob
<1>6. ASSUME NEW j \in Jobs PROVE Counted(j) /\ Done(j)
  BY <1>5, Scripts DEF Counted, Done, Past, Faultless, Tunes
<1>7. Filling
  BY <1>1 DEF Filling, Unfilled
<1>8. Founded
  BY <1>1 DEF Founded
<1> QED  BY <1>4, <1>6, <1>7, <1>8 DEF IInv

LEMMA TableStep ==
    ASSUME IInv, OptNext
    PROVE  IInv'
<1>1. ASSUME NEW j \in Jobs, QueueOptimization(j) \/ QueueSearchPerformanceOptimization(j)
      PROVE  IInv'
  BY <1>1, QueueStep DEF QueueOptimization, QueueSearchPerformanceOptimization, Columns
<1>2. ASSUME NEW j \in Jobs, CompleteSearchOptimization(j) \/ OptimizeSearchPerformance(j)
      PROVE  IInv'
  BY <1>2, QueueStep DEF CompleteSearchOptimization, OptimizeSearchPerformance, Columns
<1>3. ASSUME NEW j \in Jobs, CancelOptimization(j) PROVE IInv'
  BY <1>3, CancelStep
<1>4. ASSUME NEW j \in Jobs, Process(j) PROVE IInv'
  <2>1. CASE Take(j)
    BY <2>1, TakeStep
  <2>2. CASE Statement(j)
    BY <2>2, StatementStep
  <2>3. CASE \/ FinishOptimization(j) \/ FinishSearchPerformance(j)
             \/ AnswerCompleteOptimization(j) \/ AnswerSearchPerformance(j)
    BY <2>3, FinishStep DEF FinishOptimization, FinishSearchPerformance,
                            AnswerCompleteOptimization, AnswerSearchPerformance
  <2> QED  BY <1>4, <2>1, <2>2, <2>3 DEF Process
<1>5. CASE InitCleanDatabase
  BY <1>5, CleanStep
<1>6. ASSUME NEW d \in Docs, NEW v \in Versions \cup {Null}, Write(d, v) PROVE IInv'
  BY <1>6, WriteStep DEF Values
<1> QED  BY <1>1, <1>2, <1>3, <1>4, <1>5, <1>6 DEF OptNext

\* Clients do not touch the table nor the jobs.
LEMMA ClientsRead ==
    ASSUME NEW r \in Clients, Client(r)
    PROVE  UNCHANGED <<table, job, raced, wiped>>
  BY DEF Client, Search, NextPage, Build, CheckColumns, QueryData, QueryCount, Answer,
         Leave, optVars

LEMMA NextIInv == IInv /\ [Next]_vars => IInv'
<1> SUFFICES ASSUME IInv, [Next]_vars PROVE IInv'
  OBVIOUS
<1>1. CASE Table
  BY <1>1, TableStep DEF Table
<1>2. CASE Crash
  BY <1>2, CrashStep DEF Crash
<1>3. ASSUME NEW r \in Clients, Client(r) PROVE IInv'
  BY <1>3, ClientsRead, Stuttering
<1>4. CASE UNCHANGED vars
  BY <1>4, Stuttering DEF vars, optVars
<1> QED  BY <1>1, <1>2, <1>3, <1>4 DEF Next

\* When nothing but scripts that succeeded has run, none is open.
LEMMA NothingOpen ==
    ASSUME IInv, Untroubled, NEW c \in Columns, NEW n \in Nat, n <= Len(Script(c))
    PROVE  ~Open(c, n)
<1> SUFFICES ASSUME NEW j \in Jobs, job[j].column = c,
                    Faulty(j) \/ (Faultless(j) /\ job[j].next <= n)
             PROVE  FALSE
  BY DEF Open
<1>1. Typed /\ Counted(j)
  BY DEF IInv
<1>2. CASE Unused(j)
  BY <1>2 DEF Unused, Faulty, Faultless, Begun
<1>3. CASE Succeeded(j)
  <2>1. job[j].next = Len(Script(c)) + 1
    BY <1>1, <1>3 DEF Counted, Succeeded
  <2>2. Faultless(j)
    BY <1>3, <2>1, AllowedErrors DEF Succeeded, Faultless
  <2> QED  BY <2>1, <2>2, Places DEF Faulty
<1> QED  BY <1>2, <1>3 DEF Untroubled

LEMMA SuccessFollows == IInv => SuccessMeansFollowed
<1> SUFFICES ASSUME IInv, Untroubled, ~wiped
             PROVE  /\ triggers \subseteq columns
                    /\ \A j \in Jobs : Succeeded(j) =>
                        /\ job[j].column \in columns \cap triggers
                        /\ \A d \in Docs \ raced : derived[job[j].column][d] = content[d]
  BY DEF SuccessMeansFollowed
<1>1. Typed /\ Filling /\ Founded /\ \A j \in Jobs : Counted(j) /\ Done(j)
  BY DEF IInv
<1>2. triggers \subseteq columns
  <2> SUFFICES ASSUME NEW c \in triggers \ columns PROVE FALSE
    OBVIOUS
  <2>1. c \in Columns /\ Open(c, 1)
    BY <1>1 DEF Founded, Typed
  <2>2. 1 <= Len(Script(c))
    BY <2>1, Places
  <2> QED  BY <2>1, <2>2, NothingOpen
<1>3. ASSUME NEW j \in Jobs, Succeeded(j)
      PROVE  /\ job[j].column \in columns \cap triggers
             /\ \A d \in Docs \ raced : derived[job[j].column][d] = content[d]
  <2>1. PICK c \in Columns : c = job[j].column
    BY <1>1, JobTypes
  <2>2. job[j].next = Len(Script(c)) + 1
    BY <1>1, <1>3, <2>1 DEF Counted, Succeeded
  <2>3. Faultless(j)
    BY <1>3, <2>1, <2>2, AllowedErrors DEF Succeeded, Faultless
  <2>4. Past(j, 1) /\ Past(j, FillAt(c)) /\ Past(j, TriggerAt(c))
    BY <2>2, <2>3, Places DEF Past
  <2>5. ~Open(c, TriggerAt(c))
    BY NothingOpen, Places
  <2> QED  BY <1>1, <2>1, <2>4, <2>5 DEF Done
<1> QED  BY <1>2, <1>3

\* When every optimization script that ran reports no error but those that it
\* always has, its column and trigger are there and the values are those of the
\* contents, but for rows written between the two
\* (database-optimization.service.ts:202).
THEOREM SuccessIsFollowed == Spec => []SuccessMeansFollowed
<1>1. Spec => []IInv
  BY InitIInv, NextIInv, PTL DEF Spec
<1> QED  BY <1>1, SuccessFollows, PTL

-------------------------------------------------------------------------------
(* What the engine remembers of the columns.                               *)

\* Walks have the fields that the steps read and set.
Walking ==
    /\ DOMAIN req = Clients
    /\ \A r \in Clients : {"at", "kind", "lower"} \subseteq DOMAIN req[r]

\* Lower-case columns that the engine believes in are there.
Believed ==
    \/ wiped
    \/ "lower" \in columns
    \/ /\ known # "yes" /\ template # "yes"
       /\ \A r \in Clients : req[r].lower # TRUE

ColumnsInv == Walking /\ Believed

TroublesType == troubles \in Nat

\* Columns are not taken away but with the schema.
LEMMA ColumnsStay ==
    ASSUME OptNext
    PROVE  /\ wiped => wiped'
           /\ ~wiped' => columns \subseteq columns'
<1>1. ASSUME NEW j \in Jobs, QueueOptimization(j) \/ QueueSearchPerformanceOptimization(j)
                 \/ CompleteSearchOptimization(j) \/ OptimizeSearchPerformance(j)
                 \/ CancelOptimization(j)
      PROVE  UNCHANGED <<columns, wiped>>
  BY <1>1 DEF QueueOptimization, QueueSearchPerformanceOptimization, Queue, RunAtOnce,
              CompleteSearchOptimization, OptimizeSearchPerformance, CancelOptimization,
              table
<1>2. ASSUME NEW j \in Jobs, Process(j)
      PROVE  wiped' = wiped /\ columns \subseteq columns'
  <2>1. CASE Statement(j)
    BY <2>1 DEF Statement, Effect, table
  <2>2. CASE ~Statement(j)
    BY <1>2, <2>2 DEF Process, Take, FinishOptimization, FinishSearchPerformance, Finish,
                      AnswerCompleteOptimization, AnswerSearchPerformance, table
  <2> QED  BY <2>1, <2>2
<1>3. InitCleanDatabase => wiped'
  BY DEF InitCleanDatabase
<1>4. ASSUME NEW d \in Docs, NEW v \in Versions \cup {Null}, Write(d, v)
      PROVE  UNCHANGED <<columns, wiped>>
  BY <1>4 DEF Write
<1> QED  BY <1>1, <1>2, <1>3, <1>4 DEF OptNext

LEMMA TableBelieved ==
    ASSUME ColumnsInv, Table
    PROVE  /\ ColumnsInv'
           /\ \A r \in Clients : req'[r].at = req[r].at
<1>1. /\ wiped => wiped'
      /\ ~wiped' => columns \subseteq columns'
      /\ UNCHANGED <<known, template>>
  BY ColumnsStay DEF Table
<1>2. /\ DOMAIN req' = Clients
      /\ \A r \in Clients : /\ {"at", "kind", "lower"} \subseteq DOMAIN req'[r]
                            /\ req'[r].lower = req[r].lower /\ req'[r].at = req[r].at
  <2>1. CASE UNCHANGED req
    BY <2>1 DEF ColumnsInv, Walking
  <2>2. CASE req' = [r \in Clients |-> IF req[r].at = "idle" THEN req[r]
                                   ELSE [req[r] EXCEPT !.quiet = FALSE, !.seen = <<>>]]
    <3>1. DOMAIN req' = Clients
      BY <2>2
    <3>2. ASSUME NEW r \in Clients
          PROVE  /\ {"at", "kind", "lower"} \subseteq DOMAIN req'[r]
                 /\ req'[r].lower = req[r].lower /\ req'[r].at = req[r].at
      <4>1. {"at", "kind", "lower"} \subseteq DOMAIN req[r]
        BY DEF ColumnsInv, Walking
      <4>2. \/ req'[r] = req[r]
            \/ req'[r] = [req[r] EXCEPT !.quiet = FALSE, !.seen = <<>>]
        BY <2>2
      <4> QED  BY <4>1, <4>2
    <3> QED  BY <3>1, <3>2
  <2> QED  BY <2>1, <2>2 DEF Table, Disturbed
<1> QED  BY <1>1, <1>2 DEF ColumnsInv, Walking, Believed

\* A client changes its own walk, and looks at the columns before it believes
\* in them.
LEMMA ClientWalks ==
    ASSUME ColumnsInv, NEW r \in Clients, Client(r)
    PROVE  /\ DOMAIN req' = Clients
           /\ \A k \in Clients \ {r} : /\ {"at", "kind", "lower"} \subseteq DOMAIN req'[k]
                                        /\ req'[k].at = req[k].at
                                        /\ req'[k].lower = req[k].lower
           /\ {"at", "kind", "lower"} \subseteq DOMAIN req'[r]
           /\ req'[r].lower = TRUE => \/ req[r].lower = TRUE
                                      \/ known = "yes" \/ template = "yes"
                                      \/ "lower" \in columns
           /\ known' = "yes" => known = "yes" \/ "lower" \in columns
           /\ template' = "yes" => \/ template = "yes" \/ known = "yes"
                                   \/ "lower" \in columns
<1>1. DOMAIN req = Clients /\ \A k \in Clients : {"at", "kind", "lower"} \subseteq DOMAIN req[k]
  BY DEF ColumnsInv, Walking
<1>2. ASSUME NEW x, req' = [req EXCEPT ![r] = x]
      PROVE  /\ DOMAIN req' = Clients /\ req'[r] = x
             /\ \A k \in Clients \ {r} : /\ {"at", "kind", "lower"} \subseteq DOMAIN req'[k]
                                          /\ req'[k].at = req[k].at
                                          /\ req'[k].lower = req[k].lower
  BY <1>1, <1>2
<1>3. CASE \E q \in Queries : Search(r, q)
  <2>1. PICK x : /\ req' = [req EXCEPT ![r] = x]
                 /\ \E k : x = [Nobody EXCEPT !.at = "build", !.kind = k]
    BY <1>3 DEF Search
  <2>2. {"at", "kind", "lower"} \subseteq DOMAIN x /\ x.lower = FALSE
    BY <2>1 DEF Nobody
  <2> QED  BY <1>2, <1>3, <2>1, <2>2 DEF Search
<1>4. CASE NextPage(r)
  <2>1. PICK x : /\ req' = [req EXCEPT ![r] = x]
                 /\ x = [req[r] EXCEPT !.at = "build", !.from = req[r].from + Size,
                                       !.data = FALSE, !.count = FALSE]
    BY <1>4 DEF NextPage
  <2>2. {"at", "kind", "lower"} \subseteq DOMAIN x /\ x.lower = req[r].lower
    BY <1>1, <2>1
  <2> QED  BY <1>2, <1>4, <2>1, <2>2 DEF NextPage
<1>5. CASE Build(r)
  <2>1. PICK x, k :
          /\ req' = [req EXCEPT ![r] = x]
          /\ k \in {template, known}
          /\ \/ x = [req[r] EXCEPT !.at = "run", !.lower = (k = "yes")] /\ template' = k
             \/ x = [req[r] EXCEPT !.at = "columns"] /\ UNCHANGED template
    BY <1>5 DEF Build
  <2>2. /\ {"at", "kind", "lower"} \subseteq DOMAIN x
        /\ x.lower = TRUE => req[r].lower = TRUE \/ k = "yes"
    BY <1>1, <2>1
  <2> QED  BY <1>2, <1>5, <2>1, <2>2 DEF Build
<1>6. CASE CheckColumns(r)
  <2>1. PICK k \in {"yes", "no"} :
          /\ Remembers(r, k)
          /\ k = "no" \/ "lower" \in columns
    BY <1>6 DEF CheckColumns
  <2>2. DOMAIN req' = Clients /\ known' = k /\ template' = k
    BY <2>1 DEF Remembers
  <2>3. req'[r] = [req[r] EXCEPT !.at = "run", !.lower = k = "yes"]
    BY <2>1 DEF Remembers
  <2>4. {"at", "kind", "lower"} \subseteq DOMAIN req'[r] /\ req'[r].lower = (k = "yes")
    BY <1>1, <2>3
  <2>5. ASSUME NEW m \in Clients \ {r}
        PROVE  /\ {"at", "kind", "lower"} \subseteq DOMAIN req'[m]
               /\ req'[m].at = req[m].at /\ req'[m].lower = req[m].lower
    <3>1. \/ req'[m] = req[m]
          \/ req'[m] = [req[m] EXCEPT !.quiet = FALSE, !.seen = <<>>]
      BY <2>1 DEF Remembers
    <3> QED  BY <1>1, <3>1
  <2> QED  BY <2>1, <2>2, <2>4, <2>5
<1>7. CASE QueryData(r) \/ QueryCount(r) \/ Answer(r) \/ Leave(r)
  <2>1. UNCHANGED <<known, template>>
    BY <1>7 DEF QueryData, QueryCount, Answer, Leave
  <2>2. PICK a, b :
          \/ req' = [req EXCEPT ![r] = [Nobody EXCEPT !.at = "failed"]]
          \/ req' = [req EXCEPT ![r] = Nobody]
          \/ req' = [req EXCEPT ![r].data = TRUE, ![r].rows = a]
          \/ req' = [req EXCEPT ![r].count = TRUE, ![r].total = a]
          \/ req' = [req EXCEPT ![r].seen = a, ![r].at = b]
    <3>1. CASE QueryData(r)
      BY <3>1 DEF QueryData, Fail
    <3>2. CASE QueryCount(r)
      BY <3>2 DEF QueryCount, Fail
    <3>3. CASE Answer(r)
      BY <3>3 DEF Answer
    <3>4. CASE Leave(r)
      BY <3>4 DEF Leave
    <3> QED  BY <1>7, <3>1, <3>2, <3>3, <3>4
  <2>3. /\ DOMAIN req' = Clients
        /\ \A k \in Clients \ {r} : /\ {"at", "kind", "lower"} \subseteq DOMAIN req'[k]
                                     /\ req'[k].at = req[k].at
                                     /\ req'[k].lower = req[k].lower
        /\ {"at", "kind", "lower"} \subseteq DOMAIN req'[r]
        /\ req'[r].lower = TRUE => req[r].lower = TRUE
    <3>1. CASE req' = [req EXCEPT ![r] = [Nobody EXCEPT !.at = "failed"]]
      BY <1>1, <3>1 DEF Nobody
    <3>2. CASE req' = [req EXCEPT ![r] = Nobody]
      BY <1>1, <3>2 DEF Nobody
    <3>3. CASE req' = [req EXCEPT ![r].data = TRUE, ![r].rows = a]
      BY <1>1, <3>3
    <3>4. CASE req' = [req EXCEPT ![r].count = TRUE, ![r].total = a]
      BY <1>1, <3>4
    <3>5. CASE req' = [req EXCEPT ![r].seen = a, ![r].at = b]
      BY <1>1, <3>5
    <3> QED  BY <2>2, <3>1, <3>2, <3>3, <3>4, <3>5
  <2> QED  BY <2>1, <2>3
<1> QED  BY <1>3, <1>4, <1>5, <1>6, <1>7 DEF Client

LEMMA NextColumnsInv == ColumnsInv /\ [Next]_vars => ColumnsInv'
<1> SUFFICES ASSUME ColumnsInv, [Next]_vars PROVE ColumnsInv'
  OBVIOUS
<1>1. CASE Table
  BY <1>1, TableBelieved
<1>2. CASE Crash
  BY <1>2 DEF Crash, ColumnsInv, Walking, Believed, Nobody
<1>3. ASSUME NEW r \in Clients, Client(r) PROVE ColumnsInv'
  <2>1. UNCHANGED <<columns, wiped>>
    BY <1>3, ClientsRead DEF table
  <2> QED  BY <1>3, <2>1, ClientWalks DEF ColumnsInv, Walking, Believed
<1>4. CASE UNCHANGED vars
  BY <1>4 DEF vars, optVars, table, ColumnsInv, Walking, Believed
<1> QED  BY <1>1, <1>2, <1>3, <1>4 DEF Next

\* Only a statement that names a missing column fails by itself.
LEMMA FailsWithoutColumns ==
    ASSUME ColumnsInv, [Next]_vars, NEW r \in Clients,
           req[r].at = "run", req'[r].at = "failed", troubles' = troubles,
           troubles \in Nat
    PROVE  "vector" \notin columns \/ wiped
<1>1. ~Table
  BY TableBelieved
<1>2. ~Crash
  BY DEF Crash, Trouble
<1>3. ~UNCHANGED vars
  BY DEF vars
<1>4. PICK k \in Clients : Client(k)
  BY <1>1, <1>2, <1>3 DEF Next
<1>5. k = r
  BY <1>4, ClientWalks
<1>6. DOMAIN req = Clients /\ {"at", "kind", "lower"} \subseteq DOMAIN req[r]
  BY DEF ColumnsInv, Walking
<1>7. ~Trouble
  BY DEF Trouble
<1>8. CASE QueryData(r)
  <2>1. \/ ~Executes(req[r].kind, req[r].lower /\ req[r].kind # "wildcard")
        \/ \E a : req' = [req EXCEPT ![r].data = TRUE, ![r].rows = a]
    BY <1>8, <1>7 DEF QueryData
  <2>2. ~Executes(req[r].kind, req[r].lower /\ req[r].kind # "wildcard")
    BY <1>6, <2>1
  <2> QED  BY <2>2 DEF Executes, ColumnsInv, Believed
<1>9. CASE QueryCount(r)
  <2>1. \/ ~Executes(req[r].kind, req[r].lower)
        \/ \E a : req' = [req EXCEPT ![r].count = TRUE, ![r].total = a]
    BY <1>9, <1>7 DEF QueryCount
  <2>2. ~Executes(req[r].kind, req[r].lower)
    BY <1>6, <2>1
  <2> QED  BY <2>2 DEF Executes, ColumnsInv, Believed
<1>10. CASE Answer(r)
  <2>1. PICK a \in {"page", "end"} : \E b :
          req' = [req EXCEPT ![r].seen = b, ![r].at = a]
    BY <1>10 DEF Answer
  <2> QED  BY <1>6, <2>1
<1> QED  BY <1>4, <1>5, <1>6, <1>8, <1>9, <1>10
         DEF Client, Search, NextPage, Build, CheckColumns, Leave

LEMMA NextTroubles == TroublesType /\ [Next]_vars => TroublesType'
<1> SUFFICES ASSUME troubles \in Nat, [Next]_vars PROVE troubles' \in Nat
  BY DEF TroublesType
<1>1. Trouble \/ Fine => troubles' \in Nat
  BY DEF Trouble, Fine
<1>2. CASE Table
  <2>1. ASSUME NEW j \in Jobs, Process(j) PROVE Trouble \/ Fine
    BY <2>1 DEF Process, Take, Statement, FinishOptimization, FinishSearchPerformance,
                Finish, AnswerCompleteOptimization, AnswerSearchPerformance
  <2>2. ASSUME NEW j \in Jobs, QueueOptimization(j) \/ QueueSearchPerformanceOptimization(j)
                   \/ CompleteSearchOptimization(j) \/ OptimizeSearchPerformance(j)
                   \/ CancelOptimization(j)
        PROVE  Fine
    BY <2>2 DEF QueueOptimization, QueueSearchPerformanceOptimization, Queue, RunAtOnce,
                CompleteSearchOptimization, OptimizeSearchPerformance, CancelOptimization,
                Fine
  <2>3. ASSUME NEW d \in Docs, NEW v, Write(d, v) PROVE Fine
    BY <2>3 DEF Write, Fine
  <2>4. InitCleanDatabase => Fine
    BY DEF InitCleanDatabase, Fine
  <2> QED  BY <1>1, <1>2, <2>1, <2>2, <2>3, <2>4 DEF Table, OptNext
<1>3. CASE Crash
  BY <1>1, <1>3 DEF Crash
<1>4. ASSUME NEW r \in Clients, Client(r) PROVE Trouble \/ Fine
  BY <1>4 DEF Client, Search, NextPage, Build, CheckColumns, QueryData, QueryCount, Answer,
              Leave, optVars, Fine
<1>5. CASE UNCHANGED vars
  BY <1>5 DEF vars, optVars
<1> QED  BY <1>1, <1>2, <1>3, <1>4, <1>5 DEF Next

LEMMA InitColumnsInv == Init => ColumnsInv /\ TroublesType
<1> SUFFICES ASSUME Init PROVE ColumnsInv /\ TroublesType
  OBVIOUS
<1>1. req = [r \in Clients |-> Nobody] /\ known = "unknown" /\ template = "unknown"
  BY DEF Init
<1>2. {"at", "kind", "lower"} \subseteq DOMAIN Nobody /\ Nobody.lower = FALSE
  BY DEF Nobody
<1>3. TroublesType
  BY DEF Init, OptInit, TroublesType
<1> QED  BY <1>1, <1>2, <1>3 DEF ColumnsInv, Walking, Believed

\* Without a failing round trip a search fails only for a database that has not
\* had the first script, or after the schema was made anew: the engine takes no
\* lower-case column for granted (postgresql-search-engine.ts:1000).
THEOREM SearchesFindTheirColumns == Spec => FailsForMissingTable
<1>1. Spec => [](ColumnsInv /\ TroublesType)
  BY InitColumnsInv, NextColumnsInv, NextTroubles, PTL DEF Spec
<1>2. ColumnsInv /\ TroublesType /\ [Next]_vars =>
        [\A r \in Clients :
            req[r].at = "run" /\ req'[r].at = "failed" /\ troubles' = troubles
                => "vector" \notin columns \/ wiped]_vars
  BY FailsWithoutColumns DEF TroublesType
<1> QED  BY <1>1, <1>2, PTL DEF Spec, FailsForMissingTable

-------------------------------------------------------------------------------
(* Walks through the pages.                                                *)

\* Queries whose rows come in an order that is given, their orders, and whether
\* an order is the only one.
Ordered == {"all", "text"}
RowOrders == [kind \in Ordered |-> [lower \in BOOLEAN |-> Orders(kind, lower)]]
Untied ==
    [kind \in Ordered |-> [lower \in BOOLEAN |->
        \A d, e \in DataRows(kind, lower) :
            d # e => Before(d, e, kind, lower) \/ Before(e, d, kind, lower)]]
Counts ==
    [kind \in Ordered |-> [lower \in BOOLEAN |-> Cardinality(CountRows(kind, lower))]]

Walk == [at : {"idle", "build", "columns", "run", "page", "end", "failed"},
         kind : {"all", "text", "wildcard"}, from : Nat, lower : BOOLEAN,
         rows : Seq(Docs), total : Nat, data : BOOLEAN, count : BOOLEAN,
         seen : Seq(Docs), quiet : BOOLEAN]

\* The first n rows have been seen, or the rows of a page been read.
Prefix(s, n) == SubSeq(s, 1, Min({n, Len(s)}))
Page(s, n) == SubSeq(s, n + 1, Min({n + Size, Len(s)}))

Asked(r) == req[r].at \in {"run", "page", "end"} \/ (req[r].at = "build" /\ req[r].from > 0)

\* What is remembered of the columns is remembered for good, and a walk that
\* nobody disturbs goes on with what it was begun with.
Remembered(r) ==
    /\ req[r].at = "columns" => req[r].from = 0
    /\ Asked(r) => template # "unknown"
    /\ Asked(r) /\ req[r].quiet => (req[r].lower <=> template = "yes")

\* Such a walk has seen the rows before its page.
SeenBefore(r) ==
    /\ req[r].at \in {"build", "columns", "run"} /\ req[r].from = 0 => req[r].seen = <<>>
    /\ req[r].quiet /\ req[r].kind \in Ordered /\ Untied[req[r].kind][req[r].lower] =>
        /\ req[r].at \in {"build", "run"} /\ req[r].from > 0 =>
              \E s \in RowOrders[req[r].kind][req[r].lower] : req[r].seen = Prefix(s, req[r].from)
        /\ req[r].at \in {"page", "end"} =>
              \E s \in RowOrders[req[r].kind][req[r].lower] :
                  req[r].seen = Prefix(s, req[r].from + Size)

\* What its two statements answered.
Read(r) ==
    /\ req[r].at \in {"build", "columns"} => ~req[r].data /\ ~req[r].count
    /\ req[r].at = "run" /\ req[r].data /\ req[r].quiet /\ req[r].kind \in Ordered =>
          \E s \in RowOrders[req[r].kind][req[r].lower] : req[r].rows = Page(s, req[r].from)
    /\ \/ req[r].at = "run" /\ req[r].count
       \/ req[r].at \in {"page", "end"}
       => (req[r].quiet /\ req[r].kind \in Ordered =>
              req[r].total = Counts[req[r].kind][req[r].lower])
    /\ req[r].at = "end" => req[r].from + Size >= req[r].total

WalkOk(r) == Remembered(r) /\ SeenBefore(r) /\ Read(r)
WalksTyped ==
    /\ req \in [Clients -> Walk]
    /\ known \in {"unknown", "yes", "no"} /\ template \in {"unknown", "yes", "no"}
WalksInv == WalksTyped /\ \A r \in Clients : WalkOk(r)

-------------------------------------------------------------------------------
(* Orders.                                                                 *)

\* The smaller of two numbers.
LEMMA SmallerOf ==
    ASSUME NEW m \in Nat, NEW n \in Nat
    PROVE  Min({m, n}) = IF m <= n THEN m ELSE n
  BY DEF Min

\* The rows of a page are among those that are counted.
LEMMA FiniteRows ==
    ASSUME NEW kind, NEW lower
    PROVE  /\ DataRows(kind, lower) \subseteq Docs \/ kind \notin Ordered
           /\ kind \in Ordered => IsFiniteSet(DataRows(kind, lower))
           /\ kind \in Ordered => IsFiniteSet(CountRows(kind, lower))
           /\ kind \in Ordered => DataRows(kind, lower) \subseteq CountRows(kind, lower)
<1>1. CASE kind \in Ordered
  <2>1. Shown \subseteq Docs /\ ByWord \subseteq Shown
    BY DEF Shown, Stored, ByWord
  <2>2. DataRows(kind, lower) \subseteq Docs /\ CountRows(kind, lower) \subseteq Docs
    <3>1. CASE kind = "all"
      BY <2>1, <3>1 DEF DataRows, CountRows
    <3>2. CASE kind = "text"
      BY <2>1, <3>2 DEF DataRows, CountRows
    <3> QED  BY <1>1, <3>1, <3>2 DEF Ordered
  <2>3. DataRows(kind, lower) \subseteq CountRows(kind, lower)
    <3>1. CASE kind = "all"
      BY <3>1 DEF DataRows, CountRows
    <3>2. CASE kind = "text"
      BY <3>2 DEF DataRows, CountRows
    <3> QED  BY <1>1, <3>1, <3>2 DEF Ordered
  <2> QED  BY <2>2, <2>3, FS_Subset, OptimizationAssumption
<1> QED  BY <1>1

\* An order has every row once.
LEMMA OrderHasAll ==
    ASSUME NEW kind \in Ordered, NEW lower \in BOOLEAN, NEW s \in RowOrders[kind][lower]
    PROVE  /\ s \in Seq(Docs) /\ Len(s) = Cardinality(DataRows(kind, lower))
           /\ Len(s) \in Nat /\ DOMAIN s = 1 .. Len(s)
           /\ ToSet(s) = DataRows(kind, lower)
           /\ \A i, j \in DOMAIN s : i # j => s[i] # s[j]
           /\ \A i, j \in DOMAIN s : Before(s[i], s[j], kind, lower) => i < j
<1> DEFINE rows == DataRows(kind, lower)
           n == Cardinality(rows)
<1>1. s \in Orders(kind, lower)
  BY DEF RowOrders
<1>2. /\ s \in [1 .. n -> rows]
      /\ \A i, j \in 1 .. n : i # j => s[i] # s[j]
      /\ \A i, j \in DOMAIN s : Before(s[i], s[j], kind, lower) => i < j
  BY <1>1 DEF Orders, SetToSeqs
<1>3. IsFiniteSet(rows) /\ n \in Nat /\ rows \subseteq Docs
  BY FiniteRows, FS_CardinalityType
<1>4. IsFiniteSet(1 .. n) /\ Cardinality(1 .. n) = n
  BY <1>3, FS_Interval
<1> HIDE DEF rows, n
<1>5. s \in Injection(1 .. n, rows)
  BY <1>2 DEF Injection, IsInjective
<1>6. s \in Surjection(1 .. n, rows)
  <2>1. Cardinality(1 .. n) = Cardinality(rows)
    BY <1>4 DEF n
  <2> QED  BY <1>3, <1>5, <2>1, FS_Injection
<1>7. ToSet(s) = rows
  BY <1>2, <1>6 DEF Surjection, ToSet
<1>8. s \in Seq(Docs) /\ Len(s) = n /\ DOMAIN s = 1 .. n
  BY <1>2, <1>3 DEF Seq
<1> QED  BY <1>2, <1>3, <1>7, <1>8 DEF rows, n

\* Orders of any query are lists of rows.
LEMMA OrdersList ==
    ASSUME NEW kind \in {"all", "text", "wildcard"}, NEW lower, NEW s \in Orders(kind, lower)
    PROVE  s \in Seq(Docs)
<1> DEFINE rows == DataRows(kind, lower)
<1>1. rows \subseteq Docs
  BY DEF DataRows, Shown, Stored, ByWord
<1>2. s \in [1 .. Cardinality(rows) -> rows]
  BY DEF Orders, SetToSeqs
<1>3. Cardinality(rows) \in Nat
  BY <1>1, FS_Subset, FS_CardinalityType, OptimizationAssumption
<1> HIDE DEF rows
<1>4. s \in [1 .. Cardinality(rows) -> Docs]
  BY <1>1, <1>2
<1> QED  BY <1>3, <1>4 DEF Seq

\* The place of a row is the number of rows that do not come after it.
LEMMA PlaceInOrder ==
    ASSUME NEW kind \in Ordered, NEW lower \in BOOLEAN, NEW s \in RowOrders[kind][lower],
           Untied[kind][lower], NEW i \in DOMAIN s
    PROVE  i = Cardinality({d \in DataRows(kind, lower) :
                               d = s[i] \/ Before(d, s[i], kind, lower)})
<1> DEFINE rows == DataRows(kind, lower)
           upTo == {d \in rows : d = s[i] \/ Before(d, s[i], kind, lower)}
           f == [j \in 1 .. i |-> s[j]]
<1>0. \A d, e \in rows : d # e => Before(d, e, kind, lower) \/ Before(e, d, kind, lower)
  BY DEF Untied
<1>1. /\ Len(s) \in Nat /\ DOMAIN s = 1 .. Len(s) /\ ToSet(s) = rows
      /\ \A j, k \in DOMAIN s : j # k => s[j] # s[k]
      /\ \A j, k \in DOMAIN s : Before(s[j], s[k], kind, lower) => j < k
  BY OrderHasAll
<1>2. \A j \in DOMAIN s : s[j] \in rows
  BY <1>1 DEF ToSet
<1>3. i \in Nat /\ 1 .. i \subseteq DOMAIN s
  BY <1>1
<1> HIDE DEF rows
<1>4. \A j \in 1 .. i : f[j] \in upTo
  <2> TAKE j \in 1 .. i
  <2>1. j \in DOMAIN s /\ f[j] = s[j] /\ j \in Int /\ ~(i < j)
    BY <1>3
  <2>2. CASE j = i
    BY <1>2, <2>1, <2>2
  <2>3. CASE j # i
    BY <1>0, <1>1, <1>2, <2>1, <2>3
  <2> QED  BY <2>2, <2>3
<1>5. \A d \in upTo : \E j \in 1 .. i : f[j] = d
  <2> TAKE d \in upTo
  <2>1. PICK k \in DOMAIN s : s[k] = d
    BY <1>1 DEF ToSet
  <2>2. k = i \/ k < i
    BY <1>1, <2>1
  <2>3. k \in 1 .. i
    BY <1>1, <2>1, <2>2
  <2> QED  BY <2>1, <2>3
<1>6. f \in Bijection(1 .. i, upTo)
  <2>1. f \in [1 .. i -> upTo]
    BY <1>4
  <2>2. \A j, k \in 1 .. i : f[j] = f[k] => j = k
    BY <1>1, <1>3
  <2> HIDE DEF f, upTo
  <2>3. f \in Surjection(1 .. i, upTo)
    BY <1>5, <2>1 DEF Surjection
  <2>4. f \in Injection(1 .. i, upTo)
    BY <2>1, <2>2 DEF Injection, IsInjective
  <2> QED  BY <2>3, <2>4 DEF Bijection
<1>7. IsFiniteSet(1 .. i) /\ Cardinality(1 .. i) = i
  BY <1>3, <1>1, FS_Interval
<1>8. Cardinality(upTo) = i
  <2> HIDE DEF f, upTo
  <2>1. ExistsBijection(1 .. i, upTo)
    BY <1>6 DEF ExistsBijection
  <2> QED  BY <1>7, <2>1, FS_Bijection
<1> QED  BY <1>8 DEF rows

\* Rows without ties have one order.
LEMMA OneOrder ==
    ASSUME NEW kind \in Ordered, NEW lower \in BOOLEAN, Untied[kind][lower],
           NEW s \in RowOrders[kind][lower], NEW t \in RowOrders[kind][lower]
    PROVE  s = t
<1> DEFINE Place(d) == Cardinality({e \in DataRows(kind, lower) :
                                        e = d \/ Before(e, d, kind, lower)})
<1>1. /\ s \in Seq(Docs) /\ t \in Seq(Docs) /\ Len(s) = Len(t)
      /\ ToSet(s) = ToSet(t)
      /\ DOMAIN s = DOMAIN t
  BY OrderHasAll
<1>2. \A i \in DOMAIN s : i = Place(s[i])
  BY PlaceInOrder
<1>3. \A i \in DOMAIN t : i = Place(t[i])
  BY PlaceInOrder
<1> HIDE DEF Place
<1>4. \A i \in DOMAIN s : s[i] = t[i]
  <2> TAKE i \in DOMAIN s
  <2>1. PICK j \in DOMAIN t : t[j] = s[i]
    BY <1>1 DEF ToSet
  <2>2. i = j
    BY <1>2, <1>3, <2>1
  <2> QED  BY <2>1, <2>2
<1> QED  BY <1>1, <1>4

\* The pages are the order, one after the other.
LEMMA PagesJoin ==
    ASSUME NEW s \in Seq(Docs), NEW n \in Nat
    PROVE  /\ Prefix(s, n) \o Page(s, n) = Prefix(s, n + Size)
           /\ Prefix(s, 0) = <<>>
           /\ Prefix(s, n) \in Seq(Docs) /\ Page(s, n) \in Seq(Docs)
           /\ n >= Len(s) => Prefix(s, n) = s
<1>1. Size \in Nat /\ Size > 0 /\ Len(s) \in Nat /\ n + Size \in Nat
  BY EngineAssumption
<1> DEFINE L == Len(s)
           m == IF n <= L THEN n ELSE L
           k == IF n + Size <= L THEN n + Size ELSE L
<1>2. Prefix(s, n) = SubSeq(s, 1, m) /\ Prefix(s, n + Size) = SubSeq(s, 1, k)
  BY <1>1, SmallerOf DEF Prefix
<1>3. Page(s, n) = SubSeq(s, n + 1, k)
  BY <1>1, SmallerOf DEF Page
<1>4. m \in 0 .. L /\ k \in m .. L
  BY <1>1
<1>5. Prefix(s, n) \o Page(s, n) = Prefix(s, n + Size)
  <2>1. CASE n <= L
    <3>1. SubSeq(s, 1, m) \o SubSeq(s, m + 1, k) = SubSeq(s, 1, k)
      <4>1. 1 \in 1 .. Len(s) + 1 /\ m \in 1 - 1 .. Len(s) /\ k \in m .. Len(s)
        BY <1>1, <1>4
      <4> HIDE DEF m, k
      <4> QED  BY <4>1, ConcatAdjacentSubSeq
    <3> QED  BY <1>2, <1>3, <2>1, <3>1
  <2>2. CASE n > L
    <3>1. SubSeq(s, n + 1, k) = <<>>
      BY <1>1, <2>2, SubSeqEmpty
    <3>2. m = L /\ k = L
      BY <1>1, <2>2
    <3>3. SubSeq(s, 1, L) = s
      BY SubSeqFull
    <3>4. s \o <<>> = s
      OBVIOUS
    <3> QED  BY <1>2, <1>3, <3>1, <3>2, <3>3, <3>4
  <2> QED  BY <1>1, <2>1, <2>2
<1>6. Prefix(s, 0) = <<>>
  <2>1. Prefix(s, 0) = SubSeq(s, 1, 0)
    BY <1>1, SmallerOf DEF Prefix
  <2> QED  BY <2>1, SubSeqEmpty
<1>7. Prefix(s, n) \in Seq(Docs)
  <2>1. \A i \in 1 .. m : s[i] \in Docs
    BY <1>4
  <2> QED  BY <1>2, <1>4, <2>1, SubSeqProperties
<1>8. Page(s, n) \in Seq(Docs)
  <2>1. \A i \in n + 1 .. k : s[i] \in Docs
    BY <1>1, <1>4
  <2>2. n + 1 \in Int /\ k \in Int
    BY <1>1, <1>4
  <2> QED  BY <1>3, <2>1, <2>2, SubSeqProperties
<1>9. n >= L => Prefix(s, n) = s
  <2> SUFFICES ASSUME n >= L PROVE SubSeq(s, 1, m) = s
    BY <1>2
  <2>1. m = L
    BY <1>1
  <2> QED  BY <2>1, SubSeqFull
<1> QED  BY <1>5, <1>6, <1>7, <1>8, <1>9

\* A count is not less than the rows, and of all documents it is as many.
LEMMA CountsCover ==
    ASSUME NEW kind \in Ordered, NEW lower \in BOOLEAN
    PROVE  /\ Counts[kind][lower] \in Nat
           /\ Cardinality(DataRows(kind, lower)) \in Nat
           /\ Cardinality(DataRows(kind, lower)) <= Counts[kind][lower]
           /\ kind = "all" => Counts[kind][lower] = Cardinality(DataRows(kind, lower))
<1>1. Counts[kind][lower] = Cardinality(CountRows(kind, lower))
  BY DEF Counts
<1>2. kind = "all" => CountRows(kind, lower) = DataRows(kind, lower)
  BY DEF CountRows, DataRows
<1> QED  BY <1>1, <1>2, FiniteRows, FS_Subset, FS_CardinalityType

\* They change with the table only.
LEMMA TableSame ==
    ASSUME UNCHANGED table
    PROVE  UNCHANGED <<RowOrders, Untied, Counts>>
<1> USE DEF table, Shown, Stored, ByWord, Is, Vector, Lower, Named, RankOf, NameOf
<1>1. UNCHANGED Counts
  BY DEF Counts, CountRows
<1>2. UNCHANGED Untied
  BY DEF Untied, DataRows, Before
<1>3. UNCHANGED RowOrders
  BY DEF RowOrders, Orders, SetToSeqs, DataRows, Before
<1> QED  BY <1>1, <1>2, <1>3

-------------------------------------------------------------------------------
(* Steps.                                                                  *)

\* A walk begins with nothing seen.
LEMMA NothingSeen == <<>> \in Seq(Docs)
  OBVIOUS

\* A walk that is left alone stays in order, whatever comes to be remembered
\* of columns that nothing was remembered of.
LEMMA AloneOk ==
    ASSUME WalksInv, NEW r \in Clients, UNCHANGED table, req'[r] = req[r],
           template' = template \/ template = "unknown"
    PROVE  WalkOk(r)'
<1>1. UNCHANGED <<RowOrders, Untied, Counts>>
  BY TableSame
<1>2. WalkOk(r)
  BY DEF WalksInv
<1>3. Remembered(r)'
  BY <1>2 DEF WalkOk, Remembered, Asked
<1>4. SeenBefore(r)'
  BY <1>1, <1>2 DEF WalkOk, SeenBefore
<1>5. Read(r)'
  BY <1>1, <1>2 DEF WalkOk, Read
<1> QED  BY <1>3, <1>4, <1>5 DEF WalkOk

\* A walk that is disturbed owes nothing but what it never forgets.
LEMMA DisturbedOk ==
    ASSUME WalksInv, NEW r \in Clients, template' # "unknown" \/ template' = template,
           req'[r] = [req[r] EXCEPT !.quiet = FALSE, !.seen = <<>>]
    PROVE  WalkOk(r)' /\ req'[r] \in Walk
<1>1. WalkOk(r) /\ req[r] \in Walk
  BY DEF WalksInv, WalksTyped
<1>2. /\ req'[r].quiet = FALSE /\ req'[r].seen = <<>>
      /\ req'[r].at = req[r].at /\ req'[r].from = req[r].from /\ req'[r].total = req[r].total
      /\ req'[r].data = req[r].data /\ req'[r].count = req[r].count
      /\ req'[r] \in Walk
  BY <1>1, NothingSeen DEF Walk
<1>3. Remembered(r)'
  BY <1>1, <1>2 DEF WalkOk, Remembered, Asked
<1>4. SeenBefore(r)'
  BY <1>1, <1>2 DEF SeenBefore
<1>5. Read(r)'
  BY <1>1, <1>2 DEF WalkOk, Read
<1> QED  BY <1>2, <1>3, <1>4, <1>5 DEF WalkOk

\* One client goes on, the others are left alone.
LEMMA OneWalks ==
    ASSUME WalksInv, NEW r \in Clients, NEW x \in Walk, req' = [req EXCEPT ![r] = x],
           UNCHANGED table, UNCHANGED known, template' = template \/ template = "unknown",
           template' \in {"unknown", "yes", "no"},
           WalkOk(r)'
    PROVE  WalksInv'
<1>1. req \in [Clients -> Walk] /\ known \in {"unknown", "yes", "no"}
  BY DEF WalksInv, WalksTyped
<1>2. WalksTyped'
  BY <1>1 DEF WalksTyped
<1>3. \A c \in Clients \ {r} : req'[c] = req[c]
  BY <1>1
<1>4. \A c \in Clients : WalkOk(c)'
  BY <1>3, AloneOk
<1> QED  BY <1>2, <1>4 DEF WalksInv

\* Whoever is idle or has failed owes nothing.
LEMMA OverOk ==
    ASSUME NEW r, req'[r].at \in {"idle", "failed"}
    PROVE  WalkOk(r)'
  BY DEF WalkOk, Remembered, Asked, SeenBefore, Read

\* A walk that is not under way.
LEMMA BlankWalk == Nobody \in Walk /\ [Nobody EXCEPT !.at = "failed"] \in Walk
  BY NothingSeen DEF Nobody, Walk

\* A client begins a walk.
LEMMA SearchWalks ==
    ASSUME WalksInv, NEW r \in Clients, NEW q \in Queries, Search(r, q)
    PROVE  WalksInv'
<1> DEFINE kind == KindOf(extractSearchTerm(q))
           x == [Nobody EXCEPT !.at = "build", !.kind = kind]
<1>1. kind \in {"all", "text", "wildcard"}
  BY DEF KindOf
<1> HIDE DEF kind
<1>2. /\ x \in Walk /\ x.at = "build" /\ x.from = 0 /\ x.seen = <<>>
      /\ x.data = FALSE /\ x.count = FALSE
  BY <1>1, NothingSeen DEF Walk, Nobody
<1>3. /\ req' = [req EXCEPT ![r] = x]
      /\ UNCHANGED <<table, known, template>>
  BY DEF Search, optVars, kind
<1>4. req'[r] = x
  BY <1>3 DEF WalksInv, WalksTyped
<1> HIDE DEF x
<1>5. WalkOk(r)'
  BY <1>2, <1>4 DEF WalkOk, Remembered, Asked, SeenBefore, Read
<1> QED  BY <1>2, <1>3, <1>5, OneWalks DEF WalksInv, WalksTyped

\* It asks for the next page with what it has seen so far.
LEMMA NextPageWalks ==
    ASSUME WalksInv, NEW r \in Clients, NextPage(r)
    PROVE  WalksInv'
<1> DEFINE x == [req[r] EXCEPT !.at = "build", !.from = req[r].from + Size,
                               !.data = FALSE, !.count = FALSE]
<1>1. req[r] \in Walk /\ req \in [Clients -> Walk] /\ req[r].at = "page" /\ WalkOk(r)
  BY DEF WalksInv, WalksTyped, NextPage
<1>2. req[r].from + Size \in Nat /\ req[r].from + Size > 0
  BY <1>1, EngineAssumption DEF Walk
<1>3. /\ x \in Walk /\ x.at = "build" /\ x.from = req[r].from + Size
      /\ x.seen = req[r].seen /\ x.kind = req[r].kind /\ x.lower = req[r].lower
      /\ x.quiet = req[r].quiet /\ x.data = FALSE /\ x.count = FALSE
  BY <1>1, <1>2 DEF Walk
<1>4. /\ req' = [req EXCEPT ![r] = x]
      /\ UNCHANGED <<table, known, template>>
  BY <1>1 DEF NextPage, optVars
<1>5. req'[r] = x
  BY <1>1, <1>4
<1> HIDE DEF x
<1>6. UNCHANGED <<RowOrders, Untied, Counts>>
  BY <1>4, TableSame
<1>7. Remembered(r)'
  BY <1>1, <1>3, <1>4, <1>5 DEF WalkOk, Remembered, Asked
<1>8. SeenBefore(r)'
  BY <1>1, <1>2, <1>3, <1>5, <1>6 DEF WalkOk, SeenBefore
<1>9. Read(r)'
  BY <1>3, <1>5 DEF Read
<1> QED  BY <1>3, <1>4, <1>7, <1>8, <1>9, OneWalks DEF WalksInv, WalksTyped, WalkOk

\* Its next statements are for the columns of its first ones.
LEMMA BuildWalks ==
    ASSUME WalksInv, NEW r \in Clients, Build(r)
    PROVE  WalksInv'
<1>1. /\ req[r] \in Walk /\ req \in [Clients -> Walk] /\ req[r].at = "build" /\ WalkOk(r)
      /\ known \in {"unknown", "yes", "no"} /\ template \in {"unknown", "yes", "no"}
  BY DEF WalksInv, WalksTyped, Build
<1>2. UNCHANGED <<table, known>>
  BY DEF Build, optVars
<1>3. UNCHANGED <<RowOrders, Untied, Counts>>
  BY <1>2, TableSame
<1>4. CASE template # "unknown" \/ known # "unknown"
  <2> DEFINE k == IF template # "unknown" THEN template ELSE known
             x == [req[r] EXCEPT !.at = "run", !.lower = k = "yes"]
  <2>1. template' = k /\ req' = [req EXCEPT ![r] = x]
    BY <1>1, <1>4 DEF Build
  <2>2. k \in {"yes", "no"} /\ (template # "unknown" => k = template)
    BY <1>1, <1>4
  <2> HIDE DEF k
  <2>3. /\ x \in Walk /\ x.at = "run" /\ x.from = req[r].from
        /\ x.seen = req[r].seen /\ x.kind = req[r].kind /\ x.lower = (k = "yes")
        /\ x.quiet = req[r].quiet /\ x.data = req[r].data /\ x.count = req[r].count
    BY <1>1 DEF Walk
  <2>4. req'[r] = x
    BY <1>1, <2>1
  <2> HIDE DEF x
  <2>5. Remembered(r)'
    BY <1>1, <2>1, <2>2, <2>3, <2>4 DEF Remembered, Asked
  <2>6. SeenBefore(r)'
    BY <1>1, <1>3, <2>2, <2>3, <2>4 DEF WalkOk, Remembered, Asked, SeenBefore, Walk
  <2>7. Read(r)'
    BY <1>1, <1>3, <2>3, <2>4 DEF WalkOk, Read
  <2> QED  BY <1>2, <2>1, <2>2, <2>3, <2>5, <2>6, <2>7, OneWalks DEF WalkOk
<1>5. CASE template = "unknown" /\ known = "unknown"
  <2> DEFINE x == [req[r] EXCEPT !.at = "columns"]
  <2>1. req' = [req EXCEPT ![r] = x] /\ UNCHANGED template
    BY <1>1, <1>5 DEF Build
  <2>2. /\ x \in Walk /\ x.at = "columns" /\ x.from = req[r].from
        /\ x.seen = req[r].seen /\ x.data = req[r].data /\ x.count = req[r].count
    BY <1>1 DEF Walk
  <2>3. req'[r] = x
    BY <1>1, <2>1
  <2> HIDE DEF x
  <2>4. req[r].from = 0
    BY <1>1, <1>5 DEF WalkOk, Remembered, Asked, Walk
  <2>5. WalkOk(r)'
    BY <1>1, <2>2, <2>3, <2>4 DEF WalkOk, Remembered, Asked, SeenBefore, Read
  <2> QED  BY <1>1, <1>2, <2>1, <2>2, <2>5, OneWalks
<1> QED  BY <1>4, <1>5

\* Who is told of the columns is at its first page; whoever was told otherwise
\* is disturbed.
LEMMA CheckWalks ==
    ASSUME WalksInv, NEW r \in Clients, CheckColumns(r)
    PROVE  WalksInv'
<1>1. /\ req[r] \in Walk /\ req \in [Clients -> Walk] /\ req[r].at = "columns" /\ WalkOk(r)
      /\ known \in {"unknown", "yes", "no"} /\ template \in {"unknown", "yes", "no"}
      /\ req[r].from = 0 /\ req[r].seen = <<>>
  BY DEF WalksInv, WalksTyped, CheckColumns, WalkOk, Remembered, SeenBefore
<1>2. UNCHANGED table
  BY DEF CheckColumns
<1>3. PICK k \in {"yes", "no"} : Remembers(r, k)
  BY DEF CheckColumns
<1> DEFINE x == [req[r] EXCEPT !.at = "run", !.lower = k = "yes"]
<1>4. /\ x \in Walk /\ x.at = "run" /\ x.from = 0 /\ x.lower = (k = "yes")
      /\ x.seen = <<>> /\ x.data = req[r].data /\ x.count = req[r].count
  BY <1>1 DEF Walk
<1>5. template' = k /\ known' = k /\ req'[r] = x /\ DOMAIN req' = Clients
  BY <1>3 DEF Remembers
<1> HIDE DEF x
<1>6. WalkOk(r)' /\ req'[r] \in Walk
  <2>1. Remembered(r)'
    BY <1>4, <1>5 DEF Remembered, Asked
  <2>2. SeenBefore(r)'
    BY <1>4, <1>5 DEF SeenBefore
  <2>3. Read(r)'
    BY <1>1, <1>4, <1>5 DEF WalkOk, Read
  <2> QED  BY <1>4, <1>5, <2>1, <2>2, <2>3 DEF WalkOk
<1>7. ASSUME NEW c \in Clients, c # r
      PROVE  WalkOk(c)' /\ req'[c] \in Walk
  <2>0. req[c] \in Walk
    BY <1>1
  <2>1. CASE template \in {"unknown", k} /\ req'[c] = req[c]
    BY <1>2, <1>5, <1>7, <2>0, <2>1, AloneOk
  <2>2. CASE req[c].at = "idle" /\ req'[c] = req[c]
    BY <2>0, <2>2, OverOk
  <2>3. CASE req'[c] = [req[c] EXCEPT !.quiet = FALSE, !.seen = <<>>]
    BY <1>5, <1>7, <2>3, DisturbedOk
  <2> QED  BY <1>3, <1>7, <2>1, <2>2, <2>3 DEF Remembers
<1>8. req' \in [Clients -> Walk]
  <2>1. \A c \in Clients : req'[c] \in Walk
    BY <1>6, <1>7
  <2>2. req' = [c \in Clients |-> req'[c]]
    BY <1>3 DEF Remembers
  <2> QED  BY <2>1, <2>2
<1>9. \A c \in Clients : WalkOk(c)'
  BY <1>6, <1>7
<1> QED  BY <1>5, <1>8, <1>9 DEF WalksInv, WalksTyped

\* A statement that fails ends the walk.
LEMMA FailWalks ==
    ASSUME WalksInv, NEW r \in Clients, Fail(r), UNCHANGED <<table, known, template>>
    PROVE  WalksInv'
<1> DEFINE x == [Nobody EXCEPT !.at = "failed"]
<1>1. x \in Walk /\ x.at = "failed"
  BY BlankWalk DEF Nobody
<1>2. req' = [req EXCEPT ![r] = x] /\ req'[r] = x
  BY DEF Fail, WalksInv, WalksTyped
<1> HIDE DEF x
<1>3. WalkOk(r)'
  BY <1>1, <1>2, OverOk
<1> QED  BY <1>1, <1>2, <1>3, OneWalks DEF WalksInv, WalksTyped

\* The rows of a page are a piece of an order.
LEMMA DataWalks ==
    ASSUME WalksInv, NEW r \in Clients, QueryData(r)
    PROVE  WalksInv'
<1> DEFINE kind == req[r].kind
           lower == req[r].lower /\ req[r].kind # "wildcard"
<1>1. /\ req[r] \in Walk /\ req \in [Clients -> Walk] /\ req[r].at = "run" /\ WalkOk(r)
      /\ kind \in {"all", "text", "wildcard"} /\ req[r].lower \in BOOLEAN
      /\ req[r].from \in Nat
  BY DEF WalksInv, WalksTyped, QueryData, Walk
<1>2. UNCHANGED <<table, known, template>>
  BY DEF QueryData
<1>3. CASE Fail(r)
  BY <1>2, <1>3, FailWalks
<1>4. ASSUME NEW s \in Orders(kind, lower),
             req' = [req EXCEPT ![r].data = TRUE,
                          ![r].rows = SubSeq(s, req[r].from + 1,
                                             Min({req[r].from + Size, Len(s)}))]
      PROVE  WalksInv'
  <2> DEFINE x == [req[r] EXCEPT !.data = TRUE, !.rows = Page(s, req[r].from)]
  <2>1. req' = [req EXCEPT ![r] = x]
    BY <1>1, <1>4 DEF Page
  <2>2. Page(s, req[r].from) \in Seq(Docs)
    <3>1. s \in Seq(Docs)
      BY <1>1, <1>4, OrdersList
    <3> QED  BY <1>1, <3>1, PagesJoin
  <2>3. /\ x \in Walk /\ x.at = "run" /\ x.from = req[r].from /\ x.lower = req[r].lower
        /\ x.seen = req[r].seen /\ x.count = req[r].count /\ x.total = req[r].total
        /\ x.quiet = req[r].quiet /\ x.kind = req[r].kind /\ x.rows = Page(s, req[r].from)
    BY <1>1, <2>2 DEF Walk
  <2>4. req'[r] = x
    BY <1>1, <2>1
  <2> HIDE DEF x
  <2>5. UNCHANGED <<RowOrders, Untied, Counts>>
    BY <1>2, TableSame
  <2>6. Remembered(r)'
    BY <1>1, <1>2, <2>3, <2>4 DEF WalkOk, Remembered, Asked
  <2>7. SeenBefore(r)'
    BY <1>1, <2>3, <2>4, <2>5 DEF WalkOk, SeenBefore
  <2>8. kind \in Ordered => s \in RowOrders[kind][req[r].lower]
    BY <1>1, <1>4 DEF RowOrders, Ordered
  <2>9. Read(r)'
    BY <1>1, <2>3, <2>4, <2>5, <2>8 DEF WalkOk, Read
  <2> QED  BY <1>2, <2>1, <2>3, <2>6, <2>7, <2>9, OneWalks DEF WalksInv, WalksTyped, WalkOk
<1> QED  BY <1>3, <1>4 DEF QueryData

\* The count is of the rows there are.
LEMMA CountWalks ==
    ASSUME WalksInv, NEW r \in Clients, QueryCount(r)
    PROVE  WalksInv'
<1> DEFINE kind == req[r].kind
           lower == req[r].lower
           total == Cardinality(CountRows(kind, lower))
           x == [req[r] EXCEPT !.count = TRUE, !.total = total]
<1>1. /\ req[r] \in Walk /\ req \in [Clients -> Walk] /\ req[r].at = "run" /\ WalkOk(r)
      /\ kind \in {"all", "text", "wildcard"} /\ lower \in BOOLEAN
  BY DEF WalksInv, WalksTyped, QueryCount, Walk
<1>2. UNCHANGED <<table, known, template>>
  BY DEF QueryCount
<1>3. CASE Fail(r)
  BY <1>2, <1>3, FailWalks
<1>4. CASE req' = [req EXCEPT ![r].count = TRUE, ![r].total = total]
  <2>1. req' = [req EXCEPT ![r] = x]
    BY <1>1, <1>4
  <2>2. total \in Nat
    <3>1. CountRows(kind, lower) \subseteq Docs
      BY <1>1 DEF CountRows, Shown, Stored, ByWord
    <3> QED  BY <3>1, FS_Subset, FS_CardinalityType, OptimizationAssumption
  <2>3. kind \in Ordered => total = Counts[kind][lower]
    BY <1>1 DEF Counts
  <2> HIDE DEF total
  <2>4. /\ x \in Walk /\ x.at = "run" /\ x.from = req[r].from /\ x.lower = req[r].lower
        /\ x.seen = req[r].seen /\ x.data = req[r].data /\ x.total = total
        /\ x.quiet = req[r].quiet /\ x.kind = req[r].kind /\ x.rows = req[r].rows
    BY <1>1, <2>2 DEF Walk
  <2>5. req'[r] = x
    BY <1>1, <2>1
  <2> HIDE DEF x
  <2>6. UNCHANGED <<RowOrders, Untied, Counts>>
    BY <1>2, TableSame
  <2>7. Remembered(r)'
    BY <1>1, <1>2, <2>4, <2>5 DEF WalkOk, Remembered, Asked
  <2>8. SeenBefore(r)'
    BY <1>1, <2>4, <2>5, <2>6 DEF WalkOk, SeenBefore
  <2>9. Read(r)'
    BY <1>1, <2>3, <2>4, <2>5, <2>6 DEF WalkOk, Read
  <2> QED  BY <1>2, <2>1, <2>4, <2>7, <2>8, <2>9, OneWalks DEF WalksInv, WalksTyped, WalkOk
<1> QED  BY <1>3, <1>4 DEF QueryCount

\* What has been seen with the page is a longer piece of the same order.
LEMMA AnswerWalks ==
    ASSUME WalksInv, NEW r \in Clients, Answer(r)
    PROVE  WalksInv'
<1> DEFINE kind == req[r].kind
           lower == req[r].lower
           seen == IF req[r].quiet THEN req[r].seen \o req[r].rows ELSE <<>>
           at == IF req[r].from + Size < req[r].total THEN "page" ELSE "end"
           x == [req[r] EXCEPT !.seen = seen, !.at = at]
<1>1. /\ req[r] \in Walk /\ req \in [Clients -> Walk] /\ WalkOk(r)
      /\ req[r].at = "run" /\ req[r].data /\ req[r].count
      /\ lower \in BOOLEAN /\ req[r].from \in Nat /\ req[r].total \in Nat
      /\ req[r].seen \in Seq(Docs) /\ req[r].rows \in Seq(Docs)
  BY DEF WalksInv, WalksTyped, Answer, Walk
<1>2. req' = [req EXCEPT ![r] = x] /\ UNCHANGED <<table, known, template>>
  BY <1>1 DEF Answer, optVars
<1>3. seen \in Seq(Docs) /\ at \in {"page", "end"}
  BY <1>1, NothingSeen
<1>4. at = "end" => req[r].from + Size >= req[r].total
  BY <1>1, EngineAssumption
<1>5. ASSUME req[r].quiet, kind \in Ordered, Untied[kind][lower]
      PROVE  \E s \in RowOrders[kind][lower] : seen = Prefix(s, req[r].from + Size)
  <2>1. PICK s \in RowOrders[kind][lower] : req[r].rows = Page(s, req[r].from)
    BY <1>1, <1>5 DEF WalkOk, Read
  <2>2. s \in Seq(Docs)
    BY <1>1, <1>5, <2>1, OrderHasAll
  <2>3. req[r].seen = Prefix(s, req[r].from)
    <3>1. CASE req[r].from = 0
      BY <1>1, <2>2, <3>1, PagesJoin DEF WalkOk, SeenBefore
    <3>2. CASE req[r].from > 0
      <4>1. PICK t \in RowOrders[kind][lower] : req[r].seen = Prefix(t, req[r].from)
        BY <1>1, <1>5, <3>2 DEF WalkOk, SeenBefore
      <4>2. s = t
        BY <1>1, <1>5, OneOrder
      <4> QED  BY <4>1, <4>2
    <3> QED  BY <1>1, <3>1, <3>2
  <2>4. seen = Prefix(s, req[r].from + Size)
    BY <1>1, <1>5, <2>1, <2>2, <2>3, PagesJoin
  <2> QED  BY <2>4
<1> HIDE DEF seen, at
<1>6. /\ x \in Walk /\ x.at = at /\ x.from = req[r].from /\ x.lower = req[r].lower
      /\ x.seen = seen /\ x.total = req[r].total
      /\ x.quiet = req[r].quiet /\ x.kind = req[r].kind
  BY <1>1, <1>3 DEF Walk
<1>7. req'[r] = x
  BY <1>1, <1>2
<1> HIDE DEF x
<1>8. UNCHANGED <<RowOrders, Untied, Counts>>
  BY <1>2, TableSame
<1>9. Remembered(r)'
  BY <1>1, <1>2, <1>3, <1>6, <1>7 DEF WalkOk, Remembered, Asked
<1>10. SeenBefore(r)'
  BY <1>3, <1>5, <1>6, <1>7, <1>8 DEF SeenBefore
<1>11. Read(r)'
  BY <1>1, <1>3, <1>4, <1>6, <1>7, <1>8 DEF WalkOk, Read
<1> QED  BY <1>2, <1>6, <1>9, <1>10, <1>11, OneWalks DEF WalksInv, WalksTyped, WalkOk

\* A client that leaves owes nothing.
LEMMA LeaveWalks ==
    ASSUME WalksInv, NEW r \in Clients, Leave(r)
    PROVE  WalksInv'
<1>1. req' = [req EXCEPT ![r] = Nobody] /\ UNCHANGED <<table, known, template>>
  BY DEF Leave, optVars
<1>2. req'[r] = Nobody /\ Nobody.at = "idle"
  BY <1>1 DEF WalksInv, WalksTyped, Nobody
<1>3. WalkOk(r)'
  BY <1>2, OverOk
<1>4. Nobody \in Walk /\ template' \in {"unknown", "yes", "no"}
  BY <1>1, BlankWalk DEF WalksInv, WalksTyped
<1> HIDE DEF Nobody
<1> QED  BY <1>1, <1>3, <1>4, OneWalks

\* Whoever changes the table disturbs every walk.
LEMMA TableWalks ==
    ASSUME WalksInv, Table
    PROVE  WalksInv'
<1>1. UNCHANGED <<known, template>> /\ Disturbed
  BY DEF Table
<1>2. CASE table' = table /\ UNCHANGED req
  <2>1. \A c \in Clients : WalkOk(c)'
    BY <1>1, <1>2, AloneOk
  <2> QED  BY <1>1, <1>2, <2>1 DEF WalksInv, WalksTyped
<1>3. CASE req' = [c \in Clients |-> IF req[c].at = "idle" THEN req[c]
                                     ELSE [req[c] EXCEPT !.quiet = FALSE, !.seen = <<>>]]
  <2>1. ASSUME NEW c \in Clients
        PROVE  WalkOk(c)' /\ req'[c] \in Walk
    <3>1. CASE req[c].at = "idle" /\ req'[c] = req[c]
      BY <3>1, OverOk DEF WalksInv, WalksTyped
    <3>2. CASE req'[c] = [req[c] EXCEPT !.quiet = FALSE, !.seen = <<>>]
      BY <1>1, <3>2, DisturbedOk
    <3> QED  BY <1>3, <3>1, <3>2
  <2>2. req' \in [Clients -> Walk]
    <3>1. req' = [c \in Clients |-> req'[c]]
      BY <1>3
    <3> QED  BY <2>1, <3>1
  <2> QED  BY <1>1, <2>1, <2>2 DEF WalksInv, WalksTyped
<1> QED  BY <1>1, <1>2, <1>3 DEF Disturbed

\* Every step keeps the walks in order.
LEMMA NextWalks == WalksInv /\ [Next]_vars => WalksInv'
<1> SUFFICES ASSUME WalksInv, [Next]_vars PROVE WalksInv'
  OBVIOUS
<1>1. CASE Crash
  <2>1. /\ req' = [r \in Clients |-> Nobody] /\ known' = "unknown"
        /\ template' = "unknown" /\ Nobody.at = "idle"
    BY <1>1 DEF Crash, Nobody
  <2>2. \A r \in Clients : WalkOk(r)'
    BY <2>1, OverOk
  <2> QED  BY <2>1, <2>2, BlankWalk DEF WalksInv, WalksTyped
<1>2. CASE UNCHANGED vars
  <2>1. UNCHANGED <<req, known, template, table>>
    BY <1>2 DEF vars, optVars
  <2>2. \A r \in Clients : WalkOk(r)'
    BY <2>1, AloneOk
  <2> QED  BY <2>1, <2>2 DEF WalksInv, WalksTyped
<1>3. ASSUME NEW r \in Clients, Client(r) PROVE WalksInv'
  BY <1>3, SearchWalks, NextPageWalks, BuildWalks, CheckWalks, DataWalks, CountWalks,
     AnswerWalks, LeaveWalks DEF Client
<1> QED  BY <1>1, <1>2, <1>3, TableWalks DEF Next

\* They are in order before the first search.
LEMMA InitWalks == Init => WalksInv
<1> SUFFICES ASSUME Init PROVE WalksInv
  OBVIOUS
<1>1. /\ req = [r \in Clients |-> Nobody] /\ known = "unknown"
      /\ template = "unknown" /\ Nobody.at = "idle"
  BY DEF Init, Nobody
<1>2. \A r \in Clients : WalkOk(r)
  BY <1>1 DEF WalkOk, Remembered, Asked, SeenBefore, Read
<1> QED  BY <1>1, <1>2, BlankWalk DEF WalksInv, WalksTyped

\* Whatever walks there are, whatever scripts run and whatever fails, a client
\* that walks the pages of all documents, or of a text whose hits have
\* different names, gets every row once, and for all documents as many as the
\* total says: unless the table changed meanwhile, or a request that had asked
\* for the columns at the same time was told otherwise
\* (postgresql-search-engine.ts:138, :174, :1000).
THEOREM QuietWalksAreComplete == Spec => []WalkIsComplete
<1>1. WalksInv => WalkIsComplete
  <2> SUFFICES ASSUME WalksInv, NEW r \in Clients,
                      req[r].at = "end", req[r].quiet, req[r].kind \in Ordered,
                      req[r].kind = "text" =>
                          \A d, e \in DataRows(req[r].kind, req[r].lower) :
                              d # e => \/ Before(d, e, "text", req[r].lower)
                                       \/ Before(e, d, "text", req[r].lower)
               PROVE  /\ ToSet(req[r].seen) = DataRows(req[r].kind, req[r].lower)
                      /\ Cardinality(DataRows(req[r].kind, req[r].lower)) = Len(req[r].seen)
                      /\ req[r].kind = "all" =>
                            req[r].total = Cardinality(DataRows(req[r].kind, req[r].lower))
    BY DEF WalkIsComplete, Ordered
  <2> DEFINE kind == req[r].kind
             lower == req[r].lower
             n == req[r].from + Size
  <2>1. WalkOk(r) /\ kind \in Ordered /\ lower \in BOOLEAN /\ n \in Nat
    BY EngineAssumption DEF WalksInv, WalksTyped, Walk
  <2>2. Untied[kind][lower]
    <3>1. CASE kind = "all"
      <4>1. DataRows(kind, lower) \subseteq Nat
        BY <2>1, FiniteRows, OptimizationAssumption
      <4>2. \A d, e \in DataRows(kind, lower) :
                d # e => Before(d, e, kind, lower) \/ Before(e, d, kind, lower)
        BY <3>1, <4>1 DEF Before
      <4> QED  BY <2>1, <4>2 DEF Untied
    <3>2. CASE kind = "text"
      BY <2>1, <3>2 DEF Untied
    <3> QED  BY <2>1, <3>1, <3>2 DEF Ordered
  <2>3. PICK s \in RowOrders[kind][lower] : req[r].seen = Prefix(s, n)
    BY <2>1, <2>2 DEF WalkOk, SeenBefore
  <2>4. req[r].total = Counts[kind][lower] /\ n >= req[r].total
    BY <2>1 DEF WalkOk, Read
  <2>5. /\ s \in Seq(Docs) /\ Len(s) = Cardinality(DataRows(kind, lower))
        /\ ToSet(s) = DataRows(kind, lower)
    BY <2>1, <2>3, OrderHasAll
  <2>6. /\ Counts[kind][lower] \in Nat /\ Len(s) \in Nat /\ Len(s) <= Counts[kind][lower]
        /\ kind = "all" => Counts[kind][lower] = Cardinality(DataRows(kind, lower))
    BY <2>1, <2>5, CountsCover
  <2>7. n >= Len(s)
    BY <2>1, <2>4, <2>6
  <2>8. req[r].seen = s
    BY <2>1, <2>3, <2>5, <2>7, PagesJoin
  <2> QED  BY <2>4, <2>5, <2>6, <2>8
<1>2. Spec => []WalksInv
  BY InitWalks, NextWalks, PTL DEF Spec
<1> QED  BY <1>1, <1>2, PTL
-----------------------------------------------------------------------------
(***************************************************************************)
(* How a script is read.  The loop over its lines is a recursive function: *)
(* what it is after lines s \o t is what it makes of t where s left it     *)
(* (ReadOn), from which a script is read statement by statement.           *)
(***************************************************************************)
\* A set of numbers that has 0, and with every number the next one, has all.
LEMMA Induction ==
    ASSUME NEW S \in SUBSET Nat, 0 \in S, \A n \in S : n + 1 \in S
    PROVE  S = Nat
<1> SUFFICES ASSUME NEW n \in Nat, n \notin S
             PROVE  FALSE
  OBVIOUS
<1> DEFINE A == S \cap (0 .. n)
           next == [k \in A |-> k + 1]
<1>1. IsFiniteSet(A)
  <2>1. IsFiniteSet(0 .. n)
    BY FS_Interval
  <2> QED  BY <2>1, FS_Subset
<1>2. /\ 0 \in A
      /\ \A k \in A : k \in Nat /\ k + 1 \in A
  OBVIOUS
<1> HIDE DEF A
<1>3. next \in Injection(A, A)
  BY <1>2 DEF Injection, IsInjective
<1>4. next \in Surjection(A, A)
  BY <1>1, <1>3, FS_Injection
<1>5. PICK k \in A : next[k] = 0
  BY <1>2, <1>4 DEF Surjection
<1> QED  BY <1>2, <1>5

\* The state after each line is the next state of the one before.
LEMMA EachLineIsRead ==
    ASSUME NEW st, NEW V, NEW lines \in Seq(V)
    PROVE  \E read : /\ read[0] = st
                     /\ \A n \in 1 .. Len(lines) :
                            read[n] = ReadLine(read[n - 1], CleanLine(lines[n]))
                     /\ ReadLines(st, lines) = read[Len(lines)]
<1> DEFINE Reads(f, m) == f = [n \in 0 .. m |-> IF n = 0 THEN st
                                 ELSE ReadLine(f[n - 1], CleanLine(lines[n]))]
           S == {m \in Nat : \E f : Reads(f, m)}
<1>1. 0 \in S
  <2> DEFINE f == [n \in 0 .. 0 |-> st]
  <2>1. Reads(f, 0)
    OBVIOUS
  <2> QED  BY <2>1
<1>2. ASSUME NEW m \in S PROVE m + 1 \in S
  <2>1. PICK f : Reads(f, m)
    OBVIOUS
  <2> DEFINE Following(n) == ReadLine(f[n - 1], CleanLine(lines[n]))
             g == [n \in 0 .. m + 1 |-> IF n = m + 1 THEN Following(n) ELSE f[n]]
  <2>2. \A n \in 0 .. m : g[n] = f[n]
    OBVIOUS
  <2>3. \A n \in 1 .. m + 1 : g[n] = ReadLine(g[n - 1], CleanLine(lines[n]))
    <3> SUFFICES ASSUME NEW n \in 1 .. m + 1
                 PROVE  g[n] = ReadLine(g[n - 1], CleanLine(lines[n]))
      OBVIOUS
    <3>1. n - 1 \in 0 .. m /\ n \in 0 .. m + 1
      OBVIOUS
    <3>2. g[n - 1] = f[n - 1]
      BY <2>2, <3>1
    <3>3. g[n] = Following(n)
      <4>1. CASE n = m + 1
        BY <4>1
      <4>2. CASE n # m + 1
        <5>1. n \in 0 .. m /\ n # 0
          BY <4>2
        <5>2. f[n] = Following(n)
          BY <2>1, <5>1
        <5> QED  BY <2>2, <5>1, <5>2
      <4> QED  BY <4>1, <4>2
    <3> QED  BY <3>2, <3>3
  <2>4. g[0] = st
    <3>1. f[0] = st
      BY <2>1
    <3> QED  BY <2>2, <3>1
  <2>5. Reads(g, m + 1)
    <3> DEFINE h == [n \in 0 .. m + 1 |-> IF n = 0 THEN st
                       ELSE ReadLine(g[n - 1], CleanLine(lines[n]))]
    <3>1. \A n \in 0 .. m + 1 : g[n] = h[n]
      <4> SUFFICES ASSUME NEW n \in 0 .. m + 1 PROVE g[n] = h[n]
        OBVIOUS
      <4> HIDE DEF g
      <4>1. CASE n = 0
        BY <2>4, <4>1
      <4>2. CASE n # 0
        <5>1. n \in 1 .. m + 1
          BY <4>2
        <5> QED  BY <2>3, <4>2, <5>1
      <4> QED  BY <4>1, <4>2
    <3>2. DOMAIN g = 0 .. m + 1 /\ DOMAIN h = 0 .. m + 1
      OBVIOUS
    <3>3. g = h
      <4> HIDE DEF Following
      <4> QED  BY <3>1, <3>2
    <3> QED  BY <3>3
  <2> QED  BY <2>5
<1>3. S = Nat
  BY <1>1, <1>2, Induction
<1>4. Len(lines) \in S
  BY <1>3
<1> DEFINE N == Len(lines)
           Each(f) == [n \in 0 .. N |-> IF n = 0 THEN st
                         ELSE ReadLine(f[n - 1], CleanLine(lines[n]))]
           read == CHOOSE f : f = Each(f)
<1>5. read = Each(read)
  BY <1>4
<1>6. ReadLines(st, lines) = read[N]
  BY DEF ReadLines
<1>7. N \in Nat
  OBVIOUS
<1> HIDE DEF read, N
<1>8. read[0] = st
  <2>1. 0 \in 0 .. N
    BY <1>7
  <2>2. Each(read)[0] = st
    BY <2>1
  <2> HIDE DEF Each
  <2> QED  BY <1>5, <2>2
<1>9. \A n \in 1 .. N : read[n] = ReadLine(read[n - 1], CleanLine(lines[n]))
  <2> SUFFICES ASSUME NEW n \in 1 .. N
               PROVE  read[n] = ReadLine(read[n - 1], CleanLine(lines[n]))
    OBVIOUS
  <2>1. n \in 0 .. N /\ n # 0
    BY <1>7
  <2>2. Each(read)[n] = ReadLine(read[n - 1], CleanLine(lines[n]))
    BY <2>1
  <2> HIDE DEF Each
  <2> QED  BY <1>5, <2>2
<1> QED  BY <1>6, <1>8, <1>9 DEF N

\* It is the only such reading.
LEMMA OneReading ==
    ASSUME NEW st, NEW V, NEW lines \in Seq(V), NEW read,
           read[0] = st,
           \A n \in 1 .. Len(lines) : read[n] = ReadLine(read[n - 1], CleanLine(lines[n]))
    PROVE  ReadLines(st, lines) = read[Len(lines)]
<1>1. PICK other : /\ other[0] = st
                   /\ \A n \in 1 .. Len(lines) :
                          other[n] = ReadLine(other[n - 1], CleanLine(lines[n]))
                   /\ ReadLines(st, lines) = other[Len(lines)]
  BY EachLineIsRead
<1> DEFINE S == {n \in Nat : n <= Len(lines) => read[n] = other[n]}
<1>2. 0 \in S
  BY <1>1
<1>3. ASSUME NEW n \in S PROVE n + 1 \in S
  <2> SUFFICES ASSUME n + 1 <= Len(lines) PROVE read[n + 1] = other[n + 1]
    OBVIOUS
  <2>1. n + 1 \in 1 .. Len(lines) /\ (n + 1) - 1 = n
    OBVIOUS
  <2>2. read[n] = other[n]
    OBVIOUS
  <2>3. /\ read[n + 1] = ReadLine(read[n], CleanLine(lines[n + 1]))
        /\ other[n + 1] = ReadLine(other[n], CleanLine(lines[n + 1]))
    BY <1>1, <2>1
  <2> QED  BY <2>2, <2>3
<1>4. S = Nat
  BY <1>2, <1>3, Induction
<1>5. Len(lines) \in S
  BY <1>4
<1> QED  BY <1>1, <1>5

\* What comes after other lines is read from the state they leave.
LEMMA ReadOn ==
    ASSUME NEW st, NEW V, NEW s \in Seq(V), NEW t \in Seq(V)
    PROVE  ReadLines(st, s \o t) = ReadLines(ReadLines(st, s), t)
<1> DEFINE mid == ReadLines(st, s)  m == Len(s)  k == Len(t)
<1>1. PICK f : /\ f[0] = st
               /\ \A n \in 1 .. m : f[n] = ReadLine(f[n - 1], CleanLine(s[n]))
               /\ mid = f[m]
  BY EachLineIsRead
<1>2. PICK g : /\ g[0] = mid
               /\ \A n \in 1 .. k : g[n] = ReadLine(g[n - 1], CleanLine(t[n]))
               /\ ReadLines(mid, t) = g[k]
  BY EachLineIsRead
<1> DEFINE h == [n \in 0 .. m + k |-> IF n <= m THEN f[n] ELSE g[n - m]]
<1>3. /\ s \o t \in Seq(V) /\ m \in Nat /\ k \in Nat
      /\ Len(s \o t) = m + k
      /\ \A n \in 1 .. m : (s \o t)[n] = s[n]
      /\ \A n \in m + 1 .. m + k : (s \o t)[n] = t[n - m]
  OBVIOUS
<1> HIDE DEF mid, m, k
<1>4. /\ \A n \in 0 .. m : h[n] = f[n]
      /\ \A n \in 0 .. k : h[m + n] = g[n]
  <2>1. \A n \in 0 .. m : h[n] = f[n]
    BY <1>3
  <2>2. ASSUME NEW n \in 1 .. k PROVE h[m + n] = g[n]
    <3>1. m + n \in 0 .. m + k /\ ~(m + n <= m) /\ (m + n) - m = n
      BY <1>3
    <3> QED  BY <3>1
  <2>3. h[m + 0] = g[0]
    <3>1. m \in 0 .. m /\ m + 0 = m
      BY <1>3
    <3> QED  BY <2>1, <3>1, <1>1, <1>2
  <2>4. \A n \in 0 .. k : n = 0 \/ n \in 1 .. k
    BY <1>3
  <2> QED  BY <2>1, <2>2, <2>3, <2>4
<1> HIDE DEF h
<1>5. h[0] = st
  BY <1>1, <1>3, <1>4
<1>6. ASSUME NEW n \in 1 .. Len(s \o t)
      PROVE  h[n] = ReadLine(h[n - 1], CleanLine((s \o t)[n]))
  <2>1. CASE n <= m
    <3>1. n \in 1 .. m /\ n \in 0 .. m /\ n - 1 \in 0 .. m
      BY <1>3, <2>1
    <3> QED  BY <3>1, <1>1, <1>3, <1>4
  <2>2. CASE n > m
    <3> DEFINE i == n - m
    <3>1. i \in 1 .. k /\ i \in 0 .. k /\ i - 1 \in 0 .. k /\ n \in m + 1 .. m + k
      BY <1>3, <2>2
    <3>2. n = m + i /\ n - 1 = m + (i - 1)
      BY <1>3
    <3>3. h[n] = g[i] /\ h[n - 1] = g[i - 1] /\ (s \o t)[n] = t[i]
      <4> HIDE DEF i
      <4>1. h[m + i] = g[i] /\ h[m + (i - 1)] = g[i - 1]
        BY <3>1, <1>4
      <4>2. (s \o t)[n] = t[n - m]
        BY <1>3, <3>1
      <4>3. h[n] = g[i] /\ h[n - 1] = g[i - 1]
        BY <3>2, <4>1
      <4> QED  BY <4>2, <4>3 DEF i
    <3> HIDE DEF i
    <3> QED  BY <1>2, <3>1, <3>3
  <2> QED  BY <1>3, <2>1, <2>2
<1>7. ReadLines(st, s \o t) = h[m + k]
  <2> DEFINE l == s \o t
  <2>1. l \in Seq(V) /\ Len(l) = m + k
    BY <1>3
  <2>2. \A n \in 1 .. Len(l) : h[n] = ReadLine(h[n - 1], CleanLine(l[n]))
    BY <1>6
  <2> HIDE DEF l
  <2>3. ReadLines(st, l) = h[Len(l)]
    BY <1>5, <2>1, <2>2, OneReading
  <2> QED  BY <2>1, <2>3 DEF l
<1> QED  BY <1>2, <1>3, <1>4, <1>7 DEF mid

Lines == Notes \cup Psql \cup Ends \cup
             {"text", "DO $$", "CREATE FUNCTION AS $$", "CREATE FUNCTION", "AS $$",
              "RETURNS AS $$", "$$ LANGUAGE"}

\* Nothing begun.
Fresh(st) == st.statement = <<>> /\ st.block = "none"

\* Tuples are sequences.
LEMMA TupleOfOne == ASSUME NEW V, NEW a \in V PROVE <<a>> \in Seq(V)
  OBVIOUS
LEMMA Tuples ==
    ASSUME NEW V, NEW a \in V, NEW b \in V, NEW c \in V,
           NEW d \in V, NEW e \in V, NEW f \in V
    PROVE  /\ <<a, b, c>> \in Seq(V) /\ <<a, b, c, d>> \in Seq(V)
           /\ <<a, b, c, d, e>> \in Seq(V) /\ <<a, b, c, d, e, f>> \in Seq(V)
  OBVIOUS

LEMMA LinesOf ==
    /\ Written \subseteq Seq(Lines)
    /\ Between \subseteq Seq(Lines)
    /\ Rest \subseteq Seq(Lines)
<1>1. /\ \A line \in {"text;", "text", "-- note", "blank", "DO $$", "END $$;",
                         "CREATE FUNCTION AS $$", "$$ LANGUAGE;", "CREATE FUNCTION",
                         "AS $$", "RETURNS AS $$", "$$ LANGUAGE"} : line \in Lines
      /\ Notes \cup Psql \subseteq Lines
  BY DEF Lines, Notes, Ends, Psql
<1> HIDE DEF Lines
<1>2. \A line \in Lines : <<line>> \in Seq(Lines)
  BY TupleOfOne
<1>3. \A a, b, c, d, e, f \in Lines :
          /\ <<a, b, c>> \in Seq(Lines) /\ <<a, b, c, d>> \in Seq(Lines)
          /\ <<a, b, c, d, e>> \in Seq(Lines) /\ <<a, b, c, d, e, f>> \in Seq(Lines)
  BY Tuples
<1>4. <<>> \in Seq(Lines)
  BY EmptySeq
<1>5. /\ <<"text;">> \in Seq(Lines)
      /\ <<"text", "-- note", "text;">> \in Seq(Lines)
      /\ <<"text", "blank", "text;">> \in Seq(Lines)
      /\ <<"DO $$", "text", "text;", "END $$;">> \in Seq(Lines)
  BY <1>1, <1>2, <1>3
<1>6. /\ <<"CREATE FUNCTION AS $$", "text;", "$$ LANGUAGE;">> \in Seq(Lines)
      /\ <<"CREATE FUNCTION", "text", "AS $$", "text", "text;", "$$ LANGUAGE;">> \in Seq(Lines)
      /\ <<"CREATE FUNCTION", "RETURNS AS $$", "text;", "$$ LANGUAGE", "text;">> \in Seq(Lines)
  BY <1>1, <1>2, <1>3
<1>7. Written \subseteq Seq(Lines)
  BY <1>5, <1>6 DEF Written
<1>8. Between \subseteq Seq(Lines)
  BY <1>1, <1>2, <1>4 DEF Between
<1>9. Rest \subseteq Seq(Lines)
  BY <1>1, <1>2, <1>4 DEF Rest
<1> QED  BY <1>7, <1>8, <1>9

\* What is between statements leaves no trace.
LEMMA BetweenIsSkipped ==
    ASSUME NEW st, Fresh(st), NEW y \in Between
    PROVE  ReadLines(st, y) = st
<1>1. y \in Seq(Lines)
  BY LinesOf
<1>2. PICK f : /\ f[0] = st
               /\ \A n \in 1 .. Len(y) : f[n] = ReadLine(f[n - 1], CleanLine(y[n]))
               /\ ReadLines(st, y) = f[Len(y)]
  BY <1>1, EachLineIsRead
<1>3. CASE y = <<>>
  BY <1>2, <1>3
<1>4. ASSUME NEW line \in Notes \cup Psql, y = <<line>>
      PROVE  ReadLines(st, y) = st
  <2>1. Len(y) = 1 /\ y[1] = line /\ 1 \in 1 .. Len(y)
    BY <1>4
  <2>2. ReadLines(st, y) = ReadLine(st, CleanLine(line))
    BY <1>2, <2>1
  <2>3. CleanLine(line) \in Notes
    BY DEF CleanLine, Notes
  <2> QED  BY <2>2, <2>3 DEF ReadLine, Fresh
<1> QED  BY <1>3, <1>4 DEF Between


\* A state of the loop.
At(statement, block, read) == [statement |-> statement, block |-> block, read |-> read]

\* The first lines of a statement.
First(a, k) == SubSeq(a, 1, k)

LEMMA FirstLines ==
    ASSUME NEW V, NEW a \in Seq(V)
    PROVE  /\ First(a, 0) = <<>> /\ First(a, Len(a)) = a
           /\ \A k \in 1 .. Len(a) :
                 /\ First(a, k) # <<>>
                 /\ First(a, k) = Append(First(a, k - 1), a[k])
                 /\ Contains(First(a, k), a[1])
  BY DEF First, Contains

\* What the loop does with a line: outside of a block, where one begins, in it,
\* where it ends before the statement does, and where the statement ends.
LEMMA PlainLine ==
    ASSUME NEW s, NEW r, NEW line \in {"text", "CREATE FUNCTION", "-- note", "blank"},
           s # <<>> \/ line \in {"text", "CREATE FUNCTION"}
    PROVE  ReadLine(At(s, "none", r), CleanLine(line)) = At(Append(s, line), "none", r)
  BY DEF ReadLine, At, CleanLine, Psql, Opened, Notes, Ends
LEMMA BlockBegins ==
    ASSUME NEW s, NEW r, NEW line, line \notin Notes,
           NEW block, Opened(s, line) = block, block # "none"
    PROVE  ReadLine(At(s, "none", r), line) = At(Append(s, line), block, r)
<1> DEFINE st == At(s, "none", r)
<1>1. st.block = "none" /\ st.statement = s /\ st.read = r
  BY DEF At
<1> HIDE DEF st
<1>2. ~Closes(st.block, line)
  BY <1>1 DEF Closes
<1>3. ReadLine(st, line) = [statement |-> Append(s, line), block |-> block, read |-> r]
  <2> DEFINE next == CASE st.block = "none"      -> Opened(st.statement, line)
                       [] Closes(st.block, line) -> "none"
                       [] OTHER                  -> st.block
  <2>1. next = block
    BY <1>1, <1>2
  <2> HIDE DEF next
  <2>2. ~(next = "none" /\ line \in Ends)
    BY <2>1
  <2>3. ReadLine(st, line) = [statement |-> Append(st.statement, line),
                              block |-> next, read |-> st.read]
    BY <2>2 DEF ReadLine, next
  <2> QED  BY <1>1, <2>1, <2>3
<1> QED  BY <1>3 DEF st, At
LEMMA DoBegins ==
    ASSUME NEW s, NEW r
    PROVE  ReadLine(At(s, "none", r), CleanLine("DO $$")) = At(Append(s, "DO $$"), "do", r)
<1>1. Opened(s, "DO $$") = "do"
  BY DEF Opened
<1>2. CleanLine("DO $$") = "DO $$" /\ "DO $$" \notin Notes
  BY DEF CleanLine, Psql, Notes
<1> QED  BY <1>1, <1>2, BlockBegins
LEMMA FunctionBegins ==
    ASSUME NEW s, NEW r, NEW line \in {"AS $$", "RETURNS AS $$", "CREATE FUNCTION AS $$"},
           line = "AS $$" => Contains(s, "CREATE FUNCTION")
    PROVE  ReadLine(At(s, "none", r), CleanLine(line)) = At(Append(s, line), "function", r)
<1>1. Opened(s, line) = "function"
  BY DEF Opened
<1>2. CleanLine(line) = line /\ line \notin Notes
  BY DEF CleanLine, Psql, Notes
<1> QED  BY <1>1, <1>2, BlockBegins
LEMMA LineOfBlock ==
    ASSUME NEW s, NEW r, NEW line \in {"text", "text;"}, NEW block \in {"do", "function"}
    PROVE  ReadLine(At(s, block, r), CleanLine(line)) = At(Append(s, line), block, r)
  BY DEF ReadLine, At, CleanLine, Psql, Closes, Notes, Ends
LEMMA BlockIsOver ==
    ASSUME NEW s, NEW r
    PROVE  ReadLine(At(s, "function", r), CleanLine("$$ LANGUAGE"))
               = At(Append(s, "$$ LANGUAGE"), "none", r)
  BY DEF ReadLine, At, CleanLine, Psql, Closes, Notes, Ends
LEMMA LastLine ==
    ASSUME NEW s, NEW r, NEW line, NEW block,
           \/ line = "text;" /\ block = "none"
           \/ line = "END $$;" /\ block = "do"
           \/ line = "$$ LANGUAGE;" /\ block = "function"
    PROVE  ReadLine(At(s, block, r), CleanLine(line)) = At(<<>>, "none", Append(r, Append(s, line)))
<1>1. CASE line = "text;" /\ block = "none"
  BY <1>1 DEF ReadLine, At, CleanLine, Psql, Opened, Notes, Ends
<1>2. CASE line = "END $$;" /\ block = "do"
  BY <1>2 DEF ReadLine, At, CleanLine, Psql, Closes, Notes, Ends
<1>3. CASE line = "$$ LANGUAGE;" /\ block = "function"
  BY <1>3 DEF ReadLine, At, CleanLine, Psql, Closes, Notes, Ends
<1> QED  BY <1>1, <1>2, <1>3

\* A statement of a script is read as one.
LEMMA StatementIsRead ==
    ASSUME NEW r, NEW a \in Written
    PROVE  ReadLines(At(<<>>, "none", r), a) = At(<<>>, "none", Append(r, a))
<1>1. a \in Seq(Lines)
  BY LinesOf
<1>2. PICK f : /\ f[0] = At(<<>>, "none", r)
               /\ \A n \in 1 .. Len(a) : f[n] = ReadLine(f[n - 1], CleanLine(a[n]))
               /\ ReadLines(At(<<>>, "none", r), a) = f[Len(a)]
  BY <1>1, EachLineIsRead
<1>3. /\ First(a, 0) = <<>> /\ First(a, Len(a)) = a
      /\ \A k \in 1 .. Len(a) :
            /\ First(a, k) # <<>>
            /\ First(a, k) = Append(First(a, k - 1), a[k])
            /\ Contains(First(a, k), a[1])
  BY <1>1, FirstLines
<1>4. CASE a = <<"text;">>
  <2>1. Len(a) = 1
    BY <1>4
  <2>2. /\ f[1] = ReadLine(f[0], CleanLine("text;"))
        /\ First(a, 1) = Append(First(a, 0), "text;") /\ First(a, 1) # <<>>
    <3>1. 1 \in 1 .. Len(a) /\ 1 - 1 = 0
      BY <2>1
    <3>2. a[1] = "text;"
      BY <1>4
    <3> QED  BY <1>2, <1>3, <3>1, <3>2
  <2>3. f[1] = At(<<>>, "none", Append(r, First(a, 1)))
    <3>1. ReadLine(At(First(a, 0), "none", r), CleanLine("text;"))
              = At(<<>>, "none", Append(r, Append(First(a, 0), "text;")))
      BY LastLine
    <3> QED  BY <1>2, <1>3, <2>2, <3>1
  <2> QED  BY <1>2, <1>3, <2>1, <2>3
<1>5. CASE a = <<"text", "-- note", "text;">>
  <2>1. Len(a) = 3
    BY <1>5
  <2>2. /\ f[1] = ReadLine(f[0], CleanLine("text"))
        /\ First(a, 1) = Append(First(a, 0), "text") /\ First(a, 1) # <<>>
    <3>1. 1 \in 1 .. Len(a) /\ 1 - 1 = 0
      BY <2>1
    <3>2. a[1] = "text"
      BY <1>5
    <3> QED  BY <1>2, <1>3, <3>1, <3>2
  <2>3. /\ f[2] = ReadLine(f[1], CleanLine("-- note"))
        /\ First(a, 2) = Append(First(a, 1), "-- note") /\ First(a, 2) # <<>>
    <3>1. 2 \in 1 .. Len(a) /\ 2 - 1 = 1
      BY <2>1
    <3>2. a[2] = "-- note"
      BY <1>5
    <3> QED  BY <1>2, <1>3, <3>1, <3>2
  <2>4. /\ f[3] = ReadLine(f[2], CleanLine("text;"))
        /\ First(a, 3) = Append(First(a, 2), "text;") /\ First(a, 3) # <<>>
    <3>1. 3 \in 1 .. Len(a) /\ 3 - 1 = 2
      BY <2>1
    <3>2. a[3] = "text;"
      BY <1>5
    <3> QED  BY <1>2, <1>3, <3>1, <3>2
  <2>5. f[1] = At(First(a, 1), "none", r)
    <3>1. ReadLine(At(First(a, 0), "none", r), CleanLine("text"))
              = At(Append(First(a, 0), "text"), "none", r)
      BY PlainLine
    <3> QED  BY <1>2, <1>3, <2>2, <3>1
  <2>6. f[2] = At(First(a, 2), "none", r)
    <3>1. ReadLine(At(First(a, 1), "none", r), CleanLine("-- note"))
              = At(Append(First(a, 1), "-- note"), "none", r)
      BY <2>2, PlainLine
    <3> QED  BY <2>5, <2>2, <2>3, <3>1
  <2>7. f[3] = At(<<>>, "none", Append(r, First(a, 3)))
    <3>1. ReadLine(At(First(a, 2), "none", r), CleanLine("text;"))
              = At(<<>>, "none", Append(r, Append(First(a, 2), "text;")))
      BY <2>3, LastLine
    <3> QED  BY <2>6, <2>3, <2>4, <3>1
  <2> QED  BY <1>2, <1>3, <2>1, <2>7
<1>6. CASE a = <<"text", "blank", "text;">>
  <2>1. Len(a) = 3
    BY <1>6
  <2>2. /\ f[1] = ReadLine(f[0], CleanLine("text"))
        /\ First(a, 1) = Append(First(a, 0), "text") /\ First(a, 1) # <<>>
    <3>1. 1 \in 1 .. Len(a) /\ 1 - 1 = 0
      BY <2>1
    <3>2. a[1] = "text"
      BY <1>6
    <3> QED  BY <1>2, <1>3, <3>1, <3>2
  <2>3. /\ f[2] = ReadLine(f[1], CleanLine("blank"))
        /\ First(a, 2) = Append(First(a, 1), "blank") /\ First(a, 2) # <<>>
    <3>1. 2 \in 1 .. Len(a) /\ 2 - 1 = 1
      BY <2>1
    <3>2. a[2] = "blank"
      BY <1>6
    <3> QED  BY <1>2, <1>3, <3>1, <3>2
  <2>4. /\ f[3] = ReadLine(f[2], CleanLine("text;"))
        /\ First(a, 3) = Append(First(a, 2), "text;") /\ First(a, 3) # <<>>
    <3>1. 3 \in 1 .. Len(a) /\ 3 - 1 = 2
      BY <2>1
    <3>2. a[3] = "text;"
      BY <1>6
    <3> QED  BY <1>2, <1>3, <3>1, <3>2
  <2>5. f[1] = At(First(a, 1), "none", r)
    <3>1. ReadLine(At(First(a, 0), "none", r), CleanLine("text"))
              = At(Append(First(a, 0), "text"), "none", r)
      BY PlainLine
    <3> QED  BY <1>2, <1>3, <2>2, <3>1
  <2>6. f[2] = At(First(a, 2), "none", r)
    <3>1. ReadLine(At(First(a, 1), "none", r), CleanLine("blank"))
              = At(Append(First(a, 1), "blank"), "none", r)
      BY <2>2, PlainLine
    <3> QED  BY <2>5, <2>2, <2>3, <3>1
  <2>7. f[3] = At(<<>>, "none", Append(r, First(a, 3)))
    <3>1. ReadLine(At(First(a, 2), "none", r), CleanLine("text;"))
              = At(<<>>, "none", Append(r, Append(First(a, 2), "text;")))
      BY <2>3, LastLine
    <3> QED  BY <2>6, <2>3, <2>4, <3>1
  <2> QED  BY <1>2, <1>3, <2>1, <2>7
<1>7. CASE a = <<"DO $$", "text", "text;", "END $$;">>
  <2>1. Len(a) = 4
    BY <1>7
  <2>2. /\ f[1] = ReadLine(f[0], CleanLine("DO $$"))
        /\ First(a, 1) = Append(First(a, 0), "DO $$") /\ First(a, 1) # <<>>
    <3>1. 1 \in 1 .. Len(a) /\ 1 - 1 = 0
      BY <2>1
    <3>2. a[1] = "DO $$"
      BY <1>7
    <3> QED  BY <1>2, <1>3, <3>1, <3>2
  <2>3. /\ f[2] = ReadLine(f[1], CleanLine("text"))
        /\ First(a, 2) = Append(First(a, 1), "text") /\ First(a, 2) # <<>>
    <3>1. 2 \in 1 .. Len(a) /\ 2 - 1 = 1
      BY <2>1
    <3>2. a[2] = "text"
      BY <1>7
    <3> QED  BY <1>2, <1>3, <3>1, <3>2
  <2>4. /\ f[3] = ReadLine(f[2], CleanLine("text;"))
        /\ First(a, 3) = Append(First(a, 2), "text;") /\ First(a, 3) # <<>>
    <3>1. 3 \in 1 .. Len(a) /\ 3 - 1 = 2
      BY <2>1
    <3>2. a[3] = "text;"
      BY <1>7
    <3> QED  BY <1>2, <1>3, <3>1, <3>2
  <2>5. /\ f[4] = ReadLine(f[3], CleanLine("END $$;"))
        /\ First(a, 4) = Append(First(a, 3), "END $$;") /\ First(a, 4) # <<>>
    <3>1. 4 \in 1 .. Len(a) /\ 4 - 1 = 3
      BY <2>1
    <3>2. a[4] = "END $$;"
      BY <1>7
    <3> QED  BY <1>2, <1>3, <3>1, <3>2
  <2>6. f[1] = At(First(a, 1), "do", r)
    <3>1. ReadLine(At(First(a, 0), "none", r), CleanLine("DO $$"))
              = At(Append(First(a, 0), "DO $$"), "do", r)
      BY DoBegins
    <3> QED  BY <1>2, <1>3, <2>2, <3>1
  <2>7. f[2] = At(First(a, 2), "do", r)
    <3>1. ReadLine(At(First(a, 1), "do", r), CleanLine("text"))
              = At(Append(First(a, 1), "text"), "do", r)
      BY <2>2, LineOfBlock
    <3> QED  BY <2>6, <2>2, <2>3, <3>1
  <2>8. f[3] = At(First(a, 3), "do", r)
    <3>1. ReadLine(At(First(a, 2), "do", r), CleanLine("text;"))
              = At(Append(First(a, 2), "text;"), "do", r)
      BY <2>3, LineOfBlock
    <3> QED  BY <2>7, <2>3, <2>4, <3>1
  <2>9. f[4] = At(<<>>, "none", Append(r, First(a, 4)))
    <3>1. ReadLine(At(First(a, 3), "do", r), CleanLine("END $$;"))
              = At(<<>>, "none", Append(r, Append(First(a, 3), "END $$;")))
      BY <2>4, LastLine
    <3> QED  BY <2>8, <2>4, <2>5, <3>1
  <2> QED  BY <1>2, <1>3, <2>1, <2>9
<1>8. CASE a = <<"CREATE FUNCTION AS $$", "text;", "$$ LANGUAGE;">>
  <2>1. Len(a) = 3
    BY <1>8
  <2>2. /\ f[1] = ReadLine(f[0], CleanLine("CREATE FUNCTION AS $$"))
        /\ First(a, 1) = Append(First(a, 0), "CREATE FUNCTION AS $$") /\ First(a, 1) # <<>>
    <3>1. 1 \in 1 .. Len(a) /\ 1 - 1 = 0
      BY <2>1
    <3>2. a[1] = "CREATE FUNCTION AS $$"
      BY <1>8
    <3> QED  BY <1>2, <1>3, <3>1, <3>2
  <2>3. /\ f[2] = ReadLine(f[1], CleanLine("text;"))
        /\ First(a, 2) = Append(First(a, 1), "text;") /\ First(a, 2) # <<>>
    <3>1. 2 \in 1 .. Len(a) /\ 2 - 1 = 1
      BY <2>1
    <3>2. a[2] = "text;"
      BY <1>8
    <3> QED  BY <1>2, <1>3, <3>1, <3>2
  <2>4. /\ f[3] = ReadLine(f[2], CleanLine("$$ LANGUAGE;"))
        /\ First(a, 3) = Append(First(a, 2), "$$ LANGUAGE;") /\ First(a, 3) # <<>>
    <3>1. 3 \in 1 .. Len(a) /\ 3 - 1 = 2
      BY <2>1
    <3>2. a[3] = "$$ LANGUAGE;"
      BY <1>8
    <3> QED  BY <1>2, <1>3, <3>1, <3>2
  <2>5. f[1] = At(First(a, 1), "function", r)
    <3>1. ReadLine(At(First(a, 0), "none", r), CleanLine("CREATE FUNCTION AS $$"))
              = At(Append(First(a, 0), "CREATE FUNCTION AS $$"), "function", r)
      BY FunctionBegins
    <3> QED  BY <1>2, <1>3, <2>2, <3>1
  <2>6. f[2] = At(First(a, 2), "function", r)
    <3>1. ReadLine(At(First(a, 1), "function", r), CleanLine("text;"))
              = At(Append(First(a, 1), "text;"), "function", r)
      BY <2>2, LineOfBlock
    <3> QED  BY <2>5, <2>2, <2>3, <3>1
  <2>7. f[3] = At(<<>>, "none", Append(r, First(a, 3)))
    <3>1. ReadLine(At(First(a, 2), "function", r), CleanLine("$$ LANGUAGE;"))
              = At(<<>>, "none", Append(r, Append(First(a, 2), "$$ LANGUAGE;")))
      BY <2>3, LastLine
    <3> QED  BY <2>6, <2>3, <2>4, <3>1
  <2> QED  BY <1>2, <1>3, <2>1, <2>7
<1>9. CASE a = <<"CREATE FUNCTION", "text", "AS $$", "text", "text;", "$$ LANGUAGE;">>
  <2>1. Len(a) = 6
    BY <1>9
  <2>2. /\ f[1] = ReadLine(f[0], CleanLine("CREATE FUNCTION"))
        /\ First(a, 1) = Append(First(a, 0), "CREATE FUNCTION") /\ First(a, 1) # <<>>
        /\ Contains(First(a, 1), "CREATE FUNCTION")
    <3>1. 1 \in 1 .. Len(a) /\ 1 - 1 = 0
      BY <2>1
    <3>2. a[1] = "CREATE FUNCTION"
      BY <1>9
    <3> QED  BY <1>2, <1>3, <3>1, <3>2
  <2>3. /\ f[2] = ReadLine(f[1], CleanLine("text"))
        /\ First(a, 2) = Append(First(a, 1), "text") /\ First(a, 2) # <<>>
        /\ Contains(First(a, 2), "CREATE FUNCTION")
    <3>1. 2 \in 1 .. Len(a) /\ 2 - 1 = 1
      BY <2>1
    <3>2. a[2] = "text"
      BY <1>9
    <3>3. a[1] = "CREATE FUNCTION"
      BY <1>9
    <3> QED  BY <1>2, <1>3, <3>1, <3>2, <3>3
  <2>4. /\ f[3] = ReadLine(f[2], CleanLine("AS $$"))
        /\ First(a, 3) = Append(First(a, 2), "AS $$") /\ First(a, 3) # <<>>
    <3>1. 3 \in 1 .. Len(a) /\ 3 - 1 = 2
      BY <2>1
    <3>2. a[3] = "AS $$"
      BY <1>9
    <3> QED  BY <1>2, <1>3, <3>1, <3>2
  <2>5. /\ f[4] = ReadLine(f[3], CleanLine("text"))
        /\ First(a, 4) = Append(First(a, 3), "text") /\ First(a, 4) # <<>>
    <3>1. 4 \in 1 .. Len(a) /\ 4 - 1 = 3
      BY <2>1
    <3>2. a[4] = "text"
      BY <1>9
    <3> QED  BY <1>2, <1>3, <3>1, <3>2
  <2>6. /\ f[5] = ReadLine(f[4], CleanLine("text;"))
        /\ First(a, 5) = Append(First(a, 4), "text;") /\ First(a, 5) # <<>>
    <3>1. 5 \in 1 .. Len(a) /\ 5 - 1 = 4
      BY <2>1
    <3>2. a[5] = "text;"
      BY <1>9
    <3> QED  BY <1>2, <1>3, <3>1, <3>2
  <2>7. /\ f[6] = ReadLine(f[5], CleanLine("$$ LANGUAGE;"))
        /\ First(a, 6) = Append(First(a, 5), "$$ LANGUAGE;") /\ First(a, 6) # <<>>
    <3>1. 6 \in 1 .. Len(a) /\ 6 - 1 = 5
      BY <2>1
    <3>2. a[6] = "$$ LANGUAGE;"
      BY <1>9
    <3> QED  BY <1>2, <1>3, <3>1, <3>2
  <2>8. f[1] = At(First(a, 1), "none", r)
    <3>1. ReadLine(At(First(a, 0), "none", r), CleanLine("CREATE FUNCTION"))
              = At(Append(First(a, 0), "CREATE FUNCTION"), "none", r)
      BY PlainLine
    <3> QED  BY <1>2, <1>3, <2>2, <3>1
  <2>9. f[2] = At(First(a, 2), "none", r)
    <3>1. ReadLine(At(First(a, 1), "none", r), CleanLine("text"))
              = At(Append(First(a, 1), "text"), "none", r)
      BY <2>2, PlainLine
    <3> QED  BY <2>8, <2>2, <2>3, <3>1
  <2>10. f[3] = At(First(a, 3), "function", r)
    <3>1. ReadLine(At(First(a, 2), "none", r), CleanLine("AS $$"))
              = At(Append(First(a, 2), "AS $$"), "function", r)
      BY <2>3, FunctionBegins
    <3> QED  BY <2>9, <2>3, <2>4, <3>1
  <2>11. f[4] = At(First(a, 4), "function", r)
    <3>1. ReadLine(At(First(a, 3), "function", r), CleanLine("text"))
              = At(Append(First(a, 3), "text"), "function", r)
      BY <2>4, LineOfBlock
    <3> QED  BY <2>10, <2>4, <2>5, <3>1
  <2>12. f[5] = At(First(a, 5), "function", r)
    <3>1. ReadLine(At(First(a, 4), "function", r), CleanLine("text;"))
              = At(Append(First(a, 4), "text;"), "function", r)
      BY <2>5, LineOfBlock
    <3> QED  BY <2>11, <2>5, <2>6, <3>1
  <2>13. f[6] = At(<<>>, "none", Append(r, First(a, 6)))
    <3>1. ReadLine(At(First(a, 5), "function", r), CleanLine("$$ LANGUAGE;"))
              = At(<<>>, "none", Append(r, Append(First(a, 5), "$$ LANGUAGE;")))
      BY <2>6, LastLine
    <3> QED  BY <2>12, <2>6, <2>7, <3>1
  <2> QED  BY <1>2, <1>3, <2>1, <2>13
<1>10. CASE a = <<"CREATE FUNCTION", "RETURNS AS $$", "text;", "$$ LANGUAGE", "text;">>
  <2>1. Len(a) = 5
    BY <1>10
  <2>2. /\ f[1] = ReadLine(f[0], CleanLine("CREATE FUNCTION"))
        /\ First(a, 1) = Append(First(a, 0), "CREATE FUNCTION") /\ First(a, 1) # <<>>
        /\ Contains(First(a, 1), "CREATE FUNCTION")
    <3>1. 1 \in 1 .. Len(a) /\ 1 - 1 = 0
      BY <2>1
    <3>2. a[1] = "CREATE FUNCTION"
      BY <1>10
    <3> QED  BY <1>2, <1>3, <3>1, <3>2
  <2>3. /\ f[2] = ReadLine(f[1], CleanLine("RETURNS AS $$"))
        /\ First(a, 2) = Append(First(a, 1), "RETURNS AS $$") /\ First(a, 2) # <<>>
        /\ Contains(First(a, 2), "CREATE FUNCTION")
    <3>1. 2 \in 1 .. Len(a) /\ 2 - 1 = 1
      BY <2>1
    <3>2. a[2] = "RETURNS AS $$"
      BY <1>10
    <3>3. a[1] = "CREATE FUNCTION"
      BY <1>10
    <3> QED  BY <1>2, <1>3, <3>1, <3>2, <3>3
  <2>4. /\ f[3] = ReadLine(f[2], CleanLine("text;"))
        /\ First(a, 3) = Append(First(a, 2), "text;") /\ First(a, 3) # <<>>
    <3>1. 3 \in 1 .. Len(a) /\ 3 - 1 = 2
      BY <2>1
    <3>2. a[3] = "text;"
      BY <1>10
    <3> QED  BY <1>2, <1>3, <3>1, <3>2
  <2>5. /\ f[4] = ReadLine(f[3], CleanLine("$$ LANGUAGE"))
        /\ First(a, 4) = Append(First(a, 3), "$$ LANGUAGE") /\ First(a, 4) # <<>>
    <3>1. 4 \in 1 .. Len(a) /\ 4 - 1 = 3
      BY <2>1
    <3>2. a[4] = "$$ LANGUAGE"
      BY <1>10
    <3> QED  BY <1>2, <1>3, <3>1, <3>2
  <2>6. /\ f[5] = ReadLine(f[4], CleanLine("text;"))
        /\ First(a, 5) = Append(First(a, 4), "text;") /\ First(a, 5) # <<>>
    <3>1. 5 \in 1 .. Len(a) /\ 5 - 1 = 4
      BY <2>1
    <3>2. a[5] = "text;"
      BY <1>10
    <3> QED  BY <1>2, <1>3, <3>1, <3>2
  <2>7. f[1] = At(First(a, 1), "none", r)
    <3>1. ReadLine(At(First(a, 0), "none", r), CleanLine("CREATE FUNCTION"))
              = At(Append(First(a, 0), "CREATE FUNCTION"), "none", r)
      BY PlainLine
    <3> QED  BY <1>2, <1>3, <2>2, <3>1
  <2>8. f[2] = At(First(a, 2), "function", r)
    <3>1. ReadLine(At(First(a, 1), "none", r), CleanLine("RETURNS AS $$"))
              = At(Append(First(a, 1), "RETURNS AS $$"), "function", r)
      BY <2>2, FunctionBegins
    <3> QED  BY <2>7, <2>2, <2>3, <3>1
  <2>9. f[3] = At(First(a, 3), "function", r)
    <3>1. ReadLine(At(First(a, 2), "function", r), CleanLine("text;"))
              = At(Append(First(a, 2), "text;"), "function", r)
      BY <2>3, LineOfBlock
    <3> QED  BY <2>8, <2>3, <2>4, <3>1
  <2>10. f[4] = At(First(a, 4), "none", r)
    <3>1. ReadLine(At(First(a, 3), "function", r), CleanLine("$$ LANGUAGE"))
              = At(Append(First(a, 3), "$$ LANGUAGE"), "none", r)
      BY <2>4, BlockIsOver
    <3> QED  BY <2>9, <2>4, <2>5, <3>1
  <2>11. f[5] = At(<<>>, "none", Append(r, First(a, 5)))
    <3>1. ReadLine(At(First(a, 4), "none", r), CleanLine("text;"))
              = At(<<>>, "none", Append(r, Append(First(a, 4), "text;")))
      BY <2>5, LastLine
    <3> QED  BY <2>10, <2>5, <2>6, <3>1
  <2> QED  BY <1>2, <1>3, <2>1, <2>11
<1> QED  BY <1>4, <1>5, <1>6, <1>7, <1>8, <1>9, <1>10 DEF Written

\* After whole statements, what is left over is the last one.
LEMMA RestIsLast ==
    ASSUME NEW V, NEW read \in Seq(V), NEW lines \in Seq(Lines), NEW last \in Rest,
           ReadLines(Reading, lines) = At(<<>>, "none", read)
    PROVE  ParseStatements(lines \o last) = IF last = <<>> THEN read ELSE Append(read, last)
<1>1. ReadLines(Reading, lines \o last) = ReadLines(At(<<>>, "none", read), last)
  BY LinesOf, ReadOn
<1>2. PICK f : /\ f[0] = At(<<>>, "none", read)
               /\ \A n \in 1 .. Len(last) : f[n] = ReadLine(f[n - 1], CleanLine(last[n]))
               /\ ReadLines(At(<<>>, "none", read), last) = f[Len(last)]
  BY LinesOf, EachLineIsRead
<1>3. CASE last = <<>>
  <2>1. ReadLines(Reading, lines \o last) = At(<<>>, "none", read)
    BY <1>1, <1>2, <1>3
  <2> QED  BY <1>3, <2>1 DEF ParseStatements, At
<1>4. CASE last = <<"text">>
  <2>1. Len(last) = 1
    BY <1>4
  <2>2. last[1] = "text" /\ last # <<>>
    BY <1>4
  <2>3. 1 \in 1 .. Len(last) /\ 1 - 1 = 0
    BY <2>1
  <2>4. ReadLine(At(<<>>, "none", read), CleanLine("text")) = At(Append(<<>>, "text"), "none", read)
    BY PlainLine
  <2>5. ReadLines(Reading, lines \o last) = At(Append(<<>>, "text"), "none", read)
    BY <1>1, <1>2, <2>1, <2>2, <2>3, <2>4
  <2>6. Append(<<>>, "text") = last
    <3>1. First(last, 0) = <<>> /\ First(last, 1) = last /\ First(last, 1) = Append(First(last, 0), last[1])
      BY <2>1, <2>3, LinesOf, FirstLines
    <3> QED  BY <2>2, <3>1
  <2> QED  BY <2>2, <2>5, <2>6 DEF ParseStatements, At
<1> QED  BY <1>3, <1>4 DEF Rest

\* A script that is put together of any number of statements, in any order and
\* with anything that may be between two of them, is split into just its
\* statements: parseStatements of database-optimization.service.ts:281, with
\* the cleanScript of :264, for scripts of any length.
THEOREM ScriptIsSplit ==
    ASSUME NEW parts \in Seq(Written \cup Between), NEW last \in Rest,
           NEW script, script[0] = <<>>,
           \A n \in 1 .. Len(parts) : script[n] = script[n - 1] \o parts[n],
           NEW statements, statements[0] = <<>>,
           \A n \in 1 .. Len(parts) :
               statements[n] = IF parts[n] \in Written
                               THEN Append(statements[n - 1], parts[n])
                               ELSE statements[n - 1]
    PROVE  ParseStatements(script[Len(parts)] \o last)
               = IF last = <<>> THEN statements[Len(parts)]
                 ELSE Append(statements[Len(parts)], last)
<1> DEFINE S == {n \in Nat : n <= Len(parts) =>
                     /\ script[n] \in Seq(Lines)
                     /\ statements[n] \in Seq(Seq(Lines))
                     /\ ReadLines(Reading, script[n]) = At(<<>>, "none", statements[n])}
<1>1. 0 \in S
  <2>1. <<>> \in Seq(Lines) /\ <<>> \in Seq(Seq(Lines)) /\ Len(<<>>) = 0
    BY EmptySeq
  <2>2. ReadLines(Reading, <<>>) = Reading
    <3>1. <<>> \in Between /\ Fresh(Reading)
      BY DEF Between, Fresh, Reading
    <3> QED  BY <3>1, BetweenIsSkipped
  <2>3. Reading = At(<<>>, "none", <<>>)
    BY DEF Reading, At
  <2> QED  BY <2>1, <2>2, <2>3
<1>2. ASSUME NEW n \in S PROVE n + 1 \in S
  <2> SUFFICES ASSUME n + 1 <= Len(parts)
               PROVE  /\ script[n + 1] \in Seq(Lines)
                      /\ statements[n + 1] \in Seq(Seq(Lines))
                      /\ ReadLines(Reading, script[n + 1]) = At(<<>>, "none", statements[n + 1])
    OBVIOUS
  <2> DEFINE p == parts[n + 1]  r == statements[n]
  <2>1. n + 1 \in 1 .. Len(parts) /\ (n + 1) - 1 = n /\ n <= Len(parts) /\ n \in Nat
    OBVIOUS
  <2>2. p \in Written \cup Between
    BY <2>1
  <2>3. p \in Seq(Lines)
    BY <2>2, LinesOf
  <2>4. /\ script[n] \in Seq(Lines) /\ r \in Seq(Seq(Lines))
        /\ ReadLines(Reading, script[n]) = At(<<>>, "none", r)
    BY <2>1
  <2>5. /\ script[n + 1] = script[n] \o p
        /\ statements[n + 1] = IF p \in Written THEN Append(r, p) ELSE r
    BY <2>1
  <2> HIDE DEF p, r, S
  <2>6. ReadLines(Reading, script[n + 1]) = ReadLines(At(<<>>, "none", r), p)
    BY <2>3, <2>4, <2>5, ReadOn
  <2>7. script[n + 1] \in Seq(Lines)
    BY <2>3, <2>4, <2>5, ConcatProperties
  <2>8. CASE p \in Written
    <3>1. ReadLines(At(<<>>, "none", r), p) = At(<<>>, "none", Append(r, p))
      BY <2>8, StatementIsRead
    <3>2. Append(r, p) \in Seq(Seq(Lines))
      BY <2>3, <2>4, AppendProperties
    <3> QED  BY <2>5, <2>6, <2>7, <2>8, <3>1, <3>2
  <2>9. CASE p \notin Written
    <3>1. Fresh(At(<<>>, "none", r))
      BY DEF Fresh, At
    <3>2. ReadLines(At(<<>>, "none", r), p) = At(<<>>, "none", r)
      BY <2>2, <2>9, <3>1, BetweenIsSkipped
    <3> QED  BY <2>4, <2>5, <2>6, <2>7, <2>9, <3>2
  <2> QED  BY <2>8, <2>9
<1>3. S = Nat
  <2> HIDE DEF S
  <2>1. S \subseteq Nat
    BY DEF S
  <2> QED  BY <1>1, <1>2, <2>1, Induction
<1>4. Len(parts) \in S
  BY <1>3
<1>5. /\ script[Len(parts)] \in Seq(Lines)
      /\ statements[Len(parts)] \in Seq(Seq(Lines))
      /\ ReadLines(Reading, script[Len(parts)]) = At(<<>>, "none", statements[Len(parts)])
  BY <1>4
<1> DEFINE lines == script[Len(parts)]  read == statements[Len(parts)]
<1> HIDE DEF lines, read
<1>6. /\ lines \in Seq(Lines) /\ read \in Seq(Seq(Lines))
      /\ ReadLines(Reading, lines) = At(<<>>, "none", read)
  BY <1>5 DEF lines, read
<1>7. ParseStatements(lines \o last) = IF last = <<>> THEN read ELSE Append(read, last)
  BY <1>6, RestIsLast
<1> QED  BY <1>7 DEF lines, read

\* What reading on does to whole statements.
LEMMA ThenBetween ==
    ASSUME NEW lines \in Seq(Lines), NEW r, ReadLines(Reading, lines) = At(<<>>, "none", r),
           NEW y \in Between
    PROVE  /\ lines \o y \in Seq(Lines)
           /\ ReadLines(Reading, lines \o y) = At(<<>>, "none", r)
<1>1. y \in Seq(Lines)
  BY LinesOf
<1>2. ReadLines(Reading, lines \o y) = ReadLines(At(<<>>, "none", r), y)
  BY <1>1, ReadOn
<1>3. Fresh(At(<<>>, "none", r))
  BY DEF Fresh, At
<1>4. lines \o y \in Seq(Lines)
  BY <1>1, ConcatProperties
<1> QED  BY <1>2, <1>3, <1>4, BetweenIsSkipped
LEMMA ThenStatement ==
    ASSUME NEW lines \in Seq(Lines), NEW r, ReadLines(Reading, lines) = At(<<>>, "none", r),
           NEW a \in Written
    PROVE  /\ lines \o a \in Seq(Lines)
           /\ ReadLines(Reading, lines \o a) = At(<<>>, "none", Append(r, a))
<1>1. a \in Seq(Lines)
  BY LinesOf
<1>2. ReadLines(Reading, lines \o a) = ReadLines(At(<<>>, "none", r), a)
  BY <1>1, ReadOn
<1>3. lines \o a \in Seq(Lines)
  BY <1>1, ConcatProperties
<1> QED  BY <1>2, <1>3, StatementIsRead

\* A list of two, and one more.
LEMMA ListOfTwo ==
    ASSUME NEW V, NEW a \in V, NEW b \in V, NEW c \in V
    PROVE  /\ Append(Append(<<>>, a), b) = <<a, b>>
           /\ <<a, b>> \in Seq(V)
           /\ Append(<<a, b>>, c) = <<a, b, c>>
<1>1. Append(<<>>, a) = <<a>>
  OBVIOUS
<1>2. <<a>> \in Seq(V) /\ <<a, b>> \in Seq(V) /\ <<a, b, c>> \in Seq(V)
  OBVIOUS
<1>3. Append(<<a>>, b) = <<a, b>>
  <2> DEFINE s == <<a>>  t == <<a, b>>
  <2>1. Len(s) = 1 /\ s[1] = a /\ Len(t) = 2 /\ t[1] = a /\ t[2] = b
    OBVIOUS
  <2> HIDE DEF s, t
  <2>2. s \in Seq(V) /\ t \in Seq(V)
    BY <1>2 DEF s, t
  <2>3. /\ Append(s, b) \in Seq(V) /\ Len(Append(s, b)) = 2
        /\ Append(s, b)[1] = a /\ Append(s, b)[2] = b
    <3>1. /\ Append(s, b) \in Seq(V) /\ Len(Append(s, b)) = Len(s) + 1
          /\ \A k \in 1 .. Len(s) : Append(s, b)[k] = s[k]
          /\ Append(s, b)[Len(s) + 1] = b
      BY <2>2, AppendProperties
    <3>2. Len(s) + 1 = 2 /\ \A k \in 1 .. 1 : k \in 1 .. Len(s)
      BY <2>1
    <3>3. Append(s, b)[2] = b /\ Len(Append(s, b)) = 2
      BY <3>1, <3>2
    <3>4. \A k \in 1 .. 1 : Append(s, b)[k] = s[k]
      BY <3>1, <3>2
    <3> QED  BY <2>1, <3>1, <3>3, <3>4
  <2>4. \A k \in 1 .. Len(t) : Append(s, b)[k] = t[k]
    BY <2>1, <2>3
  <2>5. Append(s, b) = t
    BY <2>1, <2>2, <2>3, <2>4, SeqEqual
  <2> QED  BY <2>5 DEF s, t
<1>4. Append(<<a, b>>, c) = <<a, b, c>>
  <2> DEFINE s == <<a, b>>  t == <<a, b, c>>
  <2>1. /\ Len(s) = 2 /\ s[1] = a /\ s[2] = b
        /\ Len(t) = 3 /\ t[1] = a /\ t[2] = b /\ t[3] = c
    OBVIOUS
  <2> HIDE DEF s, t
  <2>2. s \in Seq(V) /\ t \in Seq(V)
    BY <1>2 DEF s, t
  <2>3. /\ Append(s, c) \in Seq(V) /\ Len(Append(s, c)) = 3
        /\ Append(s, c)[1] = a /\ Append(s, c)[2] = b /\ Append(s, c)[3] = c
    <3>1. /\ Append(s, c) \in Seq(V) /\ Len(Append(s, c)) = Len(s) + 1
          /\ \A k \in 1 .. Len(s) : Append(s, c)[k] = s[k]
          /\ Append(s, c)[Len(s) + 1] = c
      BY <2>2, AppendProperties
    <3>2. Len(s) + 1 = 3 /\ \A k \in 1 .. 2 : k \in 1 .. Len(s)
      BY <2>1
    <3>3. Append(s, c)[3] = c /\ Len(Append(s, c)) = 3
      BY <3>1, <3>2
    <3>4. \A k \in 1 .. 2 : Append(s, c)[k] = s[k]
      BY <3>1, <3>2
    <3> QED  BY <2>1, <3>1, <3>3, <3>4
  <2>4. \A k \in 1 .. Len(t) : Append(s, c)[k] = t[k]
    BY <2>1, <2>3
  <2>5. Append(s, c) = t
    BY <2>1, <2>2, <2>3, <2>4, SeqEqual
  <2> QED  BY <2>5 DEF s, t
<1> QED  BY <1>1, <1>2, <1>3, <1>4

\* Every two statements, with what may be before, between and after them.
LEMMA TwoStatements == SplitAsWritten
<1> SUFFICES ASSUME NEW a \in Written, NEW b \in Written,
                    NEW x \in Between, NEW y \in Between, NEW z \in Between, NEW last \in Rest
             PROVE  ParseStatements(x \o a \o y \o b \o z \o last)
                        = IF last = <<>> THEN <<a, b>> ELSE <<a, b, last>>
  BY DEF SplitAsWritten
<1>1. a \in Seq(Lines) /\ b \in Seq(Lines) /\ x \in Seq(Lines) /\ y \in Seq(Lines)
      /\ z \in Seq(Lines) /\ last \in Seq(Lines)
  BY LinesOf
<1> DEFINE l2 == x \o a  l3 == l2 \o y  l4 == l3 \o b  l5 == l4 \o z
           none == <<>>  r1 == Append(none, a)  r2 == Append(r1, b)
<1>2. ReadLines(Reading, x) = At(<<>>, "none", none)
  <2>1. Fresh(Reading) /\ Reading = At(<<>>, "none", <<>>)
    BY DEF Fresh, Reading, At
  <2> QED  BY <2>1, BetweenIsSkipped
<1>3. l2 \in Seq(Lines) /\ ReadLines(Reading, l2) = At(<<>>, "none", r1)
  <2> HIDE DEF l3, l4, l5, r2
  <2> HIDE DEF none
  <2>1. /\ x \o a \in Seq(Lines)
        /\ ReadLines(Reading, x \o a) = At(<<>>, "none", Append(none, a))
    BY <1>1, <1>2, ThenStatement
  <2> QED  BY <2>1
<1> HIDE DEF l2, r1
<1>4. l3 \in Seq(Lines) /\ ReadLines(Reading, l3) = At(<<>>, "none", r1)
  BY <1>1, <1>3, ThenBetween
<1> HIDE DEF l3
<1>5. l4 \in Seq(Lines) /\ ReadLines(Reading, l4) = At(<<>>, "none", r2)
  BY <1>1, <1>4, ThenStatement
<1> HIDE DEF l4, r2
<1>6. l5 \in Seq(Lines) /\ ReadLines(Reading, l5) = At(<<>>, "none", r2)
  BY <1>1, <1>5, ThenBetween
<1> HIDE DEF l5
<1>7. r2 = <<a, b>> /\ r2 \in Seq(Seq(Lines)) /\ Append(r2, last) = <<a, b, last>>
  <2>1. /\ Append(Append(<<>>, a), b) = <<a, b>>
        /\ <<a, b>> \in Seq(Seq(Lines))
        /\ Append(<<a, b>>, last) = <<a, b, last>>
    BY <1>1, ListOfTwo
  <2> QED  BY <2>1 DEF r1, r2
<1>8. ParseStatements(l5 \o last) = IF last = <<>> THEN r2 ELSE Append(r2, last)
  BY <1>6, <1>7, RestIsLast
<1> QED  BY <1>7, <1>8 DEF l2, l3, l4, l5

\* What a job sends to PostgreSQL are the statements of its script as they are
\* written (parseStatements, database-optimization.service.ts:281).
THEOREM StatementsAreAsWritten == Spec => []StatementsAsWritten
<1>1. StatementsAsWritten
  BY TwoStatements DEF StatementsAsWritten
<1> QED  BY <1>1, PTL
===============================================================================
