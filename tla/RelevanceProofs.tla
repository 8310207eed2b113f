--------------------------- MODULE RelevanceProofs ----------------------------
(***************************************************************************)
(* What the corrections and the rankings promise, for all corpora, plans,  *)
(* businesses and sizes: a correction is a term that the index or the      *)
(* dictionary installed for it has or had, or a hardcoded one; an answer   *)
(* has none of the documents twice and loses none, names that contain the  *)
(* query lead where health and rating are in their documented ranges, and  *)
(* threads that fail cost no request.                                      *)
(*                                                                         *)
(* The first part is about TypoTolerance, the second about Ranking.        *)
(***************************************************************************)
EXTENDS TypoTolerance, Ranking, TLAPS, FiniteSetTheorems, SequenceTheorems

SomeIndex == CHOOSE i \in Indexes : TRUE
Hardcoded == {Mapped[w] : w \in DOMAIN Mapped}
Texts == Terms \cup {<<>>}

\* What may be in a dictionary of an index, and what may be answered of it.
Own(i) == ever[i] \cup {<<>>}
Answers(i) == ever[i] \cup Hardcoded \cup {NoTypo}

TermsWereThere ==
    /\ stored \in [Indexes -> [1 .. NFields -> SUBSET Terms]]
    /\ view \in [Indexes -> SUBSET Terms]
    /\ ever \in [Indexes -> SUBSET Terms]
    /\ \A i \in Indexes, f \in 1 .. NFields : stored[i][f] \subseteq ever[i]
    /\ \A i \in Indexes : view[i] \subseteq ever[i]

IsDictionary(d) ==
    /\ d \in [Indexes -> SUBSET Texts]
    /\ \A i \in Indexes : d[i] \subseteq Own(i)

DictionariesWereThere ==
    /\ file = Broken \/ IsDictionary(file)
    /\ dict \in [Instances -> [Indexes -> SUBSET Texts]]
    /\ sym \in [Instances -> [Indexes -> SUBSET Texts]]
    /\ \A n \in Instances, i \in Indexes : dict[n][i] \subseteq Own(i) /\ sym[n][i] \subseteq Own(i)

BuildsWereThere ==
    /\ due \in Seq(Instances \X Indexes)
    /\ build \in [Builders -> [inst : Instances, index : Indexes \cup {SomeIndex},
                               field : Nat, set : SUBSET Terms]]
    /\ \A b \in Builders : build[b].field # 0 =>
          build[b].index \in Indexes /\ build[b].set \subseteq ever[build[b].index]

Stages == {"idle", "load", "judge", "fallback", "view", "direct", "done", "rebuild"}
AnswersWereThere ==
    /\ req \in [Requests -> [at : Stages, index : Indexes \cup {SomeIndex},
                             words : Queries \cup {<<>>}, to : Texts \cup Hardcoded]]
    /\ \A r \in Requests : req[r].at # "idle" => req[r].index \in Indexes
    /\ \A r \in Requests : req[r].at = "done" => req[r].to \in Answers(req[r].index)
    /\ \A k \in DOMAIN typos : k[1] \in Indexes /\ typos[k] \in Answers(k[1])

TypoInv == TermsWereThere /\ DictionariesWereThere /\ BuildsWereThere /\ AnswersWereThere
-----------------------------------------------------------------------------
\* The terms of an index are those of its fields.
LEMMA OfAField ==
    ASSUME NEW i \in Indexes, NEW t
    PROVE  t \in AllTerms(i) <=> \E f \in 1 .. NFields : t \in stored[i][f]
  BY Zenon DEF AllTerms

\* At the start there are no dictionaries but the file's, and no requests.
LEMMA TypoInit == Init => TypoInv
<1> SUFFICES ASSUME Init PROVE TypoInv
  OBVIOUS
<1>1. stored \in [Indexes -> [1 .. NFields -> SUBSET Terms]]
  BY TypoAssumption DEF Init
<1>2. \A i \in Indexes : AllTerms(i) \subseteq Terms
  BY <1>1, OfAField
<1>3. \A i \in Indexes, f \in 1 .. NFields : stored[i][f] \subseteq AllTerms(i)
  BY OfAField
<1>4. /\ file \in [Indexes -> (SUBSET Terms) \cup {{<<>>}}]
      /\ ever = [i \in Indexes |-> AllTerms(i) \cup (file[i] \ {<<>>})]
  BY TypoAssumption DEF Init, None
<1>5. /\ ever \in [Indexes -> SUBSET Terms]
      /\ \A i \in Indexes : AllTerms(i) \subseteq ever[i] /\ file[i] \subseteq ever[i] \cup {<<>>}
  BY <1>2, <1>4
<1>6. TermsWereThere
  BY <1>1, <1>2, <1>3, <1>5 DEF Init, TermsWereThere
<1>7. IsDictionary(NoDictionaries)
  BY DEF IsDictionary, NoDictionaries, None, Own, Texts
<1>8. IsDictionary(file)
  BY <1>4, <1>5 DEF IsDictionary, Own, Texts
<1>9. DictionariesWereThere
  BY <1>7, <1>8 DEF Init, DictionariesWereThere, IsDictionary
<1>10. BuildsWereThere
  BY DEF Init, BuildsWereThere, NoBuild, Instances, SomeIndex
<1>11. AnswersWereThere
  BY DEF Init, AnswersWereThere, Idle, SomeIndex, Stages, Texts
<1>12. QED
  BY <1>6, <1>9, <1>10, <1>11 DEF TypoInv

\* SetToSeq lists the members of a finite set.
LEMMA IndexListed ==
    \A k \in 1 .. Cardinality(Indexes) : SetToSeq(Indexes)[k] \in Indexes
<1> DEFINE N == Cardinality(Indexes)
<1>1. PICK n \in Nat : ExistsBijection(1 .. n, Indexes)
  BY FS_NatBijection, TypoAssumption
<1>2. N = n
  BY <1>1, FS_CountingElements
<1>3. PICK g : g \in Bijection(1 .. N, Indexes)
  BY <1>1, <1>2 DEF ExistsBijection
<1>4. g \in [1 .. N -> Indexes] /\ IsInjective(g)
  BY <1>3 DEF Bijection, Injection
<1>5. SetToSeq(Indexes) \in [1 .. N -> Indexes]
  BY <1>4, Zenon DEF SetToSeq
<1>6. QED
  BY <1>5

\* The file and the dictionaries stay those of terms that were there when the
\* terms that were there only become more.
LEMMA DictionariesStay ==
    ASSUME DictionariesWereThere,
           \A i \in Indexes : ever[i] \subseteq ever'[i],
           UNCHANGED <<file, dict, sym>>
    PROVE  DictionariesWereThere'
  BY DEF DictionariesWereThere, IsDictionary, Own

\* What a request, a write or a refresh does not touch.
LEMMA BuildsStay ==
    ASSUME BuildsWereThere,
           \A i \in Indexes : ever[i] \subseteq ever'[i],
           UNCHANGED <<due, build>>
    PROVE  BuildsWereThere'
  BY DEF BuildsWereThere

\* What requests may answer is not less when terms are added.
LEMMA AnswersStay ==
    ASSUME AnswersWereThere,
           \A i \in Indexes : ever[i] \subseteq ever'[i],
           UNCHANGED <<req, typos>>
    PROVE  AnswersWereThere'
  BY DEF AnswersWereThere, Answers

\* A write adds a term to those that were there, or takes one away from those
\* that are.
LEMMA WriteStep ==
    ASSUME TypoInv, NEW c \in Changes, Write(c[1], c[2], c[3])
    PROVE  TypoInv'
<1>1. c[1] \in Indexes /\ c[2] \in 1 .. NFields /\ c[3] \in Terms
  BY TypoAssumption
<1>2. /\ ever' = [ever EXCEPT ![c[1]] = @ \cup {c[3]}]
      /\ UNCHANGED <<view, file, dict, sym, typos, due, build, req>>
  BY DEF Write, memory
<1>3. ever' \in [Indexes -> SUBSET Terms] /\ \A i \in Indexes : ever[i] \subseteq ever'[i]
  BY <1>1, <1>2 DEF TypoInv, TermsWereThere
<1>4. /\ stored' \in [Indexes -> [1 .. NFields -> SUBSET Terms]]
      /\ \A i \in Indexes, f \in 1 .. NFields : stored'[i][f] \subseteq ever'[i]
  <2>1. stored' = [stored EXCEPT ![c[1]] = [stored[c[1]] EXCEPT ![c[2]] =
                      IF c[3] \in @ THEN @ \ {c[3]} ELSE @ \cup {c[3]}]]
    BY DEF Write
  <2>2. stored \in [Indexes -> [1 .. NFields -> SUBSET Terms]]
    BY DEF TypoInv, TermsWereThere
  <2> DEFINE new == [stored[c[1]] EXCEPT ![c[2]] =
                        IF c[3] \in @ THEN @ \ {c[3]} ELSE @ \cup {c[3]}]
  <2>3. /\ new \in [1 .. NFields -> SUBSET Terms]
        /\ \A f \in 1 .. NFields : new[f] \subseteq stored[c[1]][f] \cup {c[3]}
    <3> DEFINE old == stored[c[1]]
               value == IF c[3] \in old[c[2]] THEN old[c[2]] \ {c[3]} ELSE old[c[2]] \cup {c[3]}
    <3>1. old \in [1 .. NFields -> SUBSET Terms]
      BY <1>1, <2>2
    <3>2. value \in SUBSET Terms /\ value \subseteq old[c[2]] \cup {c[3]}
      BY <1>1, <3>1
    <3>3. new = [old EXCEPT ![c[2]] = value]
      OBVIOUS
    <3> HIDE DEF old, value, new
    <3>4. new \in [1 .. NFields -> SUBSET Terms]
      BY <1>1, <3>1, <3>2, <3>3
    <3>5. \A f \in 1 .. NFields : new[f] = IF f = c[2] THEN value ELSE old[f]
      BY <3>1, <3>3
    <3>6. \A f \in 1 .. NFields : new[f] \subseteq old[f] \cup {c[3]}
      BY <3>2, <3>5
    <3>7. QED
      BY <3>4, <3>6 DEF old
  <2>4. stored' = [stored EXCEPT ![c[1]] = new]
    BY <2>1
  <2> HIDE DEF new
  <2>5. \A i \in Indexes, f \in 1 .. NFields : stored[i][f] \subseteq ever[i]
    BY DEF TypoInv, TermsWereThere
  <2>6. stored' \in [Indexes -> [1 .. NFields -> SUBSET Terms]]
    BY <1>1, <2>2, <2>3, <2>4
  <2>7. ASSUME NEW i \in Indexes, NEW f \in 1 .. NFields
        PROVE  stored'[i][f] \subseteq ever'[i]
    <3>1. CASE i = c[1]
      <4>1. stored'[i] = new
        BY <2>2, <2>4, <3>1
      <4>2. ever'[i] = ever[i] \cup {c[3]}
        BY <1>2, <3>1 DEF TypoInv, TermsWereThere
      <4>3. QED
        BY <2>3, <2>5, <3>1, <4>1, <4>2
    <3>2. CASE i # c[1]
      BY <1>3, <2>2, <2>4, <2>5, <3>2
    <3>3. QED
      BY <3>1, <3>2
  <2>8. QED
    BY <2>6, <2>7
<1>5. TermsWereThere'
  BY <1>2, <1>3, <1>4 DEF TypoInv, TermsWereThere
<1>6. QED
  BY <1>2, <1>3, <1>5, DictionariesStay, BuildsStay, AnswersStay DEF TypoInv

\* The materialized view gets terms that are stored.
LEMMA RefreshStep ==
    ASSUME TypoInv, RefreshView
    PROVE  TypoInv'
<1>1. view' = [i \in Indexes |-> AllTerms(i)] /\ UNCHANGED <<stored, ever>>
  BY DEF RefreshView
<1>2. \A i \in Indexes : AllTerms(i) \subseteq ever[i] /\ ever[i] \subseteq Terms
  BY OfAField DEF TypoInv, TermsWereThere
<1>3. TermsWereThere'
  BY <1>1, <1>2 DEF TypoInv, TermsWereThere
<1>4. QED
  BY <1>1, <1>3, DictionariesStay, BuildsStay, AnswersStay DEF TypoInv, RefreshView, memory

-----------------------------------------------------------------------------
(* Builds.                                                                 *)

\* A start reads the dictionary file and begins the builds.
LEMMA StartStep ==
    ASSUME TypoInv, Start
    PROVE  TypoInv'
<1> DEFINE Jobs(n) == [k \in 1 .. Cardinality(Indexes) |-> <<n, SetToSeq(Indexes)[k]>>]
<1>1. \A n \in Instances : Jobs(n) \in Seq(Instances \X Indexes)
  <2>1. Cardinality(Indexes) \in Nat
    BY FS_CardinalityType, TypoAssumption
  <2>2. \A n \in Instances : Jobs(n) \in [1 .. Cardinality(Indexes) -> Instances \X Indexes]
    BY IndexListed
  <2>3. TAKE n \in Instances
  <2>4. Jobs(n) \in [1 .. Cardinality(Indexes) -> Instances \X Indexes]
    BY <2>2
  <2> HIDE DEF Jobs
  <2>5. QED
    BY <2>1, <2>4, SeqDef, Zenon
<1>2. due' = Jobs(Reader) \o Jobs(Shadow) \/ due' \in {Jobs(Reader), Jobs(Shadow)}
  BY DEF Start
<1> HIDE DEF Jobs
<1>3. due' \in Seq(Instances \X Indexes)
  <2>1. Jobs(Reader) \in Seq(Instances \X Indexes) /\ Jobs(Shadow) \in Seq(Instances \X Indexes)
    BY <1>1 DEF Instances
  <2>2. QED
    BY <1>2, <2>1, ConcatProperties
<1>4. /\ dict' = [n \in Instances |-> IF file = Broken THEN NoDictionaries ELSE file]
      /\ UNCHANGED <<stored, view, ever, file, sym, typos, build, req>>
  BY DEF Start, rest
<1>5. IsDictionary(NoDictionaries)
  BY DEF IsDictionary, NoDictionaries, None, Own, Texts
<1>6. DictionariesWereThere'
  BY <1>4, <1>5 DEF TypoInv, DictionariesWereThere, IsDictionary, Own
<1>7. TermsWereThere' /\ BuildsWereThere' /\ AnswersWereThere'
  BY <1>3, <1>4 DEF TypoInv, TermsWereThere, BuildsWereThere, AnswersWereThere, Answers
<1>8. QED
  BY <1>6, <1>7 DEF TypoInv

\* A crash forgets the memory and may break the file.
LEMMA CrashStep ==
    ASSUME TypoInv, Crash
    PROVE  TypoInv'
<1>1. /\ file' \in {file, Broken}
      /\ dict' = [n \in Instances |-> NoDictionaries]
      /\ sym' = [n \in Instances |-> NoDictionaries]
      /\ typos' = <<>> /\ due' = <<>>
      /\ build' = [b \in Builders |-> NoBuild]
      /\ req' = [r \in Requests |-> Idle]
      /\ UNCHANGED <<stored, view, ever>>
  BY DEF Crash, rest
<1>2. TermsWereThere'
  BY <1>1 DEF TypoInv, TermsWereThere
<1>3. IsDictionary(NoDictionaries)
  BY DEF IsDictionary, NoDictionaries, None, Own, Texts
<1>4. DictionariesWereThere'
  BY <1>1, <1>3 DEF TypoInv, DictionariesWereThere, IsDictionary, Own
<1>5. BuildsWereThere'
  BY <1>1 DEF BuildsWereThere, NoBuild, Instances, SomeIndex
<1>6. AnswersWereThere'
  BY <1>1 DEF AnswersWereThere, Idle, SomeIndex, Stages, Texts
<1>7. QED
  BY <1>2, <1>4, <1>5, <1>6 DEF TypoInv

\* An index is given the terms of a dictionary that is there, or of a build.
LEMMA Published ==
    ASSUME TermsWereThere, NEW f, NEW n \in Instances, NEW i \in Indexes, NEW S,
           f \in [Instances -> [Indexes -> SUBSET Texts]], S \in SUBSET Texts, S \subseteq Own(i),
           \A m \in Instances, j \in Indexes : f[m][j] \subseteq Own(j),
           NEW g, g = [f EXCEPT ![n][i] = S]
    PROVE  /\ g \in [Instances -> [Indexes -> SUBSET Texts]]
           /\ \A m \in Instances, j \in Indexes : g[m][j] \subseteq Own(j)
<1>1. \A m \in Instances, j \in Indexes :
         g[m][j] = IF m = n /\ j = i THEN S ELSE f[m][j]
  OBVIOUS
<1>2. g \in [Instances -> [Indexes -> SUBSET Texts]]
  OBVIOUS
<1>3. QED
  BY <1>1, <1>2

\* A build goes to the next index of the list.
LEMMA NextIndexStep ==
    ASSUME TypoInv, NextIndex
    PROVE  TypoInv'
<1>1. UNCHANGED <<stored, view, ever, file, dict, typos, req>>
  BY DEF NextIndex, rest
<1>2. TermsWereThere' /\ AnswersWereThere'
  BY <1>1, AnswersStay DEF TypoInv, TermsWereThere
<1>3. CASE due = <<>>
  <2>1. UNCHANGED <<sym, build, due>>
    BY <1>3 DEF NextIndex
  <2>2. QED
    BY <1>1, <1>2, <2>1, DictionariesStay, BuildsStay DEF TypoInv
<1>4. CASE due # <<>>
  <2> DEFINE n == Head(due)[1]  i == Head(due)[2]
  <2>1. due \in Seq(Instances \X Indexes)
    BY DEF TypoInv, BuildsWereThere
  <2>2. Head(due) \in Instances \X Indexes /\ Tail(due) \in Seq(Instances \X Indexes)
    BY <1>4, <2>1, HeadTailProperties
  <2>3. n \in Instances /\ i \in Indexes
    BY <2>2
  <2>4. due' = Tail(due) /\ BuildIndex(Boot, n, i)
    BY <1>4 DEF NextIndex
  <2> HIDE DEF n, i
  <2>5. CASE dict[n][i] \notin {None, {}}
    <3>1. sym' = [sym EXCEPT ![n][i] = dict[n][i]] /\ UNCHANGED build
      BY <2>4, <2>5 DEF BuildIndex
    <3>2. dict[n][i] \in SUBSET Texts /\ dict[n][i] \subseteq Own(i)
      BY <2>3 DEF TypoInv, DictionariesWereThere
    <3>3. /\ sym' \in [Instances -> [Indexes -> SUBSET Texts]]
          /\ \A m \in Instances, j \in Indexes : sym'[m][j] \subseteq Own(j)
      BY <2>3, <3>1, <3>2, Published DEF TypoInv, DictionariesWereThere
    <3>4. DictionariesWereThere'
      BY <1>1, <3>3 DEF TypoInv, DictionariesWereThere, IsDictionary, Own
    <3>5. BuildsWereThere'
      BY <1>1, <2>2, <2>4, <3>1 DEF TypoInv, BuildsWereThere
    <3>6. QED
      BY <1>2, <3>4, <3>5 DEF TypoInv
  <2>6. CASE dict[n][i] \in {None, {}}
    <3>1. /\ build' = [build EXCEPT ![Boot] = [inst |-> n, index |-> i, field |-> 1, set |-> {}]]
          /\ UNCHANGED sym
      BY <2>4, <2>6 DEF BuildIndex
    <3>2. BuildsWereThere'
      BY <1>1, <2>2, <2>3, <2>4, <3>1 DEF TypoInv, BuildsWereThere, Builders
    <3>3. QED
      BY <1>1, <1>2, <3>1, <3>2, DictionariesStay DEF TypoInv
  <2>7. QED
    BY <2>5, <2>6
<1>5. QED
  BY <1>3, <1>4

\* A build adds a field's terms, all of its index.
LEMMA ExtractStep ==
    ASSUME TypoInv, NEW b \in Builders, ExtractField(b)
    PROVE  TypoInv'
<1> DEFINE i == build[b].index  f == build[b].field
           set == ValidTerms(i, f)
<1>1. UNCHANGED <<stored, view, ever, file, dict, sym, typos, due, req>>
  BY DEF ExtractField, rest
<1>2. f \in 1 .. NFields /\ f \in Nat /\ build[b] \in [inst : Instances, index : Indexes \cup {SomeIndex},
                               field : Nat, set : SUBSET Terms]
  BY DEF ExtractField, TypoInv, BuildsWereThere
<1>3. i \in Indexes /\ build[b].set \subseteq ever[i]
  BY <1>2 DEF TypoInv, BuildsWereThere
<1>4. set \subseteq ever[i] /\ set \subseteq Terms
  BY <1>2, <1>3 DEF ValidTerms, TypoInv, TermsWereThere
<1>5. PICK new : /\ build' = [build EXCEPT ![b] = new]
                 /\ new.inst = build[b].inst /\ new.index = i /\ new.field = f + 1
                 /\ new.set \in {build[b].set, build[b].set \cup set}
                 /\ new \in [inst : Instances, index : Indexes \cup {SomeIndex},
                               field : Nat, set : SUBSET Terms]
  <2>1. CASE build' = [build EXCEPT ![b].set = @ \cup set, ![b].field = @ + 1]
    <3> DEFINE new == [build[b] EXCEPT !.set = @ \cup set, !.field = @ + 1]
    <3>1. build' = [build EXCEPT ![b] = new]
      BY <2>1 DEF TypoInv, BuildsWereThere
    <3>2. /\ new.inst = build[b].inst /\ new.index = i /\ new.field = f + 1
          /\ new.set = build[b].set \cup set
      BY <1>2
    <3>3. new \in [inst : Instances, index : Indexes \cup {SomeIndex}, field : Nat, set : SUBSET Terms]
      <4>1. f + 1 \in Nat /\ build[b].set \cup set \in SUBSET Terms
        BY <1>2, <1>4
      <4>2. new = [inst |-> build[b].inst, index |-> i, field |-> f + 1,
                   set |-> build[b].set \cup set]
        <5> DEFINE old == build[b]  more == build[b].set \cup set  next == f + 1
        <5>1. old \in [inst : Instances, index : Indexes \cup {SomeIndex}, field : Nat, set : SUBSET Terms]
          BY <1>2
        <5>2. new = [old EXCEPT !.set = more, !.field = next]
          OBVIOUS
        <5> HIDE DEF new, old, more, next
        <5>3. new = [inst |-> old.inst, index |-> old.index, field |-> next, set |-> more]
          BY <5>1, <5>2
        <5>4. QED
          BY <5>3 DEF old, more, next
      <4> HIDE DEF new, i, f, set
      <4>3. QED
        BY <1>2, <1>3, <4>1, <4>2
    <3>4. QED
      BY <3>1, <3>2, <3>3
  <2>2. CASE build' = [build EXCEPT ![b].field = @ + 1]
    <3> DEFINE new == [build[b] EXCEPT !.field = @ + 1]
    <3>1. build' = [build EXCEPT ![b] = new]
      BY <2>2 DEF TypoInv, BuildsWereThere
    <3>2. /\ new.inst = build[b].inst /\ new.index = i /\ new.field = f + 1
          /\ new.set = build[b].set
      BY <1>2
    <3>3. new \in [inst : Instances, index : Indexes \cup {SomeIndex}, field : Nat, set : SUBSET Terms]
      BY <1>2
    <3>4. QED
      BY <3>1, <3>2, <3>3
  <2>3. QED
    BY <2>1, <2>2 DEF ExtractField
<1>6. build \in [Builders -> [inst : Instances, index : Indexes \cup {SomeIndex},
                               field : Nat, set : SUBSET Terms]]
  BY DEF TypoInv, BuildsWereThere
<1>7. new.index \in Indexes /\ new.set \subseteq ever[new.index]
  BY <1>3, <1>4, <1>5
<1> HIDE DEF i, f, set
<1>8. BuildsWereThere'
  BY <1>1, <1>5, <1>6, <1>7 DEF TypoInv, BuildsWereThere
<1>9. TermsWereThere' /\ DictionariesWereThere' /\ AnswersWereThere'
  BY <1>1, DictionariesStay, AnswersStay DEF TypoInv, TermsWereThere
<1>10. QED
  BY <1>8, <1>9 DEF TypoInv

\* A build gives its terms to the memory of its instance.
LEMMA PublishStep ==
    ASSUME TypoInv, NEW b \in Builders, PublishAndSave(b)
    PROVE  TypoInv'
<1> DEFINE n == build[b].inst  i == build[b].index  S == build[b].set
<1>1. UNCHANGED <<stored, view, ever, typos, due>>
  BY DEF PublishAndSave, rest
<1>2. /\ build[b].field > NFields /\ build[b].field # 0
      /\ build[b] \in [inst : Instances, index : Indexes \cup {SomeIndex},
                        field : Nat, set : SUBSET Terms]
  BY TypoAssumption DEF PublishAndSave, Finished, TypoInv, BuildsWereThere
<1>3. n \in Instances /\ i \in Indexes /\ S \subseteq Own(i) /\ S \in SUBSET Texts
  BY <1>2 DEF TypoInv, BuildsWereThere, Own, Texts
<1>4. /\ sym' = [sym EXCEPT ![n][i] = S] /\ dict' = [dict EXCEPT ![n][i] = S]
      /\ file' \in {file, dict'[n]}
      /\ build' = [build EXCEPT ![b] = NoBuild]
      /\ req' = req \/ (b \in Admins /\ req' = [req EXCEPT ![b] = Idle])
  BY DEF PublishAndSave, Ended, Builders
<1> HIDE DEF n, i, S
<1>5. /\ sym' \in [Instances -> [Indexes -> SUBSET Texts]]
      /\ \A m \in Instances, j \in Indexes : sym'[m][j] \subseteq Own(j)
  BY <1>3, <1>4, Published DEF TypoInv, DictionariesWereThere
<1>6. /\ dict' \in [Instances -> [Indexes -> SUBSET Texts]]
      /\ \A m \in Instances, j \in Indexes : dict'[m][j] \subseteq Own(j)
  BY <1>3, <1>4, Published DEF TypoInv, DictionariesWereThere
<1>7. IsDictionary(dict'[n])
  BY <1>3, <1>6 DEF IsDictionary
<1>8. DictionariesWereThere'
  BY <1>1, <1>4, <1>5, <1>6, <1>7 DEF TypoInv, DictionariesWereThere, IsDictionary, Own
<1>9. BuildsWereThere'
  BY <1>1, <1>4 DEF TypoInv, BuildsWereThere, NoBuild, Instances, SomeIndex
<1>10. AnswersWereThere'
  BY <1>1, <1>4 DEF TypoInv, AnswersWereThere, Answers, Idle, SomeIndex, Requests, Stages, Texts
<1>11. QED
  BY <1>1, <1>8, <1>9, <1>10 DEF TypoInv, TermsWereThere
-----------------------------------------------------------------------------
(* Requests.                                                               *)

\* A request moves to another record.
LEMMA RequestMoves ==
    ASSUME AnswersWereThere, NEW r \in Requests, NEW new,
           new \in [at : Stages, index : Indexes \cup {SomeIndex},
                    words : Queries \cup {<<>>}, to : Texts \cup Hardcoded],
           new.at # "idle" => new.index \in Indexes,
           new.at = "done" => new.to \in Answers(new.index),
           req' = [req EXCEPT ![r] = new], UNCHANGED ever,
           \A k \in DOMAIN typos' : k[1] \in Indexes /\ typos'[k] \in Answers(k[1])
    PROVE  AnswersWereThere'
<1>1. req' \in [Requests -> [at : Stages, index : Indexes \cup {SomeIndex},
                             words : Queries \cup {<<>>}, to : Texts \cup Hardcoded]]
  BY DEF AnswersWereThere
<1>2. \A q \in Requests : req'[q] = IF q = r THEN new ELSE req[q]
  BY DEF AnswersWereThere
<1>3. \A i : Answers(i)' = Answers(i)
  BY DEF Answers
<1>4. QED
  BY <1>1, <1>2, <1>3 DEF AnswersWereThere

\* The nearest term of a set is one of it, or nothing.
LEMMA CorrectionIsTerm ==
    ASSUME NEW text, NEW S, NEW to \in Corrections(text, S)
    PROVE  to \in S \cup {NoTypo}
  BY DEF Corrections, Best

\* So is what the fallback finds.
LEMMA FallbackIsTerm ==
    ASSUME NEW text, NEW S, NEW to \in FallbackCorrections(text, S)
    PROVE  to \in S \cup {NoTypo}
  BY DEF FallbackCorrections, Best

\* A request is answered with a term that was there.
LEMMA AnswerStep ==
    ASSUME TermsWereThere, AnswersWereThere, NEW r \in Requests, req[r].index \in Indexes,
           NEW to \in Answers(req[r].index), Answer(r, to), UNCHANGED ever,
           typos' = typos \/ Keep(r, to)
    PROVE  AnswersWereThere'
<1> DEFINE i == req[r].index
           new == [req[r] EXCEPT !.at = "done", !.to = to]
<1>1. req \in [Requests -> [at : Stages, index : Indexes \cup {SomeIndex},
                            words : Queries \cup {<<>>}, to : Texts \cup Hardcoded]]
  BY DEF AnswersWereThere
<1>2. req' = [req EXCEPT ![r] = new]
  BY <1>1 DEF Answer
<1>3. to \in Texts \cup Hardcoded
  BY DEF Answers, Texts, NoTypo, TermsWereThere
<1>4. new \in [at : Stages, index : Indexes \cup {SomeIndex},
               words : Queries \cup {<<>>}, to : Texts \cup Hardcoded]
  BY <1>1, <1>3 DEF Stages
<1>5. new.at = "done" /\ new.index = i /\ new.to = to
  BY <1>1
<1>6. ASSUME NEW k \in DOMAIN typos'
      PROVE  k[1] \in Indexes /\ typos'[k] \in Answers(k[1])
  <2>1. \A l \in DOMAIN typos : l[1] \in Indexes /\ typos[l] \in Answers(l[1])
    BY DEF AnswersWereThere
  <2>2. CASE typos' = typos
    BY <2>1, <2>2, <1>6
  <2>3. CASE Keep(r, to)
    <3>1. DOMAIN typos' = DOMAIN typos \cup {Key(r)}
      BY <2>3 DEF Keep
    <3>2. typos'[k] = IF k = Key(r) THEN to ELSE typos[k]
      BY <2>3, <3>1, <1>6 DEF Keep
    <3>3. Key(r)[1] = i
      BY DEF Key
    <3>4. QED
      BY <2>1, <3>1, <3>2, <3>3, <1>6
  <2>4. QED
    BY <2>2, <2>3
<1> HIDE DEF new, i
<1>7. QED
  BY <1>2, <1>4, <1>5, <1>6, RequestMoves DEF i

\* A request of an index goes on to another stage.
LEMMA StageStep ==
    ASSUME AnswersWereThere, NEW r \in Requests, req[r].index \in Indexes,
           NEW stage \in Stages \ {"done"}, req' = [req EXCEPT ![r].at = stage],
           UNCHANGED <<ever, typos>>
    PROVE  AnswersWereThere'
<1> DEFINE new == [req[r] EXCEPT !.at = stage]
<1>1. req \in [Requests -> [at : Stages, index : Indexes \cup {SomeIndex},
                            words : Queries \cup {<<>>}, to : Texts \cup Hardcoded]]
  BY DEF AnswersWereThere
<1>2. req' = [req EXCEPT ![r] = new]
  BY <1>1
<1>3. new \in [at : Stages, index : Indexes \cup {SomeIndex},
               words : Queries \cup {<<>>}, to : Texts \cup Hardcoded]
  BY <1>1
<1>4. new.at = stage /\ new.index = req[r].index
  BY <1>1
<1>5. \A k \in DOMAIN typos' : k[1] \in Indexes /\ typos'[k] \in Answers(k[1])
  BY DEF AnswersWereThere
<1> HIDE DEF new
<1>6. QED
  BY <1>2, <1>3, <1>4, <1>5, RequestMoves

\* A request decides whether the query is corrected at all.
LEMMA JudgeStep ==
    ASSUME TypoInv, NEW r \in Clients, Judge(r)
    PROVE  TypoInv'
<1> DEFINE i == req[r].index
<1>1. UNCHANGED <<stored, view, ever, file, dict, sym, due, build>>
  BY DEF Judge, rest
<1> SUFFICES AnswersWereThere'
  BY <1>1, DictionariesStay, BuildsStay DEF TypoInv, TermsWereThere
<1>2. r \in Requests /\ req[r].at = "judge"
  BY DEF Judge, Requests
<1>3. i \in Indexes
  BY <1>2 DEF TypoInv, AnswersWereThere
<1>4. CASE Answer(r, NoTypo) /\ UNCHANGED typos
  BY <1>1, <1>2, <1>3, <1>4, AnswerStep DEF TypoInv, Answers
<1>5. CASE Kept(r) /\ Answer(r, typos[Key(r)]) /\ UNCHANGED typos
  <2>1. Key(r) \in DOMAIN typos /\ Key(r)[1] = i
    BY <1>5 DEF Kept, Key
  <2>2. typos[Key(r)] \in Answers(i)
    BY <2>1 DEF TypoInv, AnswersWereThere
  <2>3. QED
    BY <1>1, <1>2, <1>3, <1>5, <2>2, AnswerStep DEF TypoInv
<1>6. CASE /\ Text(r) \in DOMAIN Mapped /\ Answer(r, Mapped[Text(r)]) /\ Keep(r, Mapped[Text(r)])
  <2>1. Mapped[Text(r)] \in Answers(i)
    BY <1>6 DEF Answers, Hardcoded
  <2>2. QED
    BY <1>1, <1>2, <1>3, <1>6, <2>1, AnswerStep DEF TypoInv
<1>7. CASE \E to \in Corrections(Text(r), sym[Reader][i]) : Answer(r, to) /\ Keep(r, to)
  <2>1. PICK to \in Corrections(Text(r), sym[Reader][i]) : Answer(r, to) /\ Keep(r, to)
    BY <1>7
  <2>2. to \in sym[Reader][i] \cup {NoTypo}
    BY CorrectionIsTerm
  <2>3. sym[Reader][i] \subseteq Own(i)
    BY <1>3 DEF TypoInv, DictionariesWereThere, Instances
  <2>4. to \in Answers(i)
    BY <2>2, <2>3 DEF Own, Answers, NoTypo
  <2>5. QED
    BY <1>1, <1>2, <1>3, <2>1, <2>4, AnswerStep DEF TypoInv
<1>8. CASE req' = [req EXCEPT ![r].at = "fallback"] /\ UNCHANGED typos
  BY <1>1, <1>2, <1>3, <1>8, StageStep DEF TypoInv, Stages
<1>9. QED
  BY <1>4, <1>5, <1>6, <1>7, <1>8, Zenon DEF Judge

\* The answers of the database.
LEMMA DatabaseStep ==
    ASSUME TypoInv, NEW r \in Clients, Fallback(r) \/ ViewAnswers(r) \/ DirectAnswers(r)
    PROVE  TypoInv'
<1> DEFINE i == req[r].index
<1>1. UNCHANGED <<stored, view, ever, file, dict, sym, due, build, typos>>
  BY DEF Fallback, ViewAnswers, DirectAnswers, rest
<1>2. r \in Requests /\ i \in Indexes
  BY DEF Fallback, ViewAnswers, DirectAnswers, Requests, TypoInv, AnswersWereThere
<1>3. AllTerms(i) \subseteq ever[i] /\ view[i] \subseteq ever[i] /\ stored[i][1] \subseteq ever[i]
  <2>1. 1 \in 1 .. NFields
    BY TypoAssumption
  <2>2. QED
    BY <1>2, <2>1, OfAField DEF TypoInv, TermsWereThere
<1>4. ASSUME NEW to \in ever[i] \cup {NoTypo}, Answer(r, to)
      PROVE  TypoInv'
  <2>1. to \in Answers(i)
    BY <1>4 DEF Answers
  <2>2. AnswersWereThere'
    BY <1>1, <1>2, <1>4, <2>1, AnswerStep DEF TypoInv
  <2>3. QED
    BY <1>1, <2>2, DictionariesStay, BuildsStay DEF TypoInv, TermsWereThere
<1>5. CASE Fallback(r)
  <2>1. CASE \E to \in FallbackCorrections(Text(r), AllTerms(i)) : Answer(r, to)
    <3>1. PICK to \in FallbackCorrections(Text(r), AllTerms(i)) : Answer(r, to)
      BY <2>1
    <3>2. to \in ever[i] \cup {NoTypo}
      BY <1>3, FallbackIsTerm
    <3>3. QED
      BY <1>4, <3>1, <3>2
  <2>2. QED
    BY <1>4, <1>5, <2>1 DEF Fallback
<1>6. CASE ViewAnswers(r)
  <2>1. CASE req' = [req EXCEPT ![r].at = "direct"]
    <3>1. AnswersWereThere'
      BY <1>1, <1>2, <2>1, StageStep DEF TypoInv, Stages
    <3>2. QED
      BY <1>1, <3>1, DictionariesStay, BuildsStay DEF TypoInv, TermsWereThere
  <2>2. QED
    BY <1>3, <1>4, <1>6, <2>1 DEF ViewAnswers
<1>7. CASE DirectAnswers(r)
  BY <1>3, <1>4, <1>7 DEF DirectAnswers
<1>8. QED
  BY <1>5, <1>6, <1>7

\* A request loads a dictionary that is missing.
LEMMA LoadStep ==
    ASSUME TypoInv, NEW r \in Clients, LoadDictionary(r)
    PROVE  TypoInv'
<1>1. UNCHANGED <<stored, view, ever, file, dict, sym, due, build, typos>>
  BY DEF LoadDictionary, rest
<1>2. r \in Requests /\ req[r].index \in Indexes
  BY DEF LoadDictionary, Requests, TypoInv, AnswersWereThere
<1>3. AnswersWereThere'
  BY <1>1, <1>2, StageStep DEF LoadDictionary, TypoInv, Stages
<1>4. QED
  BY <1>1, <1>3, DictionariesStay, BuildsStay DEF TypoInv, TermsWereThere

\* A request ends.
LEMMA DoneStep ==
    ASSUME TypoInv, NEW r \in Clients, Done(r)
    PROVE  TypoInv'
<1>1. UNCHANGED <<stored, view, ever, file, dict, sym, due, build, typos>>
  BY DEF Done, rest
<1>2. Idle \in [at : Stages, index : Indexes \cup {SomeIndex},
                words : Queries \cup {<<>>}, to : Texts \cup Hardcoded]
      /\ Idle.at = "idle"
  BY DEF Idle, SomeIndex, Stages, Texts
<1>3. req' = [req EXCEPT ![r] = Idle] /\ r \in Requests
  BY DEF Done, Requests
<1>4. AnswersWereThere'
  BY <1>1, <1>2, <1>3, RequestMoves DEF TypoInv, AnswersWereThere
<1>5. QED
  BY <1>1, <1>4, DictionariesStay, BuildsStay DEF TypoInv, TermsWereThere

\* A search begins.
LEMMA AskStep ==
    ASSUME TypoInv, NEW r \in Clients, NEW i \in Indexes, NEW q \in Queries, Ask(r, i, q)
    PROVE  TypoInv'
<1>1. UNCHANGED <<stored, view, ever, file, dict, sym, due, build, typos>>
  BY DEF Ask, rest
<1>2. PICK stage \in {"load", "judge"} :
         req' = [req EXCEPT ![r] = [at |-> stage, index |-> i, words |-> q, to |-> NoTypo]]
  BY DEF Ask
<1>3. AnswersWereThere'
  BY <1>1, <1>2, RequestMoves DEF TypoInv, AnswersWereThere, Requests, Stages, NoTypo, Texts
<1>4. QED
  BY <1>1, <1>3, DictionariesStay, BuildsStay DEF TypoInv, TermsWereThere

\* A client that types asks for suggestions.
LEMMA SuggestStep ==
    ASSUME TypoInv, NEW r \in Clients, NEW i \in Indexes, NEW q \in Queries, Suggest(r, i, q)
    PROVE  TypoInv'
<1>1. UNCHANGED <<stored, view, ever, file, dict, sym, due, build, typos>>
  BY DEF Suggest, rest
<1>2. PICK stage \in {"view", "direct"} :
         req' = [req EXCEPT ![r].index = i, ![r].words = q, ![r].at = stage]
  BY DEF Suggest
<1> DEFINE new == [req[r] EXCEPT !.index = i, !.words = q, !.at = stage]
<1>3. req \in [Requests -> [at : Stages, index : Indexes \cup {SomeIndex},
                            words : Queries \cup {<<>>}, to : Texts \cup Hardcoded]]
      /\ r \in Requests
  BY DEF TypoInv, AnswersWereThere, Requests
<1>4. req' = [req EXCEPT ![r] = new]
  BY <1>2, <1>3
<1>5. new \in [at : Stages, index : Indexes \cup {SomeIndex},
               words : Queries \cup {<<>>}, to : Texts \cup Hardcoded]
  BY <1>3 DEF Stages
<1>6. new.at = stage /\ new.index = i
  BY <1>3
<1> HIDE DEF new
<1>7. AnswersWereThere'
  BY <1>1, <1>3, <1>4, <1>5, <1>6, RequestMoves DEF TypoInv, AnswersWereThere
<1>8. QED
  BY <1>1, <1>7, DictionariesStay, BuildsStay DEF TypoInv, TermsWereThere

\* An administrator rebuilds the dictionary of an index.
LEMMA RebuildStep ==
    ASSUME TypoInv, NEW r \in Admins, NEW i \in Indexes, Rebuild(r, i)
    PROVE  TypoInv'
<1>1. UNCHANGED <<stored, view, ever, file, due, typos>>
  BY DEF Rebuild, rest
<1>2. /\ sym' = [sym EXCEPT ![Reader][i] = None] /\ dict' = [dict EXCEPT ![Reader][i] = None]
      /\ build' = [build EXCEPT ![r] = [inst |-> Reader, index |-> i, field |-> 1, set |-> {}]]
      /\ req' = [req EXCEPT ![r].at = "rebuild", ![r].index = i]
  BY DEF Rebuild
<1>3. None \in SUBSET Texts /\ None \subseteq Own(i) /\ Reader \in Instances
  BY DEF None, Texts, Own, Instances
<1>4. /\ sym' \in [Instances -> [Indexes -> SUBSET Texts]]
      /\ \A m \in Instances, j \in Indexes : sym'[m][j] \subseteq Own(j)
  BY <1>2, <1>3, Published DEF TypoInv, DictionariesWereThere
<1>5. /\ dict' \in [Instances -> [Indexes -> SUBSET Texts]]
      /\ \A m \in Instances, j \in Indexes : dict'[m][j] \subseteq Own(j)
  BY <1>2, <1>3, Published DEF TypoInv, DictionariesWereThere
<1>6. DictionariesWereThere'
  BY <1>1, <1>4, <1>5 DEF TypoInv, DictionariesWereThere, IsDictionary, Own
<1>7. BuildsWereThere'
  BY <1>1, <1>2, <1>3 DEF TypoInv, BuildsWereThere, Builders
<1> DEFINE new == [req[r] EXCEPT !.at = "rebuild", !.index = i]
<1>8. req \in [Requests -> [at : Stages, index : Indexes \cup {SomeIndex},
                            words : Queries \cup {<<>>}, to : Texts \cup Hardcoded]]
      /\ r \in Requests
  BY DEF TypoInv, AnswersWereThere, Requests
<1>9. req' = [req EXCEPT ![r] = new]
  BY <1>2, <1>8
<1>10. new \in [at : Stages, index : Indexes \cup {SomeIndex},
                words : Queries \cup {<<>>}, to : Texts \cup Hardcoded]
  BY <1>8 DEF Stages
<1>11. new.at = "rebuild" /\ new.index = i
  BY <1>8
<1> HIDE DEF new
<1>12. AnswersWereThere'
  BY <1>1, <1>8, <1>9, <1>10, <1>11, RequestMoves DEF TypoInv, AnswersWereThere
<1>13. QED
  BY <1>1, <1>6, <1>7, <1>12 DEF TypoInv, TermsWereThere
-----------------------------------------------------------------------------
LEMMA TypoStep == TypoInv /\ [Next]_vars => TypoInv'
<1> SUFFICES ASSUME TypoInv, [Next]_vars PROVE TypoInv'
  OBVIOUS
<1>1. CASE Start
  BY <1>1, StartStep
<1>2. CASE Service
  <2>1. CASE NextIndex
    BY <2>1, NextIndexStep
  <2>2. ASSUME NEW b \in Builders, ExtractField(b) \/ PublishAndSave(b) PROVE TypoInv'
    BY <2>2, ExtractStep, PublishStep
  <2>3. ASSUME NEW r \in Clients,
               LoadDictionary(r) \/ Judge(r) \/ Fallback(r) \/ ViewAnswers(r)
                  \/ DirectAnswers(r) \/ Done(r)
        PROVE  TypoInv'
    BY <2>3, LoadStep, JudgeStep, DatabaseStep, DoneStep
  <2>4. QED
    BY <1>2, <2>1, <2>2, <2>3 DEF Service
<1>3. CASE Crash
  BY <1>3, CrashStep
<1>4. CASE RefreshView
  BY <1>4, RefreshStep
<1>5. ASSUME NEW r \in Admins, NEW i \in Indexes, Rebuild(r, i) PROVE TypoInv'
  BY <1>5, RebuildStep
<1>6. ASSUME NEW r \in Clients, NEW i \in Indexes, NEW q \in Queries,
             Ask(r, i, q) \/ Suggest(r, i, q)
      PROVE  TypoInv'
  BY <1>6, AskStep, SuggestStep
<1>7. ASSUME NEW c \in Changes, Write(c[1], c[2], c[3]) PROVE TypoInv'
  BY <1>7, WriteStep
<1>8. CASE UNCHANGED vars
  <2>1. UNCHANGED <<stored, view, ever, file, dict, sym, typos, due, build, req>>
    BY <1>8 DEF vars
  <2>2. QED
    BY <2>1, DictionariesStay, BuildsStay, AnswersStay DEF TypoInv, TermsWereThere
<1>9. QED
  BY <1>1, <1>2, <1>3, <1>4, <1>5, <1>6, <1>7, <1>8 DEF Next

\* All terms that are kept or answered are of the index they are kept for.
LEMMA TypoInvariance == Spec => []TypoInv
  BY TypoInit, TypoStep, PTL DEF Spec

\* A correction or a suggestion is hardcoded, or a term that a document of the
\* index that was searched has or had, or that the dictionary.json of the
\* installation has for this index, whatever was kept in memory or in the file,
\* rebuilt, refreshed or lost in between.
THEOREM CorrectionsAreTermsOfTheIndex == Spec => []CorrectionsExist
<1>1. TypoInv => CorrectionsExist
  BY DEF TypoInv, AnswersWereThere, Answers, Hardcoded, CorrectionsExist, Requests
<1>2. QED
  BY <1>1, TypoInvariance, PTL
-----------------------------------------------------------------------------
\* A strict total order of S.
Orders(R, S) ==
    /\ \A x \in S : <<x, x>> \notin R
    /\ \A x, y, z \in S : <<x, y>> \in R /\ <<y, z>> \in R => <<x, z>> \in R
    /\ \A x, y \in S : x = y \/ <<x, y>> \in R \/ <<y, x>> \in R

\* f lists the members of S in the order R.
Lists(f, S, R) ==
    /\ Cardinality(S) \in Nat
    /\ f \in [1 .. Cardinality(S) -> S]
    /\ \A x \in S : \E k \in 1 .. Cardinality(S) : f[k] = x
    /\ \A k, l \in 1 .. Cardinality(S) : <<f[k], f[l]>> \in R <=> k < l

\* The place of every member, and the members by their places.
Place(S, R) == [x \in S |-> 1 + Cardinality({y \in S : <<y, x>> \in R})]
ByPlace(S, R) ==
    [k \in 1 .. Cardinality(S) |->
        (CHOOSE p \in {<<Place(S, R)[x], x>> : x \in S} : p[1] = k)[2]]

\* Different members of a finite set have different numbers of members before
\* them, and so every number below its cardinality.
LEMMA PlacesAreTaken ==
    ASSUME NEW S, IsFiniteSet(S), NEW R, Orders(R, S)
    PROVE  /\ Cardinality(S) \in Nat
           /\ Place(S, R) \in [S -> 1 .. Cardinality(S)]
           /\ \A x, y \in S : <<x, y>> \in R => Place(S, R)[x] < Place(S, R)[y]
           /\ \A k \in 1 .. Cardinality(S) : \E x \in S : Place(S, R)[x] = k
<1> DEFINE place == Place(S, R)
<1> DEFINE N == Cardinality(S)
           Below(x) == {y \in S : <<y, x>> \in R}
<1>1. N \in Nat
  BY FS_CardinalityType
<1>2. ASSUME NEW x \in S
      PROVE  IsFiniteSet(Below(x)) /\ Cardinality(Below(x)) \in 0 .. N - 1
  <2>1. Below(x) \in SUBSET (S \ {x})
    BY DEF Orders
  <2>2. IsFiniteSet(S \ {x}) /\ Cardinality(S \ {x}) = N - 1
    BY FS_RemoveElement
  <2> HIDE DEF Below
  <2>3. IsFiniteSet(Below(x)) /\ Cardinality(Below(x)) <= N - 1
    BY <2>1, <2>2, FS_Subset
  <2>4. Cardinality(Below(x)) \in Nat
    BY <2>3, FS_CardinalityType
  <2>5. QED
    BY <1>1, <2>3, <2>4
<1>3. \A x \in S : place[x] = 1 + Cardinality(Below(x))
  BY DEF Place
<1>4. place \in [S -> 1 .. N]
  <2> HIDE DEF N, Below
  <2>1. \A x \in S : 1 + Cardinality(Below(x)) \in 1 .. N
    BY <1>1, <1>2
  <2>2. place = [x \in S |-> 1 + Cardinality(Below(x))]
    BY DEF Below, Place
  <2>3. QED
    BY <2>1, <2>2
<1>5. ASSUME NEW x \in S, NEW y \in S, <<x, y>> \in R
      PROVE  place[x] < place[y]
  <2>1. Below(x) \cup {x} \in SUBSET Below(y)
    BY <1>5 DEF Orders
  <2>2. x \notin Below(x)
    BY DEF Orders
  <2> HIDE DEF Below
  <2>3. Cardinality(Below(x) \cup {x}) = Cardinality(Below(x)) + 1
    BY <1>2, <2>2, FS_AddElement
  <2>4. Cardinality(Below(x) \cup {x}) <= Cardinality(Below(y))
    BY <1>2, <2>1, FS_Subset
  <2>5. QED
    BY <1>2, <1>3, <2>3, <2>4
<1> HIDE DEF Below
<1>6. ASSUME NEW k \in 1 .. N
      PROVE  \E x \in S : place[x] = k
  <2>1. \A x, y \in S : x # y => place[x] # place[y]
    <3>1. ASSUME NEW x \in S, NEW y \in S, x # y PROVE place[x] # place[y]
      <4>1. <<x, y>> \in R \/ <<y, x>> \in R
        BY <3>1 DEF Orders
      <4>2. place[x] < place[y] \/ place[y] < place[x]
        BY <1>5, <4>1
      <4>3. place[x] \in 1 .. N /\ place[y] \in 1 .. N
        BY <1>4
      <4>4. QED
        BY <1>1, <4>2, <4>3
    <3>2. QED
      BY <3>1
  <2>2. place \in Injection(S, 1 .. N)
    BY <1>4, <2>1 DEF Injection, IsInjective
  <2>3. IsFiniteSet(1 .. N) /\ Cardinality(1 .. N) = N
    BY <1>1, FS_Interval
  <2>4. place \in Surjection(S, 1 .. N)
    BY <2>2, <2>3, FS_Injection
  <2>5. QED
    BY <2>4 DEF Surjection
<1>7. QED
  BY <1>1, <1>4, <1>5, <1>6

\* ByPlace lists a finite set in its order.
LEMMA ListedInOrder ==
    ASSUME NEW S, IsFiniteSet(S), NEW R, Orders(R, S)
    PROVE  Lists(ByPlace(S, R), S, R)
<1> DEFINE N == Cardinality(S)
           place == Place(S, R)
           f == ByPlace(S, R)
<1>2. /\ N \in Nat
      /\ place \in [S -> 1 .. N]
      /\ \A x, y \in S : <<x, y>> \in R => place[x] < place[y]
      /\ \A k \in 1 .. N : \E x \in S : place[x] = k
  BY PlacesAreTaken
<1>1. f = [k \in 1 .. N |-> (CHOOSE p \in {<<place[x], x>> : x \in S} : p[1] = k)[2]]
  BY DEF ByPlace
<1> HIDE DEF place, f
<1>3. ASSUME NEW k \in 1 .. N
      PROVE  f[k] \in S /\ place[f[k]] = k
  <2> DEFINE placed == {<<place[x], x>> : x \in S}
  <2>1. \E p \in placed : p[1] = k
    <3>1. PICK x \in S : place[x] = k
      BY <1>2
    <3>2. <<place[x], x>> \in placed /\ <<place[x], x>>[1] = k
      BY <3>1
    <3>3. QED
      BY <3>2
  <2> DEFINE p == CHOOSE p \in placed : p[1] = k
  <2>2. f[k] = p[2]
    BY <1>1
  <2> HIDE DEF placed
  <2>3. p \in placed /\ p[1] = k
    BY <2>1
  <2> HIDE DEF p
  <2>4. QED
    BY <2>2, <2>3 DEF placed
<1>4. f \in [1 .. N -> S]
  <2>1. f = [k \in 1 .. N |-> f[k]]
    BY <1>1
  <2>2. QED
    BY <1>3, <2>1
<1> HIDE DEF N
<1>5. ASSUME NEW x \in S, NEW y \in S, place[x] < place[y]
      PROVE  <<x, y>> \in R
  <2>1. place[x] \in Int /\ place[y] \in Int
    BY <1>2
  <2>2. x # y /\ <<y, x>> \notin R
    BY <1>2, <1>5, <2>1
  <2>3. QED
    BY <2>2 DEF Orders
<1>6. ASSUME NEW x \in S
      PROVE  \E k \in 1 .. N : f[k] = x
  <2>1. place[x] \in 1 .. N
    BY <1>2
  <2>2. f[place[x]] \in S /\ place[f[place[x]]] = place[x]
    BY <1>3, <2>1
  <2>3. <<x, f[place[x]]>> \notin R /\ <<f[place[x]], x>> \notin R
    BY <1>2, <2>1, <2>2
  <2>4. f[place[x]] = x
    BY <2>2, <2>3 DEF Orders
  <2>5. QED
    BY <2>1, <2>4
<1>7. ASSUME NEW k \in 1 .. N, NEW l \in 1 .. N
      PROVE  <<f[k], f[l]>> \in R <=> k < l
  <2>1. f[k] \in S /\ f[l] \in S /\ place[f[k]] = k /\ place[f[l]] = l
    BY <1>3
  <2>2. QED
    BY <1>2, <1>5, <2>1
<1>8. QED
  BY <1>2, <1>4, <1>6, <1>7 DEF Lists, f, N

\* A set of numbers has a least one.
LEMMA LeastNumber ==
    ASSUME NEW T \in SUBSET Nat, T # {}
    PROVE  \E x \in T : \A y \in T : x <= y
<1>1. PICK n \in T : TRUE
  OBVIOUS
<1> DEFINE S == {y \in T : y <= n}
<1>2. n \in Nat /\ n \in S /\ S \in SUBSET (0 .. n)
  <2>1. n \in Nat
    OBVIOUS
  <2>2. \A y \in S : y \in Nat /\ y <= n
    OBVIOUS
  <2>3. n \in S
    BY <2>1
  <2> HIDE DEF S
  <2>4. QED
    BY <2>1, <2>2, <2>3
<1>3. \A x, y \in T : x \in S /\ y \notin S => x <= y
  BY <1>2
<1> HIDE DEF S
<1>4. IsFiniteSet(S)
  <2>1. IsFiniteSet(0 .. n)
    BY <1>2, FS_Interval
  <2>2. QED
    BY <1>2, <2>1, FS_Subset
<1> DEFINE R == {p \in S \X S : p[1] < p[2]}
<1>5. \A x, y \in S : <<x, y>> \in R <=> x < y
  OBVIOUS
<1> HIDE DEF R
<1>6. Orders(R, S)
  BY <1>2, <1>5 DEF Orders
<1>7. PICK x \in S : Place(S, R)[x] = 1
  <2>1. Cardinality(S) \in Nat /\ Place(S, R)[n] \in 1 .. Cardinality(S)
    BY <1>2, <1>4, <1>6, PlacesAreTaken
  <2>2. QED
    BY <1>4, <1>6, <2>1, PlacesAreTaken
<1> DEFINE Below == {y \in S : <<y, x>> \in R}
<1>8. Below = {}
  <2>1. Place(S, R)[x] = 1 + Cardinality(Below)
    BY DEF Place
  <2>2. Below \in SUBSET S
    OBVIOUS
  <2> HIDE DEF Below
  <2>3. IsFiniteSet(Below) /\ Cardinality(Below) \in Nat
    BY <1>4, <2>2, FS_Subset, FS_CardinalityType
  <2>4. QED
    BY <1>7, <2>1, <2>3, FS_EmptySet
<1>9. ASSUME NEW y \in S PROVE x <= y
  <2>1. x \in Nat /\ y \in Nat /\ x \in T /\ y \in T
    BY <1>2 DEF S
  <2>2. <<y, x>> \notin R
    BY <1>8
  <2>3. QED
    BY <1>5, <2>1, <2>2
<1>10. S \subseteq T
  BY DEF S
<1>11. \A y \in T : x <= y
  BY <1>3, <1>9, <1>10
<1>12. QED
  BY <1>10, <1>11
-----------------------------------------------------------------------------
(* Stable sorting.                                                         *)

\* The order of places that a comparison of what stands there makes, B, with
\* equal ones in the order they stand.
Stable(places, B) ==
    {p \in places \X places : p \in B \/ (<<p[2], p[1]>> \notin B /\ p[1] < p[2])}

\* A comparison: nothing is before itself or before what is before it, and what
\* is before another is before or after a third.
Compares(B, places) ==
    /\ \A i, j \in places : <<i, j>> \in B => <<j, i>> \notin B
    /\ \A i, j, k \in places : <<i, k>> \in B => <<i, j>> \in B \/ <<j, k>> \in B

\* A comparison with the places to decide between equal ones is an order.
LEMMA StableOrder ==
    ASSUME NEW places \in SUBSET Nat, NEW B, Compares(B, places)
    PROVE  Orders(Stable(places, B), places)
<1> DEFINE R == Stable(places, B)
<1>1. \A i, j \in places :
         <<i, j>> \in R <=> <<i, j>> \in B \/ (<<j, i>> \notin B /\ i < j)
  BY DEF Stable
<1> HIDE DEF R
<1>2. \A i \in places : <<i, i>> \notin R
  BY <1>1 DEF Compares
<1>3. ASSUME NEW i \in places, NEW j \in places, NEW k \in places,
             <<i, j>> \in R, <<j, k>> \in R
      PROVE  <<i, k>> \in R
  <2>1. <<k, i>> \notin B
    BY <1>1, <1>3 DEF Compares
  <2>2. CASE <<i, j>> \in B
    BY <1>1, <1>3, <2>2 DEF Compares
  <2>3. CASE <<j, k>> \in B
    BY <1>1, <1>3, <2>3 DEF Compares
  <2>4. CASE <<i, j>> \notin B /\ <<j, k>> \notin B
    <3>1. i < j /\ j < k
      BY <1>1, <1>3, <2>4
    <3>2. i < k
      BY <3>1
    <3>3. QED
      BY <1>1, <2>1, <3>2
  <2>5. QED
    BY <2>2, <2>3, <2>4
<1>4. \A i, j \in places : i = j \/ <<i, j>> \in R \/ <<j, i>> \in R
  <2>1. TAKE i, j \in places
  <2>2. i = j \/ i < j \/ j < i
    OBVIOUS
  <2>3. QED
    BY <1>1, <2>2
<1>5. QED
  BY <1>2, <1>3, <1>4 DEF Orders, R

\* f lists places that are compared by B, in an order that agrees with it.
Arranges(f, places, B) ==
    /\ Cardinality(places) \in Nat
    /\ f \in [1 .. Cardinality(places) -> places]
    /\ \A i \in places : \E k \in 1 .. Cardinality(places) : f[k] = i
    /\ \A k, l \in 1 .. Cardinality(places) : f[k] = f[l] => k = l
    /\ \A k, l \in 1 .. Cardinality(places) : k < l => <<f[l], f[k]>> \notin B

\* Sorting by it lists every place once and never against the comparison.
LEMMA StableArranges ==
    ASSUME NEW places \in SUBSET Nat, IsFiniteSet(places), NEW B, Compares(B, places)
    PROVE  Arranges(ByPlace(places, Stable(places, B)), places, B)
<1> DEFINE R == Stable(places, B)
           f == ByPlace(places, R)
           N == Cardinality(places)
<1>1. Orders(R, places)
  BY StableOrder
<1> HIDE DEF R
<1>2. Lists(f, places, R)
  BY <1>1, ListedInOrder
<1> HIDE DEF f
<1>3. /\ N \in Nat /\ f \in [1 .. N -> places]
      /\ \A i \in places : \E k \in 1 .. N : f[k] = i
      /\ \A k, l \in 1 .. N : <<f[k], f[l]>> \in R <=> k < l
  BY <1>2 DEF Lists
<1>4. ASSUME NEW k \in 1 .. N, NEW l \in 1 .. N, f[k] = f[l]
      PROVE  k = l
  <2>1. <<f[k], f[l]>> \notin R /\ <<f[l], f[k]>> \notin R
    BY <1>1, <1>3, <1>4 DEF Orders
  <2>2. QED
    BY <1>3, <2>1
<1>5. ASSUME NEW k \in 1 .. N, NEW l \in 1 .. N, k < l
      PROVE  <<f[l], f[k]>> \notin B
  <2>1. <<f[k], f[l]>> \in R /\ f[k] \in places /\ f[l] \in places
    BY <1>3, <1>5
  <2>2. <<f[k], f[l]>> \in B \/ <<f[l], f[k]>> \notin B
    BY <2>1 DEF R, Stable
  <2>3. QED
    BY <2>1, <2>2 DEF Compares
<1>6. QED
  BY <1>3, <1>4, <1>5 DEF Arranges, f, R

\* What SortedAt(list, places, ByScore) gives.
LEMMA SortedByScore ==
    ASSUME NEW list, NEW places \in SUBSET Nat, IsFiniteSet(places),
           \A i \in places : list[i].score \in Int
    PROVE  \E f : /\ Arranges(f, places, {p \in places \X places :
                                            list[p[1]].score > list[p[2]].score})
                  /\ SortedAt(list, places, ByScore)
                        = [k \in 1 .. Cardinality(places) |-> list[f[k]]]
<1> DEFINE B == {p \in places \X places : list[p[1]].score > list[p[2]].score}
           R == Stable(places, B)
           Earlier(i, j) == \/ ByScore(list[i], list[j])
                            \/ ~ByScore(list[j], list[i]) /\ i < j
           order == Listed(places, Earlier)
<1>1. \A i, j \in places : <<i, j>> \in B <=> list[i].score > list[j].score
  OBVIOUS
<1>2. \A i, j \in places : <<i, j>> \in R <=> Earlier(i, j)
  BY <1>1 DEF Stable, ByScore
<1> HIDE DEF B
<1>3. Compares(B, places)
  BY <1>1 DEF Compares
<1> HIDE DEF R
<1>4. \A x \in places : {y \in places : Earlier(y, x)} = {y \in places : <<y, x>> \in R}
  BY <1>2
<1>5. order = ByPlace(places, R)
  <2> DEFINE placed == {<<1 + Cardinality({y \in places : Earlier(y, x)}), x>> : x \in places}
  <2>1. placed = {<<Place(places, R)[x], x>> : x \in places}
    BY <1>4 DEF Place
  <2>2. order = [k \in 1 .. Cardinality(places) |-> (CHOOSE p \in placed : p[1] = k)[2]]
    BY DEF Listed
  <2> HIDE DEF placed, order
  <2>3. QED
    BY <2>1, <2>2 DEF ByPlace
<1>6. Arranges(order, places, B)
  BY <1>3, <1>5, StableArranges DEF R
<1>7. SortedAt(list, places, ByScore) = [k \in DOMAIN order |-> list[order[k]]]
  BY DEF SortedAt
<1> HIDE DEF order
<1>8. DOMAIN order = 1 .. Cardinality(places)
  BY <1>6 DEF Arranges
<1>9. QED
  BY <1>6, <1>7, <1>8 DEF B
\* And SortedAt(list, places, Better).
LEMMA SortedByMerit ==
    ASSUME NEW list, NEW places \in SUBSET Nat, IsFiniteSet(places),
           \A i \in places : /\ list[i].score \in Int /\ list[i].tier \in Tiers
                             /\ list[i].doc \in Docs
    PROVE  \E f : /\ Arranges(f, places, {p \in places \X places :
                                            Better(list[p[1]], list[p[2]])})
                  /\ SortedAt(list, places, Better)
                        = [k \in 1 .. Cardinality(places) |-> list[f[k]]]
<1> DEFINE B == {p \in places \X places : Better(list[p[1]], list[p[2]])}
           R == Stable(places, B)
           Earlier(i, j) == \/ Better(list[i], list[j])
                            \/ ~Better(list[j], list[i]) /\ i < j
           order == Listed(places, Earlier)
<1>1. \A i, j \in places : <<i, j>> \in B <=> Better(list[i], list[j])
  OBVIOUS
<1>2. \A i, j \in places : <<i, j>> \in R <=> Earlier(i, j)
  BY <1>1 DEF Stable
<1> HIDE DEF B
<1>3. Compares(B, places)
  <2>0. \A d \in Docs : Business[d].health \in Int
    BY BusinessAssumption
  <2>1. \A i \in places : /\ list[i].score \in Int /\ Health(list[i]) \in Int
                          /\ list[i].tier \in Int
    <3>1. Tiers \in SUBSET Int
      BY DEF Tiers, Exact, Close, Other
    <3>2. \A r : r.doc \in Docs => Health(r) \in Int
      BY <2>0 DEF Health
    <3>3. ASSUME NEW i \in places
          PROVE  /\ list[i].score \in Int /\ Health(list[i]) \in Int
                 /\ list[i].tier \in Int
      <4>1. list[i].score \in Int /\ list[i].tier \in Tiers /\ list[i].doc \in Docs
        OBVIOUS
      <4>2. Health(list[i]) \in Int
        BY <3>2, <4>1
      <4> HIDE DEF R, Earlier, order
      <4>3. list[i].tier \in Int
        BY <3>1, <4>1
      <4>4. QED
        BY <4>1, <4>2, <4>3
    <3>4. QED
      BY <3>3
  <2>2. \A i, j \in places : <<i, j>> \in B => <<j, i>> \notin B
    BY <1>1, <2>1 DEF Better
  <2>3. ASSUME NEW i \in places, NEW j \in places, NEW k \in places,
               Better(list[i], list[k]), ~Better(list[i], list[j])
        PROVE  Better(list[j], list[k])
    BY <2>1, <2>3 DEF Better
  <2>4. \A i, j, k \in places : <<i, k>> \in B => <<i, j>> \in B \/ <<j, k>> \in B
    BY <1>1, <2>3
  <2>5. QED
    BY <2>2, <2>4 DEF Compares
<1> HIDE DEF R
<1>4. \A x \in places : {y \in places : Earlier(y, x)} = {y \in places : <<y, x>> \in R}
  BY <1>2
<1>5. order = ByPlace(places, R)
  <2> DEFINE placed == {<<1 + Cardinality({y \in places : Earlier(y, x)}), x>> : x \in places}
  <2>1. placed = {<<Place(places, R)[x], x>> : x \in places}
    BY <1>4 DEF Place
  <2>2. order = [k \in 1 .. Cardinality(places) |-> (CHOOSE p \in placed : p[1] = k)[2]]
    BY DEF Listed
  <2> HIDE DEF placed, order
  <2>3. QED
    BY <2>1, <2>2 DEF ByPlace
<1>6. Arranges(order, places, B)
  BY <1>3, <1>5, StableArranges DEF R
<1>7. SortedAt(list, places, Better) = [k \in DOMAIN order |-> list[order[k]]]
  BY DEF SortedAt
<1> HIDE DEF order
<1>8. DOMAIN order = 1 .. Cardinality(places)
  BY <1>6 DEF Arranges
<1>9. QED
  BY <1>6, <1>7, <1>8 DEF B
-----------------------------------------------------------------------------
(* Rankings.                                                               *)

\* The domain and the members of a list of hits.
LEMMA HitsOf ==
    ASSUME NEW list \in Hits
    PROVE  /\ Len(list) \in Nat /\ DOMAIN list = 1 .. Len(list)
           /\ \A i \in 1 .. Len(list) : list[i] \in Hit
  BY LenProperties, ElementOfSeq DEF Hits

\* All boosts of a business in the documented ranges together are below 2660
\* points.
LEMMA BoostsBounded ==
    ASSUME NEW d \in Docs
    PROVE  /\ MainBoosts(d) \in Int /\ WorkerBoosts(d) \in Int
           /\ InRange(d) => /\ MainBoosts(d) \in Nat /\ MainBoosts(d) <= 26600
                            /\ WorkerBoosts(d) \in Nat /\ WorkerBoosts(d) <= 26600
<1> DEFINE b == Business[d]
           stars == 100 * b.rating
           capped == Least(500, stars)
           c == IF b.confirmed THEN 20000 ELSE 0
           f == IF b.featured THEN 5000 ELSE 0
           h == 10 * b.health
           n == 10 * b.fresh
<1>1. /\ b.confirmed \in BOOLEAN /\ b.featured \in BOOLEAN
      /\ b.health \in Int /\ b.rating \in Int /\ b.fresh \in {2, 4, 5, 6, 8, 10}
  BY BusinessAssumption
<1>2. InRange(d) => b.health \in 0 .. 100 /\ b.rating \in 0 .. 5
  BY DEF InRange
<1>3. /\ MainBoosts(d) = c + h + stars + n + f
      /\ WorkerBoosts(d) = c + h + capped + n + f
  BY DEF MainBoosts, WorkerBoosts, Boosts
<1> HIDE DEF b
<1>4. c \in Nat /\ c <= 20000 /\ f \in Nat /\ f <= 5000
  OBVIOUS
<1>5. n \in Nat /\ n <= 100
  BY <1>1
<1>6. h \in Int /\ (InRange(d) => h \in Nat /\ h <= 1000)
  BY <1>1, <1>2
<1>7. stars \in Int /\ (InRange(d) => stars \in Nat /\ stars <= 500)
  BY <1>1, <1>2
<1> HIDE DEF c, f, h, n, stars
<1>8. capped \in Int /\ (InRange(d) => capped \in Nat /\ capped <= 500)
  BY <1>7 DEF Least
<1> HIDE DEF capped
<1>9. QED
  BY <1>3, <1>4, <1>5, <1>6, <1>7, <1>8

\* A name with the text of the query in it is an exact match on both threads,
\* and what is no exact match on the main thread is none in a worker.
LEMMA MainTierFacts ==
    ASSUME NEW name, NEW query, NEW typo, NEW high
    PROVE  /\ MainTier(name, query, typo, high) \in Tiers
           /\ Includes(Letters(name), Letters(query))
                 => MainTier(name, query, typo, high) = Exact
           /\ ~IsExact(name, query) => MainTier(name, query, typo, high) # Exact
<1>1. Includes(Letters(name), Letters(query)) => IsExact(name, query)
  BY DEF IsExact
<1>2. MainTier(name, query, typo, high) = Exact <=> IsExact(name, query)
  BY DEF MainTier, Exact, Close, Other
<1>3. MainTier(name, query, typo, high) \in Tiers
  BY DEF MainTier, Tiers
<1>4. QED
  BY <1>1, <1>2, <1>3

\* The same of the worker's classification.
LEMMA WorkerTierFacts ==
    ASSUME NEW name, NEW query, NEW typo
    PROVE  /\ WorkerTier(name, query, typo) \in Tiers
           /\ Includes(Letters(name), Letters(query))
                 => WorkerTier(name, query, typo) = Exact
           /\ ~IsExact(name, query) => WorkerTier(name, query, typo) # Exact
<1>1. Includes(Letters(name), Letters(query)) => IsExact(name, query)
  BY DEF IsExact
<1>2. WorkerTier(name, query, typo) = Exact <=> Includes(Letters(name), Letters(query))
  BY DEF WorkerTier, Exact, Close, Other
<1>3. WorkerTier(name, query, typo) \in Tiers
  BY DEF WorkerTier, Tiers
<1>4. QED
  BY <1>1, <1>2, <1>3

\* Within the documented ranges, exact matches are worth more than all others
\* with all boosts.
LEMMA ScoresApart ==
    ASSUME NEW hit \in Hit, NEW tier \in Tiers
    PROVE  /\ MainScore(hit, tier) \in Int /\ WorkerScore(hit, tier) \in Int
           /\ InRange(hit.doc) /\ tier = Exact
                 => MainScore(hit, tier) >= 100000 /\ WorkerScore(hit, tier) >= 100000
           /\ InRange(hit.doc) /\ tier # Exact
                 => MainScore(hit, tier) < 100000 /\ WorkerScore(hit, tier) < 100000
<1> DEFINE main == MainBoosts(hit.doc)
           worker == WorkerBoosts(hit.doc)
<1>0. hit.doc \in Docs /\ hit.score \in Int
  BY DEF Hit
<1>1. /\ main \in Int /\ worker \in Int
      /\ InRange(hit.doc) => /\ main \in Nat /\ main <= 26600
                             /\ worker \in Nat /\ worker <= 26600
  BY <1>0, BoostsBounded
<1>2. TextPoints(hit.score) \in Nat /\ TextPoints(hit.score) <= 100
  BY <1>0 DEF TextPoints
<1>3. TierScore(tier) \in Nat /\ WorkerTierScore(tier) \in Nat
  BY DEF TierScore, WorkerTierScore, Tiers, Exact, Close, Other
<1>4. tier = Exact => TierScore(tier) = 100000 /\ WorkerTierScore(tier) = 100000
  BY DEF TierScore, WorkerTierScore, Tiers, Exact, Close, Other
<1>5. tier # Exact => TierScore(tier) <= 20000 /\ WorkerTierScore(tier) <= 50000
  BY DEF TierScore, WorkerTierScore, Tiers, Exact, Close, Other
<1>6. /\ MainScore(hit, tier) = TierScore(tier) + main + TextPoints(hit.score)
      /\ WorkerScore(hit, tier) = WorkerTierScore(tier) + worker
  BY DEF MainScore, WorkerScore
<1> HIDE DEF main, worker
<1>7. QED
  BY <1>1, <1>2, <1>3, <1>4, <1>5, <1>6

\* A ranking for a query has the hits of the list, each once, and above what is
\* no exact match what has the query in its name, within the documented ranges.
RankingOf(r, list, query) ==
    /\ r \in Hits /\ Len(r) = Len(list)
    /\ \E f \in [1 .. Len(list) -> 1 .. Len(list)] :
          /\ \A i \in 1 .. Len(list) : \E k \in 1 .. Len(list) : f[k] = i
          /\ \A k, l \in 1 .. Len(list) : f[k] = f[l] => k = l
          /\ \A k \in 1 .. Len(list) : r[k].doc = list[f[k]].doc
    /\ \A i, j \in 1 .. Len(list) : Leads(r[j].doc, r[i].doc, query) => j < i

\* Points from top on for the names that have the query in them, and less for
\* those that are no exact match.
Divided(points, list, query, top) ==
    \A i \in 1 .. Len(list) : InRange(list[i].doc) =>
        /\ Includes(Letters(Name(list[i].doc)), Letters(query)) => points[i] >= top
        /\ ~IsExact(Name(list[i].doc), query) => points[i] < top

\* A list that is sorted by points is a ranking when exact matches have the most.
LEMMA RanksByPoints ==
    ASSUME NEW list \in Hits, NEW query, NEW top \in Nat, NEW points \in [1 .. Len(list) -> Int],
           NEW B, \A i, j \in 1 .. Len(list) : points[i] > points[j] => <<i, j>> \in B,
           NEW f, Arranges(f, 1 .. Len(list), B),
           Divided(points, list, query, top),
           NEW r, r = [k \in 1 .. Len(list) |-> [doc |-> list[f[k]].doc, score |-> points[f[k]]]]
    PROVE  RankingOf(r, list, query)
<1> DEFINE n == Len(list)
<1>1. n \in Nat /\ \A i \in 1 .. n : list[i] \in Hit
  BY HitsOf
<1> HIDE DEF n
<1>2. Cardinality(1 .. n) = n
  <2>1. n \in Nat
    BY <1>1
  <2>2. QED
    BY ONLY <2>1, FS_Interval
<1>3. /\ f \in [1 .. n -> 1 .. n]
      /\ \A i \in 1 .. n : \E k \in 1 .. n : f[k] = i
      /\ \A k, l \in 1 .. n : f[k] = f[l] => k = l
      /\ \A k, l \in 1 .. n : k < l => <<f[l], f[k]>> \notin B
  BY <1>2 DEF Arranges, n
<1>4. r = [k \in 1 .. n |-> [doc |-> list[f[k]].doc, score |-> points[f[k]]]]
  BY DEF n
<1>5. \A k \in 1 .. n : r[k] \in Hit
  <2>1. TAKE k \in 1 .. n
  <2>2. f[k] \in 1 .. n
    BY <1>3
  <2>3. list[f[k]].doc \in Docs /\ points[f[k]] \in Int
    BY <1>1, <2>2 DEF n, Hit
  <2>4. r[k] = [doc |-> list[f[k]].doc, score |-> points[f[k]]]
    BY <1>4
  <2>5. QED
    BY <2>3, <2>4 DEF Hit
<1>6. r \in Hits /\ Len(r) = n
  <2>1. r \in [1 .. n -> Hit]
    BY <1>4, <1>5
  <2>2. r \in Seq(Hit)
    BY <1>1, <2>1, SeqDef
  <2>3. QED
    BY <1>1, <2>1, <2>2, LenProperties DEF Hits
<1>7. \A k \in 1 .. n : r[k].doc = list[f[k]].doc
  <2>1. TAKE k \in 1 .. n
  <2>2. r[k] = [doc |-> list[f[k]].doc, score |-> points[f[k]]]
    BY <1>4
  <2>3. QED
    BY <2>2
<1>8. ASSUME NEW i \in 1 .. n, NEW j \in 1 .. n, Leads(r[j].doc, r[i].doc, query)
      PROVE  j < i
  <2>1. f[i] \in 1 .. n /\ f[j] \in 1 .. n
    BY <1>3
  <2>2. points[f[j]] >= top /\ points[f[i]] < top
    <3>1. Leads(list[f[j]].doc, list[f[i]].doc, query)
      BY <1>7, <1>8
    <3>2. QED
      BY <2>1, <3>1 DEF Leads, Divided, n
  <2>3. points[f[j]] \in Int /\ points[f[i]] \in Int
    BY <2>1 DEF n
  <2>4. <<f[j], f[i]>> \in B
    BY <2>1, <2>2, <2>3 DEF n
  <2>5. ~(i < j)
    BY <1>3, <2>4
  <2>6. i # j
    BY <2>2, <2>3
  <2>7. QED
    BY <1>1, <2>5, <2>6
<1>9. \E g \in [1 .. n -> 1 .. n] :
          /\ \A i \in 1 .. n : \E k \in 1 .. n : g[k] = i
          /\ \A k, l \in 1 .. n : g[k] = g[l] => k = l
          /\ \A k \in 1 .. n : r[k].doc = list[g[k]].doc
  BY <1>3, <1>7, Zenon
<1>10. QED
  BY <1>6, <1>8, <1>9, Zenon DEF RankingOf, n

\* The exact matches' points: no other hit has as many.
Top == 100000

\* What a thread's points of a list must be.
PointsFor(points, list, query) ==
    points \in [1 .. Len(list) -> Int] /\ Divided(points, list, query, Top)

\* The tier of a hit with a readable name, on either thread.
LEMMA ClassifyFacts ==
    ASSUME NEW hit \in Hit, Name(hit.doc) # Unreadable,
           NEW query \in QueriesAsked, NEW typo \in TyposAsked,
           NEW tier \in {Classify(hit, query, typo), WorkerClassify(hit, query, typo)}
    PROVE  /\ tier \in Tiers
           /\ Includes(Letters(Name(hit.doc)), Letters(query)) => tier = Exact
           /\ ~IsExact(Name(hit.doc), query) => tier # Exact
<1> DEFINE high == hit.score >= HighScore
           main == MainTier(Name(hit.doc), query, typo, high)
           worker == WorkerTier(Name(hit.doc), query, typo)
<1>1. hit.doc \in Named /\ high \in BOOLEAN
  BY DEF Named, Hit
<1>2. main \in Tiers /\ worker \in Tiers
  BY MainTierFacts, WorkerTierFacts DEF Tiers
<1> HIDE DEF high
<1>3. \A t \in Tiers : <<hit.doc, query, typo, high, t>> \in MainTiers <=> t = main
  BY <1>1 DEF MainTiers
<1>4. \A t \in Tiers : <<hit.doc, query, typo, t>> \in WorkerTiers <=> t = worker
  BY <1>1 DEF WorkerTiers
<1>5. Classify(hit, query, typo) = main
  BY <1>2, <1>3 DEF Classify, high
<1>6. WorkerClassify(hit, query, typo) = worker
  BY <1>2, <1>4 DEF WorkerClassify
<1>7. QED
  BY <1>2, <1>5, <1>6, MainTierFacts, WorkerTierFacts

\* The scores of both threads are such points.
LEMMA ScoresFor ==
    ASSUME NEW list \in Hits, Readable(list), NEW query \in QueriesAsked, NEW typo \in TyposAsked
    PROVE  /\ PointsFor([i \in 1 .. Len(list) |->
                            MainScore(list[i], Classify(list[i], query, typo))], list, query)
           /\ PointsFor([i \in 1 .. Len(list) |->
                            WorkerScore(list[i], WorkerClassify(list[i], query, typo))], list, query)
<1> DEFINE main(i) == MainScore(list[i], Classify(list[i], query, typo))
           worker(i) == WorkerScore(list[i], WorkerClassify(list[i], query, typo))
<1>1. ASSUME NEW i \in 1 .. Len(list)
      PROVE  /\ main(i) \in Int /\ worker(i) \in Int
             /\ InRange(list[i].doc) =>
                   /\ Includes(Letters(Name(list[i].doc)), Letters(query))
                         => main(i) >= Top /\ worker(i) >= Top
                   /\ ~IsExact(Name(list[i].doc), query) => main(i) < Top /\ worker(i) < Top
  <2>1. list[i] \in Hit /\ Name(list[i].doc) # Unreadable
    BY HitsOf DEF Readable
  <2> DEFINE hit == list[i]
             tier == Classify(hit, query, typo)
             other == WorkerClassify(hit, query, typo)
  <2>2. /\ tier \in Tiers /\ other \in Tiers
        /\ Includes(Letters(Name(hit.doc)), Letters(query)) => tier = Exact /\ other = Exact
        /\ ~IsExact(Name(hit.doc), query) => tier # Exact /\ other # Exact
    BY <2>1, ClassifyFacts
  <2> HIDE DEF hit, tier, other
  <2>3. hit \in Hit
    BY <2>1 DEF hit
  <2>4. /\ MainScore(hit, tier) \in Int
        /\ InRange(hit.doc) /\ tier = Exact => MainScore(hit, tier) >= Top
        /\ InRange(hit.doc) /\ tier # Exact => MainScore(hit, tier) < Top
    BY <2>2, <2>3, ScoresApart DEF Top
  <2>5. /\ WorkerScore(hit, other) \in Int
        /\ InRange(hit.doc) /\ other = Exact => WorkerScore(hit, other) >= Top
        /\ InRange(hit.doc) /\ other # Exact => WorkerScore(hit, other) < Top
    BY <2>2, <2>3, ScoresApart DEF Top
  <2>6. QED
    BY <2>2, <2>4, <2>5 DEF hit, tier, other
<1> HIDE DEF main, worker
<1>2. PointsFor([i \in 1 .. Len(list) |-> main(i)], list, query)
  BY <1>1 DEF PointsFor, Divided
<1>3. PointsFor([i \in 1 .. Len(list) |-> worker(i)], list, query)
  BY <1>1 DEF PointsFor, Divided
<1>4. QED
  BY <1>2, <1>3 DEF main, worker

\* The main thread ranks: score, health and tier decide, in this order.
LEMMA MainRankingRanks ==
    ASSUME NEW list \in Hits, Readable(list), NEW query \in QueriesAsked, NEW typo \in TyposAsked
    PROVE  RankingOf(MainRanking(list, query, typo), list, query)
<1> DEFINE n == Len(list)
           places == 1 .. n
           tiers == ClassifyBatch(list, query, typo)
           rated == [i \in DOMAIN list |-> [doc |-> list[i].doc, tier |-> tiers[i],
                                            score |-> MainScore(list[i], tiers[i])]]
           points == [i \in places |-> MainScore(list[i], Classify(list[i], query, typo))]
           B == {p \in places \X places : Better(rated[p[1]], rated[p[2]])}
           order == Sorted(rated, Better)
           r == MainRanking(list, query, typo)
<1>1. n \in Nat /\ DOMAIN list = places /\ \A i \in places : list[i] \in Hit
  BY HitsOf
<1>2. PointsFor(points, list, query)
  BY ScoresFor
<1>3. \A i \in places : tiers[i] = Classify(list[i], query, typo)
  BY <1>1 DEF ClassifyBatch
<1>4. \A i \in places : tiers[i] \in Tiers
  BY <1>1, <1>3, ClassifyFacts DEF Readable
<1>5. \A i \in places : rated[i] = [doc |-> list[i].doc, tier |-> tiers[i], score |-> points[i]]
  BY <1>1, <1>3
<1>6. DOMAIN rated = places
  BY <1>1
<1>7. r = [k \in DOMAIN order |-> [doc |-> order[k].doc, score |-> order[k].score]]
  BY DEF MainRanking
<1>8. order = SortedAt(rated, places, Better)
  BY <1>6 DEF Sorted
<1> HIDE DEF rated, points, tiers, order, r, B
<1>9. points \in [places -> Int] /\ Divided(points, list, query, Top)
  BY <1>2 DEF PointsFor
<1>10. \A i \in places : /\ rated[i].score = points[i] /\ rated[i].score \in Int
                         /\ rated[i].tier \in Tiers
                         /\ rated[i].doc = list[i].doc /\ rated[i].doc \in Docs
  <2>1. TAKE i \in places
  <2>2. rated[i] = [doc |-> list[i].doc, tier |-> tiers[i], score |-> points[i]]
    BY <1>5
  <2>3. tiers[i] \in Tiers /\ points[i] \in Int /\ list[i].doc \in Docs
    BY <1>1, <1>4, <1>9 DEF Hit
  <2>4. QED
    BY <2>2, <2>3
<1>11. places \in SUBSET Nat /\ IsFiniteSet(places) /\ Cardinality(places) = n
  <2>1. n \in Nat
    BY <1>1
  <2> HIDE DEF n
  <2>2. places \in SUBSET Nat
    BY <2>1
  <2>3. IsFiniteSet(places) /\ Cardinality(places) = n
    BY <2>1, FS_Interval
  <2>4. QED
    BY <2>2, <2>3
<1>12. PICK f : /\ Arranges(f, places, B)
                /\ SortedAt(rated, places, Better) = [k \in 1 .. n |-> rated[f[k]]]
  <2>1. places \in SUBSET Nat /\ IsFiniteSet(places) /\ Cardinality(places) = n
    BY <1>11
  <2> HIDE DEF places, n
  <2>2. \E f : /\ Arranges(f, places, B)
              /\ SortedAt(rated, places, Better)
                    = [k \in 1 .. Cardinality(places) |-> rated[f[k]]]
    BY <1>10, <2>1, SortedByMerit DEF B
  <2>3. QED
    BY <2>1, <2>2
<1>13. \A i, j \in places : points[i] > points[j] => <<i, j>> \in B
  BY <1>10 DEF Better, B
<1>14. f \in [places -> places]
  BY <1>11, <1>12 DEF Arranges
<1>15. r = [k \in places |-> [doc |-> list[f[k]].doc, score |-> points[f[k]]]]
  <2>1. order = [k \in places |-> rated[f[k]]]
    BY <1>8, <1>12
  <2>2. \A k \in places : /\ order[k].doc = list[f[k]].doc
                          /\ order[k].score = points[f[k]]
    BY <1>10, <1>14, <2>1
  <2>3. DOMAIN order = places
    BY <2>1
  <2> HIDE DEF places
  <2>4. QED
    BY <1>7, <2>2, <2>3
<1>16. Top \in Nat
  BY DEF Top
<1>17. RankingOf(r, list, query)
  BY <1>9, <1>12, <1>13, <1>15, <1>16, RanksByPoints
<1>18. QED
  BY <1>17 DEF r

\* A worker ranks.
LEMMA WorkerRankingRanks ==
    ASSUME NEW list \in Hits, Readable(list), NEW query \in QueriesAsked, NEW typo \in TyposAsked
    PROVE  RankingOf(WorkerRanking(list, query, typo), list, query)
<1> DEFINE n == Len(list)
           places == 1 .. n
           points == [i \in places |-> WorkerScore(list[i], WorkerClassify(list[i], query, typo))]
           rated == [i \in DOMAIN list |->
                        [doc |-> list[i].doc,
                         score |-> WorkerScore(list[i], WorkerClassify(list[i], query, typo))]]
           B == {p \in places \X places : rated[p[1]].score > rated[p[2]].score}
           r == WorkerRanking(list, query, typo)
<1>1. n \in Nat /\ DOMAIN list = places /\ \A i \in places : list[i] \in Hit
  BY HitsOf
<1>2. PointsFor(points, list, query)
  BY ScoresFor
<1>3. \A i \in places : rated[i] = [doc |-> list[i].doc, score |-> points[i]]
  BY <1>1
<1>4. DOMAIN rated = places
  BY <1>1
<1>5. r = SortedAt(rated, places, ByScore)
  BY <1>4 DEF WorkerRanking, Sorted
<1> HIDE DEF rated, points, r, B
<1>6. points \in [places -> Int] /\ Divided(points, list, query, Top)
  BY <1>2 DEF PointsFor
<1>7. \A i \in places : rated[i].score = points[i] /\ rated[i].score \in Int
  <2>1. TAKE i \in places
  <2>2. rated[i] = [doc |-> list[i].doc, score |-> points[i]]
    BY <1>3
  <2>3. QED
    BY <1>6, <2>2
<1>8. places \in SUBSET Nat /\ IsFiniteSet(places) /\ Cardinality(places) = n
  <2>1. n \in Nat
    BY <1>1
  <2> HIDE DEF n
  <2>2. places \in SUBSET Nat
    BY <2>1
  <2>3. IsFiniteSet(places) /\ Cardinality(places) = n
    BY <2>1, FS_Interval
  <2>4. QED
    BY <2>2, <2>3
<1>9. PICK f : /\ Arranges(f, places, B)
               /\ SortedAt(rated, places, ByScore) = [k \in 1 .. n |-> rated[f[k]]]
  <2>1. places \in SUBSET Nat /\ IsFiniteSet(places) /\ Cardinality(places) = n
    BY <1>8
  <2> HIDE DEF places, n
  <2>2. \E f : /\ Arranges(f, places, B)
              /\ SortedAt(rated, places, ByScore)
                    = [k \in 1 .. Cardinality(places) |-> rated[f[k]]]
    BY <1>7, <2>1, SortedByScore DEF B
  <2>3. QED
    BY <2>1, <2>2
<1>10. \A i, j \in places : points[i] > points[j] => <<i, j>> \in B
  BY <1>7 DEF B
<1>11. f \in [places -> places]
  BY <1>8, <1>9 DEF Arranges
<1>12. r = [k \in places |-> [doc |-> list[f[k]].doc, score |-> points[f[k]]]]
  BY <1>3, <1>5, <1>9, <1>11
<1>13. Top \in Nat
  BY DEF Top
<1>14. RankingOf(r, list, query)
  BY <1>6, <1>9, <1>10, <1>12, <1>13, RanksByPoints
<1>15. QED
  BY <1>14 DEF r

\* So does the ranking of one hit.
LEMMA SingleRankingRanks ==
    ASSUME NEW list \in Hits, Len(list) = 1, Readable(list), NEW query \in QueriesAsked
    PROVE  RankingOf(SingleRanking(list, query), list, query)
<1> DEFINE hit == list[1]
           tier == Classify(hit, query, NoTypo)
           score == MainScore(hit, tier)
           r == SingleRanking(list, query)
<1>1. hit \in Hit /\ Name(hit.doc) # Unreadable /\ NoTypo \in TyposAsked
  BY HitsOf DEF Readable, TyposAsked
<1>2. tier \in Tiers
  BY <1>1, ClassifyFacts
<1>3. score \in Int
  BY <1>1, <1>2, ScoresApart
<1> DEFINE new == [hit EXCEPT !.score = score]
<1>4. r = << new >>
  BY DEF SingleRanking
<1> HIDE DEF score, r
<1>5. new \in Hit /\ new.doc = hit.doc
  BY <1>1, <1>3 DEF Hit
<1> HIDE DEF new
<1>6. r \in Hits /\ Len(r) = 1 /\ r[1].doc = hit.doc
  BY <1>4, <1>5 DEF Hits
<1> DEFINE f == [k \in 1 .. 1 |-> 1]
<1>7. /\ f \in [1 .. 1 -> 1 .. 1]
      /\ \A i \in 1 .. 1 : \E k \in 1 .. 1 : f[k] = i
      /\ \A k, l \in 1 .. 1 : f[k] = f[l] => k = l
      /\ \A k \in 1 .. 1 : r[k].doc = list[f[k]].doc
  BY <1>6
<1>8. ASSUME NEW i \in 1 .. 1, NEW j \in 1 .. 1, Leads(r[j].doc, r[i].doc, query)
      PROVE  j < i
  <2>1. i = j
    OBVIOUS
  <2>2. QED
    BY <1>8, <2>1 DEF Leads, IsExact
<1> HIDE DEF f
<1>9. QED
  BY <1>6, <1>7, <1>8 DEF RankingOf, r
-----------------------------------------------------------------------------
(* The documents of a list.                                                *)

\* A list has as many documents as hits when none is there twice.
LEMMA DocumentsCounted ==
    ASSUME NEW list \in Hits
    PROVE  /\ IsFiniteSet(Documents(list)) /\ Cardinality(Documents(list)) \in Nat
           /\ Documents(list) \in SUBSET Docs
           /\ Cardinality(Documents(list)) = Len(list) <=> Distinct(list)
<1> DEFINE n == Len(list)
           places == 1 .. n
           f == [i \in places |-> list[i].doc]
           docs == Documents(list)
<1>1. n \in Nat /\ DOMAIN list = places /\ \A i \in places : list[i] \in Hit
  BY HitsOf
<1>2. docs = {list[i].doc : i \in places}
  BY <1>1 DEF Documents
<1>3. IsFiniteSet(places) /\ Cardinality(places) = n
  <2>1. n \in Nat
    BY <1>1
  <2> HIDE DEF n
  <2>2. QED
    BY <2>1, FS_Interval
<1>4. docs \in SUBSET Docs
  BY <1>1, <1>2 DEF Hit
<1>5. Distinct(list) <=> \A i, j \in places : list[i].doc = list[j].doc => i = j
  BY <1>1 DEF Distinct
<1> HIDE DEF n, places, docs
<1>6. f \in Surjection(places, docs)
  BY <1>2 DEF Surjection
<1>7. f \in Injection(places, docs) <=> Distinct(list)
  BY <1>2, <1>5 DEF Injection, IsInjective
<1> HIDE DEF f
<1>8. /\ IsFiniteSet(docs)
      /\ Cardinality(docs) = Cardinality(places) <=> f \in Injection(places, docs)
  BY <1>3, <1>6, FS_Surjection
<1>9. Cardinality(docs) \in Nat
  BY <1>8, FS_CardinalityType
<1>10. QED
  BY <1>3, <1>4, <1>7, <1>8, <1>9 DEF docs, n

\* A ranking has the documents of what it ranks.
LEMMA RankingKeepsDocuments ==
    ASSUME NEW list \in Hits, NEW r, NEW query, RankingOf(r, list, query)
    PROVE  /\ Documents(r) = Documents(list)
           /\ Distinct(list) => Distinct(r)
<1> DEFINE n == Len(list)
           places == 1 .. n
<1>1. r \in Hits /\ Len(r) = n
  BY DEF RankingOf
<1>2. /\ DOMAIN list = places /\ DOMAIN r = places
  BY <1>1, HitsOf
<1>3. PICK f \in [places -> places] :
          /\ \A i \in places : \E k \in places : f[k] = i
          /\ \A k, l \in places : f[k] = f[l] => k = l
          /\ \A k \in places : r[k].doc = list[f[k]].doc
  BY DEF RankingOf
<1> HIDE DEF places
<1>4. Documents(r) = Documents(list)
  BY <1>2, <1>3 DEF Documents
<1>5. Distinct(list) => Distinct(r)
  BY <1>2, <1>3 DEF Distinct
<1>6. QED
  BY <1>4, <1>5

\* The best Size of a list.
LEMMA SliceFacts ==
    ASSUME NEW list \in Hits
    PROVE  /\ Slice(list) \in Hits /\ Len(Slice(list)) = Least(Size, Len(list))
           /\ DOMAIN Slice(list) = 1 .. Least(Size, Len(list))
           /\ Least(Size, Len(list)) \in 0 .. Len(list)
           /\ \A i \in DOMAIN Slice(list) : i \in DOMAIN list /\ Slice(list)[i] = list[i]
           /\ Documents(Slice(list)) \subseteq Documents(list)
           /\ Distinct(list) => Distinct(Slice(list))
<1> DEFINE n == Len(list)
           m == Least(Size, n)
           r == Slice(list)
<1>1. n \in Nat /\ DOMAIN list = 1 .. n /\ \A i \in 1 .. n : list[i] \in Hit
  BY HitsOf
<1>2. m \in Nat /\ m <= n
  <2>1. n \in Nat /\ Size \in Nat
    BY <1>1, RankingAssumption
  <2> HIDE DEF n
  <2>2. QED
    BY <2>1 DEF Least
<1>3. r = SubSeq(list, 1, m)
  BY DEF Slice
<1> HIDE DEF m, r, n
<1>4. /\ r \in Seq(Hit) /\ Len(r) = IF 1 <= m THEN m - 1 + 1 ELSE 0
      /\ \A i \in 1 .. m - 1 + 1 : r[i] = list[1 + i - 1]
  <2>1. \A i \in 1 .. m : list[i] \in Hit
    BY <1>1, <1>2
  <2>2. 1 \in Int /\ m \in Int
    BY <1>2
  <2>3. QED
    BY <1>3, <2>1, <2>2, SubSeqProperties
<1>5. r \in Hits /\ Len(r) = m
  BY <1>2, <1>4 DEF Hits
<1>6. DOMAIN r = 1 .. m
  BY <1>5, HitsOf
<1>7. \A i \in 1 .. m : i \in 1 .. n /\ r[i] = list[i]
  BY <1>1, <1>2, <1>4
<1>8. Documents(r) \subseteq Documents(list) /\ (Distinct(list) => Distinct(r))
  BY <1>1, <1>6, <1>7 DEF Documents, Distinct
<1>9. QED
  BY <1>1, <1>2, <1>5, <1>6, <1>7, <1>8 DEF r, m, n

\* The location of the query has no effect on a list without duplicates.
LEMMA LocationKeepsOrder ==
    ASSUME NEW list \in Hits, Distinct(list)
    PROVE  LocationRanked(list) = list
<1> DEFINE same(i) == {j \in DOMAIN list : list[j].doc = list[i].doc}
           last(i) == CHOOSE j \in same(i) : \A k \in same(i) : j >= k
<1>1. DOMAIN list = 1 .. Len(list) /\ list \in [1 .. Len(list) -> Hit]
  BY LenProperties DEF Hits
<1>2. ASSUME NEW i \in DOMAIN list
      PROVE  last(i) = i
  <2>1. same(i) = {i} /\ i \in Int
    BY <1>1 DEF Distinct
  <2> HIDE DEF same
  <2>2. \A j \in same(i) : \A k \in same(i) : j >= k
    BY <2>1
  <2>3. last(i) \in same(i)
    BY <2>1, <2>2
  <2>4. QED
    BY <2>1, <2>3
<1>3. LocationRanked(list) = [i \in DOMAIN list |-> list[last(i)]]
  BY DEF LocationRanked
<1> HIDE DEF last
<1>4. QED
  BY <1>1, <1>2, <1>3

\* Every document of a list is kept once.
LEMMA Deduplicated ==
    ASSUME NEW list \in Hits
    PROVE  /\ Deduplicate(list) \in Hits
           /\ Distinct(Deduplicate(list))
           /\ Documents(Deduplicate(list)) = Documents(list)
<1> DEFINE n == Len(list)
           parts == PlacesOfParts(list)
           places == FirstPlaces(list, parts)
           r == Deduplicate(list)
           N == Cardinality(places)
<1>1. n \in Nat /\ DOMAIN list = 1 .. n /\ \A i \in 1 .. n : list[i] \in Hit
  BY HitsOf
<1> HIDE DEF n
<1> DEFINE Part(i) == {j \in DOMAIN list : (j - 1) \div Chunk = (i - 1) \div Chunk}
<1>2. parts = {i \in 1 .. n : i \in FirstPlaces(list, Part(i))}
  BY <1>1 DEF PlacesOfParts
<1>3. ASSUME NEW i \in 1 .. n
      PROVE  Part(i) \in SUBSET (1 .. n) /\ i \in Part(i)
  BY <1>1
<1> HIDE DEF Part, parts
<1>4. \A i \in 1 .. n :
         i \in parts <=> \A j \in Part(i) : j < i => list[j].doc # list[i].doc
  BY <1>2, <1>3 DEF FirstPlaces
<1>5. \A i \in 1 .. n :
         i \in places <=> i \in parts /\ \A j \in parts : j < i => list[j].doc # list[i].doc
  BY DEF FirstPlaces
<1>6. places \in SUBSET (1 .. n) /\ parts \in SUBSET (1 .. n)
  BY <1>2 DEF FirstPlaces
<1> HIDE DEF places
<1>7. ASSUME NEW i \in 1 .. n
      PROVE  \E k \in places : list[k].doc = list[i].doc
  <2> DEFINE T == {j \in 1 .. n : list[j].doc = list[i].doc}
  <2>1. T \in SUBSET Nat /\ T # {}
    OBVIOUS
  <2>2. PICK k \in T : \A j \in T : k <= j
    <3> HIDE DEF T
    <3>1. QED
      BY <2>1, LeastNumber
  <2>3. k \in 1 .. n /\ list[k].doc = list[i].doc
    OBVIOUS
  <2>4. \A j \in 1 .. n : j < k => list[j].doc # list[k].doc
    BY <2>2, <2>3
  <2> HIDE DEF T
  <2>5. k \in parts
    BY <1>3, <1>4, <2>3, <2>4
  <2>6. k \in places
    BY <1>5, <1>6, <2>3, <2>4, <2>5
  <2>7. QED
    BY <2>3, <2>6
<1>8. ASSUME NEW i \in places, NEW j \in places, list[i].doc = list[j].doc
      PROVE  i = j
  <2>1. i \in 1 .. n /\ j \in 1 .. n
    BY <1>6
  <2>2. ~(i < j) /\ ~(j < i)
    BY <1>5, <1>8, <2>1
  <2>3. QED
    BY <2>1, <2>2
<1>9. places \in SUBSET Nat /\ IsFiniteSet(places)
  <2>1. 1 .. n \in SUBSET Nat /\ IsFiniteSet(1 .. n)
    BY <1>1, FS_Interval
  <2>2. QED
    BY <1>6, <2>1, FS_Subset
<1>10. \A i \in places : list[i] \in Hit /\ list[i].score \in Int
  BY <1>1, <1>6 DEF Hit
<1> DEFINE B == {p \in places \X places : list[p[1]].score > list[p[2]].score}
<1>11. PICK f : /\ Arranges(f, places, B)
                /\ SortedAt(list, places, ByScore) = [k \in 1 .. N |-> list[f[k]]]
  BY <1>9, <1>10, SortedByScore
<1>12. r = [k \in 1 .. N |-> list[f[k]]]
  BY <1>11 DEF Deduplicate, places, parts
<1> HIDE DEF B, r, N
<1>13. /\ N \in Nat /\ f \in [1 .. N -> places]
       /\ \A i \in places : \E k \in 1 .. N : f[k] = i
       /\ \A k, l \in 1 .. N : f[k] = f[l] => k = l
  BY <1>11 DEF Arranges, N
<1>14. r \in [1 .. N -> Hit]
  BY <1>10, <1>12, <1>13
<1>15. r \in Hits /\ DOMAIN r = 1 .. N
  BY <1>13, <1>14, SeqDef DEF Hits
<1>16. Distinct(r)
  BY <1>8, <1>12, <1>13, <1>15 DEF Distinct
<1>17. Documents(r) = Documents(list)
  <2>1. Documents(r) = {list[f[k]].doc : k \in 1 .. N}
    BY <1>12, <1>15 DEF Documents
  <2>2. Documents(list) = {list[i].doc : i \in 1 .. n}
    BY <1>1 DEF Documents
  <2>3. ASSUME NEW d \in Documents(list) PROVE d \in Documents(r)
    <3>1. PICK i \in 1 .. n : d = list[i].doc
      BY <2>2
    <3>2. PICK j \in places : list[j].doc = d
      BY <1>7, <3>1
    <3>3. PICK k \in 1 .. N : f[k] = j
      BY <1>13
    <3>4. QED
      BY <2>1, <3>2, <3>3
  <2>4. \A k \in 1 .. N : f[k] \in 1 .. n
    BY <1>6, <1>13
  <2>5. QED
    BY <2>1, <2>2, <2>3, <2>4
<1>18. QED
  BY <1>15, <1>16, <1>17 DEF r
-----------------------------------------------------------------------------
\* The worker and the promise of a call are one of these.
Workers == {"none", "ranking", "posted", "crashed", "gone"}
States == {"none", "pending", "resolved", "rejected"}
CallType == [hits : Hits, query : QueriesAsked \cup {<<>>}, typo : TyposAsked,
             worker : Workers, timer : BOOLEAN, main : BOOLEAN, state : States,
             ranked : Hits]

\* Somebody may still rank for the call.
Working(call) == call.main \/ call.timer \/ call.worker \in {"ranking", "posted", "crashed"}

\* Only what is readable has a result, and only an unreadable name in a short
\* list fails.
Honest(call) ==
    /\ Working(call) => call.query \in QueriesAsked
    /\ call.state = "none" => call = NoCall
    /\ call.state = "resolved" => Readable(call.hits)
    /\ call.state = "rejected" => ~Readable(call.hits) /\ Len(call.hits) <= Sequential
    /\ call.state # "resolved" => call.ranked = <<>>

CachedCall(i) == [NoCall EXCEPT !.state = "resolved", !.ranked = plan.lists[i].hits]
Ranks(call) ==
    call.state = "resolved" =>
        Readable(call.hits) /\ RankingOf(call.ranked, call.hits, call.query)

\* The rankings of the two lists are of these lists.
ListsRanked ==
    \A i \in {1, 2} :
        calls[i].state # "none" =>
            /\ i \in DOMAIN plan.lists
            /\ IF plan.lists[i].cached THEN calls[i] = CachedCall(i)
               ELSE /\ calls[i].hits = plan.lists[i].hits
                    /\ calls[i].query = plan.lists[i].query
                    /\ Ranks(calls[i])

SourceDocs == UNION {Documents(plan.lists[i].hits) : i \in Sources}

\* What is ranked for the answer are the documents of the lists, each once.
Merged ==
    /\ hits \in Hits /\ Distinct(hits)
    /\ Len(plan.lists) = 1 => hits = plan.lists[1].hits
    /\ Len(plan.lists) = 2 => /\ Documents(hits) \subseteq SourceDocs
                              /\ Len(hits) = Least(Size, Cardinality(SourceDocs))

LastRanked ==
    /\ Merged
    /\ calls[3].hits = hits /\ calls[3].query = plan.query /\ Ranks(calls[3])

RankIInv ==
    /\ plan \in Plans /\ workerFile \in BOOLEAN
    /\ at \in {"lists", "merge", "rank", "again", "answered", "failed", "crashed"}
    /\ calls \in [{1, 2, 3} -> CallType]
    /\ \A c \in {1, 2, 3} : Honest(calls[c])
    /\ ListsRanked
    /\ at = "lists" => Len(plan.lists) = 2
    /\ at = "merge" => Merged
    /\ at \in {"rank", "again"} => LastRanked
    /\ calls[3].state = "pending" => at \in {"rank", "again"}
    /\ NothingLost /\ ContainingFirst /\ ThreadsFailSilently

\* What a step of the thread or the event loop makes of a call that is at work.
Keeps(old, new) ==
    /\ new \in CallType /\ Honest(new)
    /\ new.state # "none" /\ new.hits = old.hits /\ new.query = old.query
    /\ new.state = "pending" => old.state = "pending"
    /\ Ranks(old) => Ranks(new)

\* A call of rankResults begins as it should.
LEMMA NewCall ==
    ASSUME NEW list \in Hits, NEW query \in QueriesAsked, NEW typo \in TyposAsked,
           NEW total
    PROVE  LET call == Call(list, query, typo, total) IN
           /\ call \in CallType /\ Honest(call) /\ Ranks(call)
           /\ call.state # "none" /\ call.hits = list /\ call.query = query
<1> DEFINE call == [NoCall EXCEPT !.hits = list, !.query = query, !.typo = typo,
                                  !.state = "pending"]
           new == Call(list, query, typo, total)
           many == Len(list) >= Threshold \/ total >= Threshold
           n == Len(list)
           Is(c, state) == /\ c \in CallType /\ c.hits = list /\ c.query = query
                           /\ c.state = state /\ (state # "resolved" => c.ranked = <<>>)
<1>1. n \in Nat /\ (list # <<>> <=> n # 0)
  <2>1. Len(<<>>) = 0
    BY EmptySeq
  <2>2. list # <<>> => n # 0
    BY EmptySeq DEF Hits
  <2>3. QED
    BY <2>1, <2>2, HitsOf
<1>2. <<>> \in Hits
  BY EmptySeq DEF Hits
<1>3. /\ NoCall \in CallType /\ NoCall.ranked = <<>> /\ NoCall.main = FALSE
      /\ NoCall.timer = FALSE /\ NoCall.worker = "none"
  BY <1>2 DEF NoCall, CallType, Workers, States, TyposAsked
<1>4. /\ Is(call, "pending")
  BY <1>3 DEF CallType, States
<1>5. new = CASE list = <<>> -> [call EXCEPT !.state = "resolved"]
              [] n = 1 -> IF Readable(list)
                          THEN [call EXCEPT !.state = "resolved",
                                            !.ranked = SingleRanking(list, query)]
                          ELSE [call EXCEPT !.state = "rejected"]
              [] n > 1 /\ UseWorkers /\ many /\ workerFile ->
                    [call EXCEPT !.worker = "ranking", !.timer = TRUE]
              [] OTHER -> [call EXCEPT !.main = TRUE]
  BY DEF Call
<1> HIDE DEF new, n, call, many
<1> SUFFICES /\ new \in CallType /\ Honest(new) /\ Ranks(new)
             /\ new.state # "none" /\ new.hits = list /\ new.query = query
  BY DEF new
<1>6. CASE list = <<>>
  <2>0. n # 1 /\ ~(n > 1)
    BY <1>1, <1>6
  <2>1. new = [call EXCEPT !.state = "resolved"]
    BY <1>5, <1>6, <2>0
  <2>3. Is(new, "resolved") /\ new.ranked = <<>>
    BY <1>2, <1>4, <2>1 DEF CallType, States
  <2>2. Readable(list) /\ RankingOf(<<>>, list, query)
    <3>1. Len(list) = 0 /\ DOMAIN list = {}
      BY <1>6
    <3>2. Readable(list)
      BY <3>1 DEF Readable
    <3> DEFINE none == [i \in {} |-> 1]
    <3>3. none \in [{} -> {}]
      OBVIOUS
    <3>4. 1 .. Len(list) = {}
      BY <3>1
    <3> HIDE DEF none
    <3>5. QED
      BY <1>2, <1>6, <3>1, <3>2, <3>3, <3>4 DEF RankingOf
  <2>4. QED
    BY <2>3, <2>2 DEF Honest, Ranks
<1>7. CASE list # <<>> /\ n = 1 /\ Readable(list)
  <2> DEFINE r == SingleRanking(list, query)
  <2>1. RankingOf(r, list, query)
    BY <1>7, SingleRankingRanks DEF n
  <2>2. r \in Hits
    BY <2>1 DEF RankingOf
  <2>3. new = [call EXCEPT !.state = "resolved", !.ranked = r]
    BY <1>5, <1>7
  <2> HIDE DEF r
  <2>4. Is(new, "resolved") /\ new.ranked = r
    BY <1>4, <2>2, <2>3 DEF CallType, States
  <2>5. QED
    BY <1>7, <2>1, <2>4 DEF Honest, Ranks
<1>8. CASE list # <<>> /\ n = 1 /\ ~Readable(list)
  <2>1. new = [call EXCEPT !.state = "rejected"]
    BY <1>5, <1>8
  <2>2. Is(new, "rejected")
    BY <1>4, <2>1 DEF CallType, States
  <2>3. Len(list) <= Sequential
    BY <1>8, RankingAssumption DEF n
  <2>4. QED
    BY <1>8, <2>2, <2>3 DEF Honest, Ranks
<1>9. CASE list # <<>> /\ n # 1
  <2>1. \/ new = [call EXCEPT !.worker = "ranking", !.timer = TRUE]
        \/ new = [call EXCEPT !.main = TRUE]
    BY <1>5, <1>9
  <2>2. Is(new, "pending")
    BY <1>4, <2>1 DEF CallType, Workers
  <2>3. QED
    BY <2>2 DEF Honest, Ranks
<1>10. QED
  BY <1>6, <1>7, <1>8, <1>9

\* What the thread and the timer do to a call settles nothing.
LEMMA MovingOn ==
    ASSUME NEW old \in CallType, Honest(old), old.query \in QueriesAsked, old.state # "none",
           NEW w \in Workers, NEW t \in BOOLEAN, NEW m \in BOOLEAN
    PROVE  Keeps(old, [old EXCEPT !.worker = w, !.timer = t, !.main = m])
<1> DEFINE new == [old EXCEPT !.worker = w, !.timer = t, !.main = m]
<1>1. new \in CallType
  BY DEF CallType
<1>2. /\ new.hits = old.hits /\ new.query = old.query /\ new.state = old.state
      /\ new.ranked = old.ranked
  BY DEF CallType
<1> HIDE DEF new
<1>3. Honest(new) /\ (Ranks(old) => Ranks(new))
  BY <1>2 DEF Honest, Ranks
<1>4. QED
  BY <1>1, <1>2, <1>3 DEF Keeps, new

\* A call is settled with a ranking, or failed by an unreadable name.
LEMMA Settling ==
    ASSUME NEW old \in CallType, Honest(old), old.query \in QueriesAsked, old.state # "none"
    PROVE  /\ ~Readable(old.hits) /\ ~Deadly(old.hits) => Keeps(old, Reject(old))
           /\ Readable(old.hits) =>
                 \A r : RankingOf(r, old.hits, old.query) => Keeps(old, Resolve(old, r))
<1>1. ASSUME ~Readable(old.hits), ~Deadly(old.hits)
      PROVE  Keeps(old, Reject(old))
  <2> DEFINE new == Reject(old)
  <2>0. Len(old.hits) <= Sequential
    <3>1. old.hits \in Hits
      BY DEF CallType
    <3>2. Len(old.hits) \in Nat /\ Sequential \in Nat
      BY <3>1, HitsOf, RankingAssumption
    <3>3. QED
      BY <1>1, <3>2 DEF Deadly
  <2>1. new = IF old.state = "pending" THEN [old EXCEPT !.state = "rejected"] ELSE old
    BY DEF Reject
  <2>2. /\ new \in CallType /\ new.hits = old.hits /\ new.query = old.query
        /\ new.ranked = old.ranked /\ new.state \in {old.state, "rejected"}
        /\ old.state = "resolved" => new.state = "resolved"
        /\ new.state = "resolved" => old.state = "resolved"
        /\ new.state # "pending"
        /\ Working(new) => Working(old)
    BY <2>1 DEF CallType, States, Working
  <2> HIDE DEF new
  <2>3. Honest(new) /\ (Ranks(old) => Ranks(new))
    BY <1>1, <2>0, <2>2 DEF Honest, Ranks
  <2>4. QED
    BY <2>2, <2>3 DEF Keeps, new
<1>2. ASSUME Readable(old.hits), NEW r, RankingOf(r, old.hits, old.query)
      PROVE  Keeps(old, Resolve(old, r))
  <2> DEFINE new == Resolve(old, r)
  <2>0. r \in Hits
    BY <1>2 DEF RankingOf
  <2>1. new = IF old.state = "pending" THEN [old EXCEPT !.state = "resolved", !.ranked = r]
              ELSE old
    BY DEF Resolve
  <2>2. CASE old.state = "pending"
    <3>1. /\ new \in CallType /\ new.hits = old.hits /\ new.query = old.query
          /\ new.ranked = r /\ new.state = "resolved"
      BY <2>0, <2>1, <2>2 DEF CallType, States
    <3> HIDE DEF new
    <3>2. Honest(new) /\ Ranks(new)
      BY <1>2, <3>1 DEF Honest, Ranks
    <3>3. QED
      BY <3>1, <3>2 DEF Keeps, new
  <2>3. CASE old.state # "pending"
    BY <2>1, <2>3 DEF Keeps
  <2>4. QED
    BY <2>2, <2>3
<1>3. QED
  BY <1>1, <1>2

\* A step of one call keeps the invariant.
LEMMA CallStep ==
    ASSUME RankIInv, UNCHANGED <<plan, workerFile, at, hits>>,
           NEW c \in {1, 2, 3}, Working(calls[c]), NEW new, Keeps(calls[c], new),
           calls' = [calls EXCEPT ![c] = new]
    PROVE  RankIInv'
<1>0. plan' = plan /\ workerFile' = workerFile /\ at' = at /\ hits' = hits
  OBVIOUS
<1>1. calls \in [{1, 2, 3} -> CallType] /\ \A d \in {1, 2, 3} : Honest(calls[d])
  BY DEF RankIInv
<1>2. /\ calls' \in [{1, 2, 3} -> CallType]
      /\ calls'[c] = new /\ \A d \in {1, 2, 3} \ {c} : calls'[d] = calls[d]
  BY <1>1 DEF Keeps
<1>3. \A d \in {1, 2, 3} : Honest(calls'[d])
  BY <1>1, <1>2 DEF Keeps
<1>4. calls[c].state # "none"
  BY <1>1 DEF Honest, Working, NoCall
<1>5. ListsRanked'
  <2>1. SUFFICES ASSUME NEW i \in {1, 2}, calls'[i].state # "none"
                 PROVE  /\ i \in DOMAIN plan.lists
                        /\ IF plan.lists[i].cached THEN calls'[i] = CachedCall(i)
                           ELSE /\ calls'[i].hits = plan.lists[i].hits
                                /\ calls'[i].query = plan.lists[i].query
                                /\ Ranks(calls'[i])
    BY DEF ListsRanked, CachedCall
  <2>2. CASE i # c
    <3>1. calls'[i] = calls[i]
      BY <1>2, <2>2
    <3>2. QED
      BY <2>1, <3>1 DEF RankIInv, ListsRanked
  <2>3. CASE i = c
    <3>1. /\ i \in DOMAIN plan.lists
          /\ IF plan.lists[i].cached THEN calls[i] = CachedCall(i)
             ELSE /\ calls[i].hits = plan.lists[i].hits
                  /\ calls[i].query = plan.lists[i].query
                  /\ Ranks(calls[i])
      BY <1>4, <2>3 DEF RankIInv, ListsRanked
    <3>2. ~Working(CachedCall(i))
      BY DEF Working, CachedCall, NoCall
    <3>3. ~plan.lists[i].cached
      BY <2>3, <3>1, <3>2
    <3>4. QED
      BY <1>2, <2>3, <3>1, <3>3 DEF Keeps
  <2>4. QED
    BY <2>2, <2>3
<1>6. Sources' = Sources /\ SourceDocs' = SourceDocs
  BY DEF Sources, SourceDocs
<1>7. /\ Merged => Merged'
      /\ NothingLost => NothingLost'
      /\ ContainingFirst => ContainingFirst'
      /\ ThreadsFailSilently => ThreadsFailSilently'
  BY <1>6 DEF Merged, NothingLost, ContainingFirst, ThreadsFailSilently
<1>8. LastRanked => LastRanked'
  <2>1. CASE c = 3
    BY <1>2, <1>7, <2>1 DEF LastRanked, Keeps
  <2>2. CASE c # 3
    BY <1>2, <1>7, <2>2 DEF LastRanked
  <2>3. QED
    BY <2>1, <2>2
<1>9. QED
  <2>1. \A d \in {1, 2, 3} : Honest(calls[d])'
    BY <1>3
  <2>2. /\ plan' \in Plans /\ workerFile' \in BOOLEAN
        /\ at' \in {"lists", "merge", "rank", "again", "answered", "failed", "crashed"}
        /\ at' = "lists" => Len(plan'.lists) = 2
    BY <1>0 DEF RankIInv
  <2>0. calls'[3].state = "pending" => at' \in {"rank", "again"}
    <3>1. calls'[3].state = "pending" => calls[3].state = "pending"
      BY <1>2 DEF Keeps
    <3>2. QED
      BY <1>0, <3>1 DEF RankIInv
  <2>3. /\ at' = "merge" => Merged'
        /\ at' \in {"rank", "again"} => LastRanked'
        /\ NothingLost' /\ ContainingFirst' /\ ThreadsFailSilently'
    BY <1>0, <1>7, <1>8 DEF RankIInv
  <2>4. QED
    BY <1>2, <1>5, <2>0, <2>1, <2>2, <2>3 DEF RankIInv
-----------------------------------------------------------------------------
LEMMA PlanFacts ==
    ASSUME NEW p \in Plans
    PROVE  /\ Len(p.lists) \in {1, 2} /\ DOMAIN p.lists = 1 .. Len(p.lists)
           /\ p.query \in QueriesAsked /\ p.typo \in TyposAsked
           /\ \A i \in DOMAIN p.lists :
                 /\ p.lists[i].hits \in Hits /\ Distinct(p.lists[i].hits)
                 /\ p.lists[i].query \in QueriesAsked
<1> DEFINE lists == p.lists
<1>1. lists \in Seq(ListType) /\ Len(lists) \in {1, 2}
  BY PlanAssumption
<1>2. \A i \in DOMAIN lists : Distinct(lists[i].hits)
  BY PlanAssumption
<1>3. p.query \in QueriesAsked /\ p.typo \in TyposAsked
  BY DEF QueriesAsked, TyposAsked
<1>4. \A i \in DOMAIN lists : lists[i].query \in QueriesAsked
  BY DEF QueriesAsked, ToSet
<1> HIDE DEF lists
<1>5. DOMAIN lists = 1 .. Len(lists) /\ \A i \in 1 .. Len(lists) : lists[i] \in ListType
  BY <1>1, LenProperties, ElementOfSeq
<1>6. \A i \in DOMAIN lists : lists[i].hits \in Hits
  BY <1>5 DEF ListType
<1>7. QED
  BY <1>1, <1>2, <1>3, <1>4, <1>5, <1>6 DEF lists

\* The documents of a list that is a source, and of the others none.
DocsOf(i) == IF i \in Sources THEN Documents(plan.lists[i].hits) ELSE {}

\* The documents of the sources are finitely many.
LEMMA SourceDocsFacts ==
    ASSUME plan \in Plans
    PROVE  /\ SourceDocs = DocsOf(1) \cup DocsOf(2)
           /\ IsFiniteSet(SourceDocs) /\ Cardinality(SourceDocs) \in Nat
           /\ Len(plan.lists) = 1 => Sources \in SUBSET {1}
<1>1. /\ Len(plan.lists) \in {1, 2} /\ DOMAIN plan.lists = 1 .. Len(plan.lists)
      /\ \A i \in DOMAIN plan.lists : plan.lists[i].hits \in Hits
  BY PlanFacts
<1>2. Sources \in SUBSET DOMAIN plan.lists
  BY DEF Sources
<1>3. Sources \in SUBSET {1, 2}
  BY <1>1, <1>2
<1>4. SourceDocs = DocsOf(1) \cup DocsOf(2)
  BY <1>3 DEF SourceDocs, DocsOf
<1>5. ASSUME NEW i \in {1, 2} PROVE IsFiniteSet(DocsOf(i))
  <2>1. CASE i \in Sources
    BY <1>1, <1>2, <2>1, DocumentsCounted DEF DocsOf
  <2>2. CASE i \notin Sources
    BY <2>2, FS_EmptySet DEF DocsOf
  <2>3. QED
    BY <2>1, <2>2
<1>6. IsFiniteSet(SourceDocs)
  BY <1>4, <1>5, FS_Union
<1>7. Cardinality(SourceDocs) \in Nat
  BY <1>6, FS_CardinalityType
<1>8. Len(plan.lists) = 1 => Sources \in SUBSET {1}
  BY <1>1, <1>2
<1>9. QED
  BY <1>4, <1>6, <1>7, <1>8

\* The invariant holds at the start.
LEMMA InitRank == RankInit => RankIInv
<1> SUFFICES ASSUME RankInit PROVE RankIInv
  OBVIOUS
<1>1. /\ plan \in Plans /\ workerFile \in BOOLEAN
      /\ at = IF Len(plan.lists) = 1 THEN "merge" ELSE "lists"
      /\ hits = IF Len(plan.lists) = 1 THEN plan.lists[1].hits ELSE <<>>
      /\ calls = [c \in {1, 2, 3} |-> NoCall]
  BY DEF RankInit
<1>2. /\ Len(plan.lists) \in {1, 2} /\ DOMAIN plan.lists = 1 .. Len(plan.lists)
      /\ \A i \in DOMAIN plan.lists :
            plan.lists[i].hits \in Hits /\ Distinct(plan.lists[i].hits)
  BY <1>1, PlanFacts
<1>3. NoCall \in CallType /\ Honest(NoCall) /\ NoCall.state = "none"
  <2>1. <<>> \in Hits
    BY EmptySeq DEF Hits
  <2>2. QED
    BY <2>1 DEF NoCall, CallType, Workers, States, TyposAsked, Honest, Working
<1>4. \A c \in {1, 2, 3} : calls[c] = NoCall
  BY <1>1
<1>5. calls \in [{1, 2, 3} -> CallType] /\ (\A c \in {1, 2, 3} : Honest(calls[c]))
  BY <1>1, <1>3, <1>4
<1>6. ListsRanked
  BY <1>3, <1>4 DEF ListsRanked
<1>7. at \in {"merge", "lists"} /\ (at = "lists" => Len(plan.lists) = 2)
  BY <1>1, <1>2
<1>8. ASSUME at = "merge" PROVE Merged
  <2>1. Len(plan.lists) = 1 /\ hits = plan.lists[1].hits
    BY <1>1, <1>8
  <2>2. 1 \in DOMAIN plan.lists
    BY <1>2, <2>1
  <2>3. hits \in Hits /\ Distinct(hits)
    BY <1>2, <2>1, <2>2
  <2>4. QED
    BY <2>1, <2>3 DEF Merged
<1>9. calls[3].state # "pending"
  BY <1>3, <1>4
<1>10. NothingLost /\ ContainingFirst /\ ThreadsFailSilently
  BY <1>7 DEF NothingLost, ContainingFirst, ThreadsFailSilently
<1>11. QED
  BY <1>1, <1>5, <1>6, <1>7, <1>8, <1>9, <1>10 DEF RankIInv

\* A list of a suggestion arrives and is ranked.
LEMMA ListArrivesKeeps ==
    ASSUME RankIInv, NEW i \in {1, 2}, ListArrives(i)
    PROVE  RankIInv'
<1> DEFINE list == plan.lists[i]
           new == IF list.cached THEN CachedCall(i) ELSE Call(list.hits, list.query, plan.typo, list.total)
<1>1. /\ plan' = plan /\ workerFile' = workerFile /\ at' = at /\ hits' = hits
      /\ at = "lists" /\ i \in DOMAIN plan.lists
      /\ calls' = [calls EXCEPT ![i] = new]
  BY DEF ListArrives, CachedCall
<1>2. plan \in Plans /\ calls \in [{1, 2, 3} -> CallType]
  BY DEF RankIInv
<1>3. /\ list.hits \in Hits /\ list.query \in QueriesAsked /\ plan.typo \in TyposAsked
  BY <1>1, <1>2, PlanFacts
<1>4. /\ new \in CallType /\ Honest(new)
      /\ ~list.cached => new.hits = list.hits /\ new.query = list.query /\ Ranks(new)
  <2>1. CASE list.cached
    <3>1. NoCall \in CallType /\ ~Working(NoCall)
      <4>1. <<>> \in Hits
        BY EmptySeq DEF Hits
      <4>2. QED
        BY <4>1 DEF NoCall, CallType, Workers, States, TyposAsked, Working
    <3>2. new = [NoCall EXCEPT !.state = "resolved", !.ranked = list.hits]
      BY <2>1 DEF CachedCall
    <3> HIDE DEF new, list
    <3>3. new \in CallType /\ new.state = "resolved" /\ ~Working(new) /\ new.hits = <<>>
      BY <1>3, <3>1, <3>2 DEF CallType, States, Working, NoCall
    <3>4. Readable(<<>>)
      BY DEF Readable
    <3>5. QED
      BY <2>1, <3>3, <3>4 DEF Honest
  <2>2. CASE ~list.cached
    <3>1. new = Call(list.hits, list.query, plan.typo, list.total)
      BY <2>2
    <3> HIDE DEF new, list
    <3>2. QED
      BY <1>3, <3>1, NewCall
  <2>3. QED
    BY <2>1, <2>2
<1>5. list.cached => new = CachedCall(i)
  OBVIOUS
<1> HIDE DEF new
<1>6. /\ calls' \in [{1, 2, 3} -> CallType]
      /\ calls'[i] = new /\ \A c \in {1, 2, 3} \ {i} : calls'[c] = calls[c]
  BY <1>1, <1>2, <1>4
<1>7. \A c \in {1, 2, 3} : Honest(calls[c])'
  BY <1>4, <1>6 DEF RankIInv
<1>8. ListsRanked'
  <2>1. SUFFICES ASSUME NEW j \in {1, 2}, calls'[j].state # "none"
                 PROVE  /\ j \in DOMAIN plan.lists
                        /\ IF plan.lists[j].cached THEN calls'[j] = CachedCall(j)
                           ELSE /\ calls'[j].hits = plan.lists[j].hits
                                /\ calls'[j].query = plan.lists[j].query
                                /\ Ranks(calls'[j])
    BY <1>1 DEF ListsRanked, CachedCall
  <2>2. CASE j # i
    <3>1. calls'[j] = calls[j]
      BY <1>6, <2>2
    <3>2. QED
      BY <2>1, <3>1 DEF RankIInv, ListsRanked
  <2>3. CASE j = i
    BY <1>1, <1>4, <1>5, <1>6, <2>3
  <2>4. QED
    BY <2>2, <2>3
<1>9. /\ plan' \in Plans /\ workerFile' \in BOOLEAN
      /\ at' = "lists" /\ Len(plan'.lists) = 2
  BY <1>1 DEF RankIInv
<1>10. NothingLost' /\ ContainingFirst' /\ ThreadsFailSilently'
  BY <1>9 DEF NothingLost, ContainingFirst, ThreadsFailSilently
<1>11. calls'[3].state # "pending"
  BY <1>1, <1>6 DEF RankIInv
<1>12. QED
  BY <1>6, <1>7, <1>8, <1>9, <1>10, <1>11 DEF RankIInv

\* The process ends with all rankings.
LEMMA MainThrowsKeeps ==
    ASSUME RankIInv, NEW c \in {1, 2, 3}, MainThrows(c)
    PROVE  RankIInv'
<1> DEFINE call == calls[c]
<1>1. /\ plan' = plan /\ workerFile' = workerFile /\ hits' = hits /\ at' = "crashed"
      /\ calls' = [d \in DOMAIN calls |-> NoCall] /\ call.main /\ Deadly(call.hits)
  BY DEF MainThrows
<1>2. call \in CallType /\ Honest(call) /\ calls \in [{1, 2, 3} -> CallType]
  BY DEF RankIInv
<1>3. call.state = "pending"
  <2>1. call.state # "none"
    BY <1>1, <1>2 DEF Honest, NoCall
  <2>2. call.state # "resolved"
    BY <1>1, <1>2 DEF Honest, Deadly
  <2>3. call.state # "rejected"
    <3>1. Len(call.hits) \in Nat /\ Sequential \in Nat
      BY <1>2, HitsOf, RankingAssumption DEF CallType
    <3>2. QED
      BY <1>1, <1>2, <3>1 DEF Honest, Deadly
  <2>4. QED
    BY <1>2, <2>1, <2>2, <2>3 DEF CallType, States
<1>4. \/ Deadly(hits)
      \/ \E i \in DOMAIN plan.lists : Deadly(plan.lists[i].hits) /\ ~plan.lists[i].cached
  <2>1. CASE c = 3
    BY <1>1, <1>3, <2>1 DEF RankIInv, LastRanked
  <2>2. CASE c # 3
    <3>1. /\ c \in DOMAIN plan.lists
          /\ IF plan.lists[c].cached THEN call = CachedCall(c)
             ELSE call.hits = plan.lists[c].hits
      BY <1>3, <2>2 DEF RankIInv, ListsRanked
    <3>2. call # CachedCall(c)
      BY <1>1 DEF CachedCall, NoCall
    <3>3. QED
      BY <1>1, <3>1, <3>2
  <2>3. QED
    BY <2>1, <2>2
<1>5. NoCall \in CallType /\ Honest(NoCall) /\ NoCall.state = "none"
  <2>1. <<>> \in Hits
    BY EmptySeq DEF Hits
  <2>2. QED
    BY <2>1 DEF NoCall, CallType, Workers, States, TyposAsked, Honest, Working
<1>6. calls' \in [{1, 2, 3} -> CallType] /\ \A d \in {1, 2, 3} : calls'[d] = NoCall
  BY <1>1, <1>2, <1>5
<1>7. ListsRanked' /\ calls'[3].state # "pending" /\ \A d \in {1, 2, 3} : Honest(calls[d])'
  BY <1>5, <1>6 DEF ListsRanked
<1>8. NothingLost' /\ ContainingFirst' /\ ThreadsFailSilently'
  BY <1>1, <1>4 DEF NothingLost, ContainingFirst, ThreadsFailSilently, Deadly, Readable, Name
<1>9. plan' \in Plans /\ workerFile' \in BOOLEAN
  BY <1>1 DEF RankIInv
<1>10. QED
  BY <1>1, <1>6, <1>7, <1>8, <1>9 DEF RankIInv

\* The steps that the rankings take on their own.
LEMMA RankingMoves ==
    ASSUME RankIInv, NEW c \in {1, 2, 3}, Thread(c) \/ Events(c)
    PROVE  RankIInv'
<1> DEFINE old == calls[c]
<1>1. /\ old \in CallType /\ Honest(old) /\ calls \in [{1, 2, 3} -> CallType]
  BY DEF RankIInv
<1>2. Working(old) => old.state # "none" /\ old.query \in QueriesAsked
  BY <1>1 DEF Honest, Working, NoCall
<1>3. old.worker \in Workers /\ old.timer \in BOOLEAN /\ old.main \in BOOLEAN
  BY <1>1 DEF CallType
<1>4. old.typo \in TyposAsked /\ old.hits \in Hits
  BY <1>1 DEF CallType
<1> DEFINE Move(w, t, m) == [old EXCEPT !.worker = w, !.timer = t, !.main = m]
<1>5. ASSUME Working(old), NEW w \in Workers, NEW t \in BOOLEAN, NEW m \in BOOLEAN
      PROVE  Keeps(old, Move(w, t, m)) /\ Move(w, t, m).typo = old.typo
  <2>1. Keeps(old, Move(w, t, m))
    <3> HIDE DEF old
    <3>1. QED
      BY <1>1, <1>2, <1>5, MovingOn
  <2>2. Move(w, t, m).typo = old.typo
    BY <1>1 DEF CallType
  <2>3. QED
    BY <2>1, <2>2
<1>6. ASSUME UNCHANGED <<plan, workerFile, at, hits>>, Working(old), NEW new, Keeps(old, new),
             calls' = [calls EXCEPT ![c] = new]
      PROVE  RankIInv'
  BY <1>6, CallStep
<1>7. ASSUME NEW mid, Keeps(old, mid), Working(old)
      PROVE  /\ ~Readable(mid.hits) /\ ~Deadly(mid.hits) => Keeps(old, Reject(mid))
             /\ Readable(mid.hits) =>
                   \A r : RankingOf(r, mid.hits, mid.query) => Keeps(old, Resolve(mid, r))
  <2>1. mid \in CallType /\ Honest(mid) /\ mid.query \in QueriesAsked /\ mid.state # "none"
    BY <1>2, <1>7 DEF Keeps
  <2>2. \A new : Keeps(mid, new) => Keeps(old, new)
    BY <1>7 DEF Keeps
  <2>3. QED
    BY <2>1, <2>2, Settling
<1> HIDE DEF Move
<1>8. CASE MainRanks(c)
  <2> DEFINE mid == Move(old.worker, old.timer, FALSE)
             new == IF Readable(mid.hits)
                    THEN Resolve(mid, MainRanking(mid.hits, mid.query, mid.typo))
                    ELSE Reject(mid)
  <2>1. Working(old)
    BY <1>8 DEF MainRanks, Working
  <2>2. Keeps(old, mid) /\ mid.typo = old.typo
    BY <1>3, <1>5, <2>1
  <2>3. mid = [old EXCEPT !.main = FALSE]
    BY <1>1 DEF Move, CallType
  <2>4. calls' = [calls EXCEPT ![c] = new] /\ UNCHANGED <<plan, workerFile, at, hits>>
    <3>1. calls' = [calls EXCEPT ![c] =
                       LET call == [old EXCEPT !.main = FALSE] IN
                       IF Readable(call.hits)
                       THEN Resolve(call, MainRanking(call.hits, call.query, call.typo))
                       ELSE Reject(call)]
      BY <1>1, <1>8 DEF MainRanks
    <3> HIDE DEF mid
    <3>2. QED
      BY <1>8, <2>3, <3>1 DEF MainRanks
  <2> HIDE DEF mid
  <2>5. mid.hits = old.hits /\ mid.query = old.query
    BY <2>2 DEF Keeps
  <2>6. Readable(mid.hits) =>
           RankingOf(MainRanking(mid.hits, mid.query, mid.typo), mid.hits, mid.query)
    BY <1>2, <1>4, <2>1, <2>2, <2>5, MainRankingRanks
  <2>7. ~Deadly(mid.hits)
    BY <1>8, <2>5 DEF MainRanks
  <2>8. Keeps(old, new)
    BY <1>7, <2>1, <2>2, <2>6, <2>7
  <2>9. QED
    BY <1>6, <2>1, <2>4, <2>8
<1>9. CASE MessageArrives(c)
  <2> DEFINE mid == Move("gone", FALSE, old.main)
             again == Move("gone", FALSE, TRUE)
             new == IF Readable(mid.hits)
                    THEN Resolve(mid, WorkerRanking(mid.hits, mid.query, mid.typo))
                    ELSE again
  <2>1. Working(old)
    BY <1>9 DEF MessageArrives, Working
  <2>2. Keeps(old, mid) /\ mid.typo = old.typo /\ Keeps(old, again)
    BY <1>3, <1>5, <2>1 DEF Workers
  <2>3. /\ mid = [old EXCEPT !.worker = "gone", !.timer = FALSE]
        /\ again = [mid EXCEPT !.main = TRUE]
    BY <1>1 DEF Move, CallType
  <2>4. calls' = [calls EXCEPT ![c] = new] /\ UNCHANGED <<plan, workerFile, at, hits>>
    <3>1. calls' = [calls EXCEPT ![c] =
                       LET call == [old EXCEPT !.worker = "gone", !.timer = FALSE] IN
                       IF Readable(call.hits)
                       THEN Resolve(call, WorkerRanking(call.hits, call.query, call.typo))
                       ELSE [call EXCEPT !.main = TRUE]]
      BY <1>1, <1>9 DEF MessageArrives
    <3> HIDE DEF mid, again
    <3>2. QED
      BY <1>9, <2>3, <3>1 DEF MessageArrives
  <2> HIDE DEF mid, again
  <2>5. mid.hits = old.hits /\ mid.query = old.query
    BY <2>2 DEF Keeps
  <2>6. Readable(mid.hits) =>
           RankingOf(WorkerRanking(mid.hits, mid.query, mid.typo), mid.hits, mid.query)
    BY <1>2, <1>4, <2>1, <2>2, <2>5, WorkerRankingRanks
  <2>7. Keeps(old, new)
    BY <1>7, <2>1, <2>2, <2>6
  <2>8. QED
    BY <1>6, <2>1, <2>4, <2>7
<1>10. CASE WorkerPosts(c) \/ WorkerHangs(c) \/ ErrorArrives(c) \/ TimerFires(c)
  <2>1. Working(old) /\ UNCHANGED <<plan, workerFile, at, hits>>
    BY <1>10 DEF WorkerPosts, WorkerHangs, ErrorArrives, TimerFires, Working
  <2>2. PICK w \in Workers, t \in BOOLEAN, m \in BOOLEAN :
            calls' = [calls EXCEPT ![c] = Move(w, t, m)]
    <3> DEFINE Step(w, t, m) == calls' = [calls EXCEPT ![c] = Move(w, t, m)]
    <3>1. CASE WorkerPosts(c) \/ WorkerHangs(c)
      <4>1. PICK end \in {"posted", "crashed", "gone"} :
                calls' = [calls EXCEPT ![c].worker = end]
        BY <3>1 DEF WorkerPosts, WorkerHangs
      <4>2. Step(end, old.timer, old.main)
        <5>1. Move(end, old.timer, old.main) = [old EXCEPT !.worker = end]
          BY <1>1 DEF Move, CallType
        <5>2. QED
          BY <1>1, <4>1, <5>1
      <4> HIDE DEF Step
      <4>3. QED
        BY <1>3, <4>2 DEF Workers, Step
    <3>2. CASE ErrorArrives(c)
      <4>1. calls' = [calls EXCEPT ![c].worker = "gone", ![c].timer = FALSE, ![c].main = TRUE]
        BY <3>2 DEF ErrorArrives
      <4>2. Step("gone", FALSE, TRUE)
        <5> DEFINE new == Move("gone", FALSE, TRUE)
        <5>1. new = [old EXCEPT !.worker = "gone", !.timer = FALSE, !.main = TRUE]
          BY DEF Move
        <5>2. QED
          BY <1>1, <4>1, <5>1
      <4> HIDE DEF Step
      <4>3. QED
        BY <1>3, <4>2 DEF Workers, Step
    <3>3. CASE TimerFires(c)
      <4>1. PICK w \in {old.worker, "gone"} :
                calls' = [calls EXCEPT ![c].timer = FALSE, ![c].main = TRUE, ![c].worker = w]
        BY <3>3 DEF TimerFires
      <4>2. Step(w, FALSE, TRUE)
        <5> DEFINE new == Move(w, FALSE, TRUE)
        <5>1. new = [old EXCEPT !.timer = FALSE, !.main = TRUE, !.worker = w]
          BY <1>1 DEF Move, CallType
        <5>2. QED
          BY <1>1, <4>1, <5>1
      <4> HIDE DEF Step
      <4>3. w \in Workers
        BY <1>3 DEF Workers
      <4>4. QED
        BY <4>2, <4>3 DEF Step
    <3>4. QED
      BY <1>10, <3>1, <3>2, <3>3
  <2>3. QED
    BY <1>5, <1>6, <2>1, <2>2
<1>11. CASE MainThrows(c)
  BY <1>11, MainThrowsKeeps
<1>12. QED
  BY <1>8, <1>9, <1>10, <1>11 DEF Thread, Events
-----------------------------------------------------------------------------
\* A settled list gives the merge its documents when it is a source, and
\* otherwise nothing.
LEMMA SettledDocuments ==
    ASSUME RankIInv, at = "lists", NEW i \in {1, 2},
           calls[i].state \in {"resolved", "rejected"}
    PROVE  calls[i].ranked \in Hits /\ Documents(calls[i].ranked) = DocsOf(i)
<1> DEFINE call == calls[i]
           list == plan.lists[i]
<1>1. /\ i \in DOMAIN plan.lists
      /\ IF list.cached THEN call = CachedCall(i)
         ELSE call.hits = list.hits /\ Ranks(call)
  BY DEF RankIInv, ListsRanked
<1>2. call \in CallType /\ Honest(call)
  BY DEF RankIInv
<1>3. i \in Sources <=> Readable(list.hits) \/ list.cached
  BY <1>1 DEF Sources
<1>4. CASE list.cached
  <2>1. call.ranked = list.hits
    BY <1>1, <1>4 DEF CachedCall, NoCall
  <2>2. QED
    BY <1>2, <1>3, <1>4, <2>1 DEF DocsOf, CallType
<1>5. CASE ~list.cached /\ call.state = "resolved"
  <2>1. Readable(list.hits) /\ RankingOf(call.ranked, list.hits, call.query)
    BY <1>1, <1>5 DEF Ranks
  <2>2. list.hits \in Hits
    BY <1>1, PlanFacts DEF RankIInv
  <2>3. Documents(call.ranked) = Documents(list.hits)
    BY <2>1, <2>2, RankingKeepsDocuments
  <2>4. QED
    BY <1>2, <1>3, <2>1, <2>3 DEF DocsOf, CallType
<1>6. CASE ~list.cached /\ call.state = "rejected"
  <2>1. ~Readable(list.hits) /\ call.ranked = <<>>
    BY <1>1, <1>2, <1>6 DEF Honest
  <2>2. Documents(<<>>) = {}
    BY DEF Documents
  <2>3. QED
    BY <1>2, <1>3, <1>6, <2>1, <2>2 DEF DocsOf, CallType
<1>7. QED
  BY <1>4, <1>5, <1>6

\* The lists are merged.
LEMMA MergeKeeps == RankIInv /\ Merge => RankIInv'
<1> SUFFICES ASSUME RankIInv, Merge PROVE RankIInv'
  OBVIOUS
<1> DEFINE both == calls[1].ranked \o calls[2].ranked
           kept == Deduplicate(both)
           r == Slice(kept)
<1>1. /\ plan' = plan /\ workerFile' = workerFile /\ calls' = calls
      /\ at = "lists" /\ at' = "merge" /\ hits' = r
      /\ \A i \in DOMAIN plan.lists : calls[i].state \in {"resolved", "rejected"}
  BY DEF Merge
<1>2. plan \in Plans /\ Len(plan.lists) = 2 /\ DOMAIN plan.lists = {1, 2}
  <2>1. plan \in Plans /\ Len(plan.lists) = 2
    BY <1>1 DEF RankIInv
  <2>2. DOMAIN plan.lists = 1 .. Len(plan.lists)
    BY <2>1, PlanFacts
  <2>3. QED
    BY <2>1, <2>2
<1>3. \A i \in {1, 2} : calls[i].ranked \in Hits /\ Documents(calls[i].ranked) = DocsOf(i)
  BY <1>1, <1>2, SettledDocuments
<1>4. both \in Hits /\ Documents(both) = SourceDocs
  <2> DEFINE a == calls[1].ranked
             b == calls[2].ranked
  <2>1. a \in Hits /\ b \in Hits /\ Documents(a) = DocsOf(1) /\ Documents(b) = DocsOf(2)
    BY <1>3
  <2> HIDE DEF a, b
  <2>2. /\ a \o b \in Seq(Hit) /\ Len(a \o b) = Len(a) + Len(b)
        /\ \A i \in 1 .. Len(a) + Len(b) :
              (a \o b)[i] = IF i <= Len(a) THEN a[i] ELSE b[i - Len(a)]
    BY <2>1, ConcatProperties DEF Hits
  <2> DEFINE ab == a \o b
             m == Len(a)
             n == Len(b)
  <2>3. /\ m \in Nat /\ n \in Nat /\ DOMAIN a = 1 .. m /\ DOMAIN b = 1 .. n
    BY <2>1, HitsOf
  <2>4. DOMAIN ab = 1 .. m + n
    BY <2>2, LenProperties
  <2>5. \A i \in 1 .. m + n : ab[i] = IF i <= m THEN a[i] ELSE b[i - m]
    BY <2>2
  <2> HIDE DEF ab, m, n
  <2>6. Documents(ab) \subseteq Documents(a) \cup Documents(b)
    <3>1. ASSUME NEW i \in 1 .. m + n
          PROVE  ab[i].doc \in Documents(a) \cup Documents(b)
      <4>1. CASE i <= m
        BY <2>3, <2>5, <4>1 DEF Documents
      <4>2. CASE ~(i <= m)
        <5>1. i - m \in 1 .. n /\ ab[i] = b[i - m]
          BY <2>3, <2>5, <4>2
        <5>2. QED
          BY <2>3, <5>1 DEF Documents
      <4>3. QED
        BY <4>1, <4>2
    <3>2. QED
      BY <2>4, <3>1 DEF Documents
  <2>7. Documents(a) \subseteq Documents(ab)
    <3>1. \A i \in 1 .. m : i \in 1 .. m + n /\ ab[i] = a[i]
      BY <2>3, <2>5
    <3>2. QED
      BY <2>3, <2>4, <3>1 DEF Documents
  <2>8. Documents(b) \subseteq Documents(ab)
    <3>1. \A i \in 1 .. n : m + i \in 1 .. m + n /\ ab[m + i] = b[i]
      <4>1. TAKE i \in 1 .. n
      <4> DEFINE k == m + i
      <4>2. k \in 1 .. m + n /\ ~(k <= m) /\ k - m = i
        BY <2>3
      <4> HIDE DEF k
      <4>3. k \in 1 .. m + n /\ ab[k] = b[i]
        BY <2>5, <4>2
      <4>4. QED
        BY <4>3 DEF k
    <3>2. QED
      BY <2>3, <2>4, <3>1 DEF Documents
  <2>9. Documents(ab) = DocsOf(1) \cup DocsOf(2)
    BY <2>1, <2>6, <2>7, <2>8
  <2>10. QED
    BY <1>2, <2>2, <2>9, SourceDocsFacts DEF Hits, a, b, ab
<1> HIDE DEF both
<1>5. kept \in Hits /\ Distinct(kept) /\ Documents(kept) = SourceDocs
  BY <1>4, Deduplicated
<1> HIDE DEF kept
<1>6. /\ r \in Hits /\ Distinct(r) /\ Documents(r) \subseteq SourceDocs
      /\ Len(r) = Least(Size, Len(kept))
  BY <1>5, SliceFacts
<1>7. Len(kept) = Cardinality(SourceDocs)
  BY <1>5, DocumentsCounted
<1>8. SourceDocs' = SourceDocs
  BY <1>1 DEF SourceDocs, Sources
<1> HIDE DEF r
<1>9. Merged'
  BY <1>1, <1>2, <1>6, <1>7, <1>8 DEF Merged
<1>10. ListsRanked'
  <2>1. ListsRanked
    BY DEF RankIInv
  <2>2. QED
    BY <1>1, <2>1 DEF ListsRanked, CachedCall
<1>11. /\ plan' \in Plans /\ workerFile' \in BOOLEAN /\ calls' \in [{1, 2, 3} -> CallType]
       /\ \A c \in {1, 2, 3} : Honest(calls[c])'
  BY <1>1 DEF RankIInv
<1>12. NothingLost' /\ ContainingFirst' /\ ThreadsFailSilently'
  BY <1>1 DEF NothingLost, ContainingFirst, ThreadsFailSilently
<1>13. calls'[3].state # "pending"
  BY <1>1 DEF RankIInv
<1>14. QED
  BY <1>1, <1>9, <1>10, <1>11, <1>12, <1>13 DEF RankIInv

\* The merged hits, when there are none or they are ranked and cut, are an
\* answer.
LEMMA AnswerIsComplete ==
    ASSUME plan \in Plans, Merged, Readable(hits),
           NEW r, RankingOf(r, hits, plan.query), at' = "answered", hits' = Slice(r),
           plan' = plan
    PROVE  NothingLost' /\ ContainingFirst'
<1> DEFINE n == Len(hits)
           m == Least(Size, n)
           s == Slice(r)
           N == Cardinality(SourceDocs)
<1>1. hits \in Hits /\ Distinct(hits) /\ r \in Hits /\ Len(r) = n
  BY DEF Merged, RankingOf
<1>2. Documents(r) = Documents(hits) /\ Distinct(r)
  BY <1>1, RankingKeepsDocuments
<1>3. /\ s \in Hits /\ Distinct(s) /\ Len(s) = m /\ DOMAIN s = 1 .. m /\ m \in 0 .. n
      /\ \A i \in 1 .. m : i \in 1 .. n /\ s[i] = r[i]
      /\ Documents(s) \subseteq Documents(hits)
  <2>1. DOMAIN r = 1 .. n
    BY <1>1, HitsOf
  <2>2. QED
    BY <1>1, <1>2, <2>1, SliceFacts
<1>4. n \in Nat /\ DOMAIN hits = 1 .. n /\ Cardinality(Documents(hits)) = n
  BY <1>1, HitsOf, DocumentsCounted
<1>5. /\ Len(plan.lists) \in {1, 2} /\ DOMAIN plan.lists = 1 .. Len(plan.lists)
      /\ N \in Nat
  BY PlanFacts, SourceDocsFacts
<1>6. Documents(hits) \subseteq SourceDocs /\ m = Least(Size, N)
  <2>1. CASE Len(plan.lists) = 1
    <3>1. hits = plan.lists[1].hits /\ 1 \in Sources /\ Sources \in SUBSET {1}
      BY <1>5, <2>1, SourceDocsFacts DEF Merged, Sources
    <3>2. SourceDocs = Documents(hits)
      BY <3>1 DEF SourceDocs
    <3>3. QED
      BY <1>4, <3>2
  <2>2. CASE Len(plan.lists) = 2
    <3>1. Documents(hits) \subseteq SourceDocs /\ n = Least(Size, N)
      BY <2>2 DEF Merged
    <3>2. Size \in Nat
      BY RankingAssumption
    <3> HIDE DEF n, N
    <3>3. m = n
      BY <1>5, <3>1, <3>2 DEF Least
    <3>4. QED
      BY <3>1, <3>3
  <2>3. QED
    BY <1>5, <2>1, <2>2
<1>7. hits' = s /\ Cardinality(Documents(s)) = Len(s)
  BY <1>3, DocumentsCounted
<1>8. NothingLost'
  <2>1. SourceDocs' = UNION {Documents(plan.lists[i].hits) : i \in Sources}' /\ SourceDocs' = SourceDocs
    BY DEF SourceDocs, Sources
  <2> HIDE DEF s, m, N
  <2>2. /\ Documents(s) \subseteq SourceDocs /\ Cardinality(Documents(s)) = Len(s)
        /\ Len(s) = Least(Size, Cardinality(SourceDocs))
    BY <1>3, <1>6, <1>7 DEF N
  <2>3. NothingLost' <=> /\ Documents(s) \subseteq SourceDocs /\ Cardinality(Documents(s)) = Len(s)
                         /\ Len(s) = Least(Size, Cardinality(SourceDocs))
    BY <1>7, <2>1 DEF NothingLost, SourceDocs, Sources
  <2>4. QED
    BY <2>2, <2>3
<1> DEFINE Before(d, e) == Leads(d, e, plan.query)
<1>9. \A i, j \in 1 .. n : Before(r[j].doc, r[i].doc) => j < i
  BY DEF RankingOf
<1> HIDE DEF s, n, m, Before
<1>10. \A i, j \in 1 .. m : Before(s[j].doc, s[i].doc) => j < i
  BY <1>3, <1>9
<1>11. ASSUME Len(plan.lists) = 1, NEW i \in 1 .. m,
              NEW d \in Documents(plan.lists[1].hits), Before(d, s[i].doc)
       PROVE  d \in Documents(s)
  <2>1. hits = plan.lists[1].hits
    BY <1>11 DEF Merged
  <2>2. PICK j \in 1 .. n : r[j].doc = d
    <3>1. d \in Documents(r) /\ DOMAIN r = 1 .. n
      BY <1>1, <1>2, <2>1, <1>11, HitsOf
    <3>2. QED
      BY <3>1 DEF Documents
  <2>3. i \in 1 .. n /\ s[i] = r[i]
    BY <1>3
  <2>4. j < i
    BY <1>9, <1>11, <2>2, <2>3
  <2>5. j \in 1 .. m
    BY <1>3, <1>4, <2>2, <2>4
  <2>6. s[j].doc = d
    BY <1>3, <2>2, <2>5
  <2>7. QED
    BY <1>3, <2>5, <2>6 DEF Documents
<1>12. ContainingFirst'
  <2>1. /\ \A i, j \in 1 .. m : Before(s[j].doc, s[i].doc) => j < i
        /\ Len(plan.lists) = 1 =>
              \A d \in Documents(plan.lists[1].hits) \ Documents(s), i \in 1 .. m :
                 ~Before(d, s[i].doc)
    BY <1>10, <1>11
  <2>2. DOMAIN hits' = 1 .. m
    BY <1>3, <1>7
  <2>3. QED
    BY <1>7, <2>1, <2>2 DEF ContainingFirst, Before
<1>13. QED
  BY <1>8, <1>12

\* The hits that are left are given to a ranking of their own.
LEMMA LastCall ==
    ASSUME RankIInv, Merged, plan' = plan, workerFile' = workerFile, hits' = hits,
           at' \in {"rank", "again"}, NEW total,
           calls' = [calls EXCEPT ![3] = Call(hits, plan.query, plan.typo, total)]
    PROVE  RankIInv'
<1> DEFINE new == Call(hits, plan.query, plan.typo, total)
<1>1. plan \in Plans /\ hits \in Hits /\ calls \in [{1, 2, 3} -> CallType]
  BY DEF RankIInv, Merged
<1>2. /\ new \in CallType /\ Honest(new) /\ Ranks(new)
      /\ new.hits = hits /\ new.query = plan.query
  <2>1. plan.query \in QueriesAsked /\ plan.typo \in TyposAsked
    BY <1>1, PlanFacts
  <2>2. QED
    BY <1>1, <2>1, NewCall
<1> HIDE DEF new
<1>3. /\ calls' \in [{1, 2, 3} -> CallType] /\ calls'[3] = new
      /\ calls'[1] = calls[1] /\ calls'[2] = calls[2]
  BY <1>1, <1>2 DEF new
<1>4. \A c \in {1, 2, 3} : Honest(calls[c])'
  BY <1>2, <1>3 DEF RankIInv
<1>5. ListsRanked'
  <2>1. ListsRanked
    BY DEF RankIInv
  <2>2. \A i \in {1, 2} : calls'[i] = calls[i]
    BY <1>3
  <2>3. QED
    BY <2>1, <2>2 DEF ListsRanked, CachedCall
<1>6. Merged'
  BY DEF Merged, SourceDocs, Sources
<1>7. LastRanked'
  BY <1>2, <1>3, <1>6 DEF LastRanked
<1>8. NothingLost' /\ ContainingFirst' /\ ThreadsFailSilently'
  BY DEF NothingLost, ContainingFirst, ThreadsFailSilently
<1>9. plan' \in Plans /\ workerFile' \in BOOLEAN
  BY DEF RankIInv
<1>10. QED
  BY <1>3, <1>4, <1>5, <1>6, <1>7, <1>8, <1>9 DEF RankIInv

\* The ranking of what is left begins, or there is nothing to rank.
LEMMA StartRankingKeeps == RankIInv /\ StartRanking => RankIInv'
<1> SUFFICES ASSUME RankIInv, StartRanking PROVE RankIInv'
  OBVIOUS
<1>1. /\ plan' = plan /\ workerFile' = workerFile /\ hits' = hits /\ at = "merge"
      /\ hits = <<>> => at' = "answered" /\ calls' = calls
      /\ hits # <<>> => /\ at' = "rank"
                        /\ calls' = [calls EXCEPT ![3] = Call(hits, plan.query, plan.typo, Total)]
  BY DEF StartRanking
<1>2. /\ plan \in Plans /\ Merged /\ calls \in [{1, 2, 3} -> CallType] /\ ListsRanked
      /\ \A c \in {1, 2, 3} : Honest(calls[c])
  BY <1>1 DEF RankIInv
<1>3. CASE hits = <<>>
  <2>1. hits \in Hits /\ Len(hits) = 0 /\ DOMAIN hits = {}
    BY <1>2, <1>3 DEF Merged
  <2>2. Readable(hits)
    BY <2>1 DEF Readable
  <2>3. RankingOf(hits, hits, plan.query)
    <3> DEFINE none == [i \in {} |-> 1]
    <3>1. none \in [{} -> {}] /\ 1 .. Len(hits) = {}
      BY <2>1
    <3> HIDE DEF none
    <3>2. QED
      BY <2>1, <3>1 DEF RankingOf
  <2>4. Slice(hits) = hits
    <3>1. /\ Slice(hits) \in Hits /\ Len(Slice(hits)) \in 0 .. 0
      BY <2>1, SliceFacts
    <3>2. Len(Slice(hits)) = 0
      BY <3>1
    <3>3. Slice(hits) = <<>>
      BY <3>1, <3>2, EmptySeq DEF Hits
    <3>4. QED
      BY <1>3, <3>3
  <2>5. NothingLost' /\ ContainingFirst'
    BY <1>1, <1>2, <1>3, <2>2, <2>3, <2>4, AnswerIsComplete
  <2>6. ListsRanked'
    <3>1. calls' = calls /\ plan' = plan /\ ListsRanked
      BY <1>1, <1>2, <1>3
    <3>2. QED
      BY <3>1 DEF ListsRanked, CachedCall
  <2>7. \A c \in {1, 2, 3} : Honest(calls[c])'
    BY <1>1, <1>2, <1>3
  <2>8. ThreadsFailSilently' /\ at' = "answered"
    BY <1>1, <1>3 DEF ThreadsFailSilently
  <2>9. workerFile' \in BOOLEAN
    BY <1>1 DEF RankIInv
  <2>10. calls'[3].state # "pending"
    BY <1>1, <1>3 DEF RankIInv
  <2>11. QED
    BY <1>1, <1>2, <1>3, <2>5, <2>6, <2>7, <2>8, <2>9, <2>10 DEF RankIInv
<1>4. CASE hits # <<>>
  <2>1. at' = "rank" /\ calls' = [calls EXCEPT ![3] = Call(hits, plan.query, plan.typo, Total)]
    BY <1>1, <1>4
  <2>2. QED
    BY <1>1, <1>2, <2>1, LastCall
<1>5. QED
  BY <1>3, <1>4

\* The ranking by location is one of the same hits.
LEMMA RankAgainKeeps == RankIInv /\ RankAgain => RankIInv'
<1> SUFFICES ASSUME RankIInv, RankAgain PROVE RankIInv'
  OBVIOUS
<1>1. /\ plan' = plan /\ workerFile' = workerFile /\ hits' = hits
      /\ at = "rank" /\ at' = "again"
      /\ calls' = [calls EXCEPT ![3] = Call(LocationRanked(hits), plan.query, plan.typo, Total)]
  BY DEF RankAgain
<1>2. Merged
  BY <1>1 DEF RankIInv, LastRanked
<1>3. LocationRanked(hits) = hits
  BY <1>2, LocationKeepsOrder DEF Merged
<1>4. QED
  BY <1>1, <1>2, <1>3, LastCall

\* The request is answered or fails.
LEMMA FinishKeeps == RankIInv /\ Finish => RankIInv'
<1> SUFFICES ASSUME RankIInv, Finish PROVE RankIInv'
  OBVIOUS
<1>1. /\ plan' = plan /\ workerFile' = workerFile /\ calls' = calls
      /\ at \in {"rank", "again"}
      /\ \/ /\ calls[3].state = "resolved" /\ at' = "answered"
            /\ hits' = Slice(calls[3].ranked)
         \/ calls[3].state = "rejected" /\ at' = "failed" /\ hits' = hits
  BY DEF Finish
<1>2. /\ plan \in Plans /\ LastRanked /\ calls \in [{1, 2, 3} -> CallType] /\ ListsRanked
      /\ \A c \in {1, 2, 3} : Honest(calls[c])
  BY <1>1 DEF RankIInv
<1>3. /\ Merged /\ calls[3].hits = hits /\ calls[3].query = plan.query /\ Ranks(calls[3])
  BY <1>2 DEF LastRanked
<1>4. NothingLost' /\ ContainingFirst' /\ ThreadsFailSilently'
  <2>1. CASE calls[3].state = "resolved" /\ at' = "answered" /\ hits' = Slice(calls[3].ranked)
    <3>1. Readable(hits) /\ RankingOf(calls[3].ranked, hits, plan.query)
      BY <1>3, <2>1 DEF Ranks
    <3>2. NothingLost' /\ ContainingFirst'
      BY <1>1, <1>2, <1>3, <2>1, <3>1, AnswerIsComplete
    <3>3. QED
      BY <2>1, <3>2 DEF ThreadsFailSilently
  <2>2. CASE calls[3].state = "rejected" /\ at' = "failed" /\ hits' = hits
    <3>1. ~Readable(hits) /\ Len(hits) <= Sequential
      BY <1>2, <1>3, <2>2 DEF Honest
    <3>2. QED
      BY <2>2, <3>1 DEF NothingLost, ContainingFirst, ThreadsFailSilently, Readable, Name
  <2>3. QED
    BY <1>1, <2>1, <2>2
<1>5. ListsRanked'
  BY <1>1, <1>2 DEF ListsRanked, CachedCall
<1>6. \A c \in {1, 2, 3} : Honest(calls[c])'
  BY <1>1, <1>2
<1>7. workerFile' \in BOOLEAN /\ at' \in {"answered", "failed"}
  BY <1>1 DEF RankIInv
<1>8. calls'[3].state # "pending"
  BY <1>1
<1>9. QED
  BY <1>1, <1>2, <1>4, <1>5, <1>6, <1>7, <1>8 DEF RankIInv

\* Every result of a call is a ranking of its hits, every failure is that of a name
\* that is unreadable in a short list, and what is merged are the documents of the lists: whatever
\* the threads do and whoever of them and the timer is first.
THEOREM RankingsAreHonest == RankSpec => []RankIInv
<1>1. RankIInv /\ [RankNext]_rankVars => RankIInv'
  <2> SUFFICES ASSUME RankIInv, [RankNext]_rankVars PROVE RankIInv'
    OBVIOUS
  <2>1. CASE \E i \in {1, 2} : ListArrives(i)
    BY <2>1, ListArrivesKeeps
  <2>2. CASE Merge
    BY <2>2, MergeKeeps
  <2>3. CASE StartRanking
    BY <2>3, StartRankingKeeps
  <2>4. CASE RankAgain
    BY <2>4, RankAgainKeeps
  <2>5. CASE Finish
    BY <2>5, FinishKeeps
  <2>6. CASE \E c \in {1, 2, 3} : Thread(c) \/ Events(c)
    BY <2>6, RankingMoves
  <2>7. CASE UNCHANGED rankVars
    <3>1. /\ plan' = plan /\ workerFile' = workerFile /\ at' = at /\ hits' = hits
          /\ calls' = calls
      BY <2>7 DEF rankVars
    <3>2. ListsRanked => ListsRanked'
      BY <3>1 DEF ListsRanked, CachedCall
    <3>3. Merged => Merged'
      BY <3>1 DEF Merged, SourceDocs, Sources
    <3>4. LastRanked => LastRanked'
      BY <3>1, <3>3 DEF LastRanked
    <3>5. /\ NothingLost => NothingLost'
          /\ ContainingFirst => ContainingFirst'
          /\ ThreadsFailSilently => ThreadsFailSilently'
      BY <3>1 DEF NothingLost, ContainingFirst, ThreadsFailSilently, Sources
    <3>6. (\A c \in {1, 2, 3} : Honest(calls[c])) => (\A c \in {1, 2, 3} : Honest(calls[c])')
      BY <3>1
    <3>7. QED
      BY <3>1, <3>2, <3>3, <3>4, <3>5, <3>6 DEF RankIInv
  <2>8. QED
    BY <2>1, <2>2, <2>3, <2>4, <2>5, <2>6, <2>7 DEF RankNext, Pipeline
<1>2. QED
  BY <1>1, InitRank, PTL DEF RankSpec

\* An answer has no document twice and misses none of the lists' documents unless it
\* is full, for a query or its correction; a list with an unreadable name is left out
\* when it is short and ends the process when it is long (search.service.ts:242,
\* :393, :731).
THEOREM AnswersAreComplete == RankSpec => []NothingLost
<1>1. RankIInv => NothingLost
  BY DEF RankIInv
<1>2. QED
  BY <1>1, RankingsAreHonest, PTL

\* In an answer the names that contain the query, or its correction, are above all
\* that are no exact match, and none of them is cut for one, as far as health and
\* rating are in the ranges the comments give
\* (match-quality-classifier.service.ts:48, tiered-ranking.service.ts:345, :349).
THEOREM ExactMatchesLead == RankSpec => []ContainingFirst
<1>1. RankIInv => ContainingFirst
  BY DEF RankIInv
<1>2. QED
  BY <1>1, RankingsAreHonest, PTL

\* Only an unreadable name makes a request fail, and only one in a long list ends the
\* process (tiered-ranking.service.ts:517, match-quality-classifier.service.ts:212).
THEOREM ThreadsCostNoRequest == RankSpec => []ThreadsFailSilently
<1>1. RankIInv => ThreadsFailSilently
  BY DEF RankIInv
<1>2. QED
  BY <1>1, RankingsAreHonest, PTL
===============================================================================
