---------------------------- MODULE TypoTolerance -----------------------------
(***************************************************************************)
(* TypoToleranceService with the dictionary it keeps in memory and in a    *)
(* file, and its use by SearchService: when a query is corrected at all    *)
(* (DictionaryService), from which terms, and what survives a restart.     *)
(*                                                                         *)
(* Two modules provide the service, so each process has two instances on   *)
(* one file; searches and the debug controller use the same one, the       *)
(* Reader.  A term is a word; a field's terms are what the SQL of          *)
(* extractFieldTerms and isValidTerm make of its values.                   *)
(***************************************************************************)
EXTENDS Words

CONSTANTS
    Reader, Shadow, \* the instances of SearchModule and SearchEngineModule
    Indexes,
    NFields,        \* the fields whose terms are collected (8 in the code)
    Terms,          \* words a document may have
    Corpora,        \* contents to begin with: index -> field -> terms
    Files,          \* what dictionary.json may hold then: index -> terms
    Changes,        \* writes: <<index, field, term>>
    Clients, Admins, \* requests to search and suggest, and to rebuild
    Queries,        \* [words, wildcard, name]: the words of a query, whether it
                    \* has * or ?, and whether it has mixed case, digits or signs
    Mapped,         \* the hardcoded corrections, a function of words
    English,        \* initializeEnglishDictionary
    KnownTypos,     \* pairs of isCommonTypo
    StopWords,      \* words isValidTerm refuses, those of a link included
    LanguageWords,  \* the words of the package dictionary-en
    Similar,        \* <<text, term>> -> trigram similarity, in per cent
    MaxName,        \* letters of a word that may be a name (20 in the code)
    MaxTroubles     \* failures, crashes and writes

ASSUME TypoAssumption ==
    /\ Reader # Shadow
    /\ NFields \in Nat \ {0} /\ MaxName \in Nat
    /\ MaxTroubles \in Nat
    /\ IsFiniteSet(Indexes)
    /\ Corpora \subseteq [Indexes -> [1 .. NFields -> SUBSET Terms]]
    /\ Files \subseteq [Indexes -> (SUBSET Terms) \cup {{<<>>}}]
    /\ Changes \subseteq Indexes \X (1 .. NFields) \X Terms
    /\ \A t \in Terms : Len(t) >= 3
    /\ \A q \in Queries : q.words # <<>>

Instances == {Reader, Shadow}
None == {<<>>}                      \* no dictionary (no term is empty)
NoDictionaries == [i \in Indexes |-> None]
Broken == [i \in Indexes |-> {<<Blank>>}]  \* a file whose writing a crash ended
EditsAllowed == 2                   \* MAX_EDIT_DISTANCE

VARIABLES
    stored,     \* index -> field -> terms of its documents
    view,       \* index -> terms of the materialized view
    file,       \* dictionary.json
    process,    \* "down", "boot" or "up"
    dict,       \* instance -> index -> termDictionaryCache
    sym,        \* instance -> index -> terms of the SymSpell instance
    typos,      \* Reader's commonTyposCache: the corrections it keeps
    due,        \* the builds that initialisation has left
    build,      \* builder -> the build it is at
    words,      \* DictionaryService.dictionaryWords
    req,        \* client -> its request
    ever,       \* (for a property) index -> terms its documents ever had, and
                \* those the first dictionary.json has for it
    troubles
vars == <<stored, view, file, process, dict, sym, typos, due, build, words, req,
          ever, troubles>>
memory == <<dict, sym, typos, due, build, words, req, process>>
rest == <<stored, view, ever>>

Boot == "boot"
Requests == Clients \cup Admins
Builders == {Boot} \cup Admins
NoBuild == [inst |-> Reader, index |-> CHOOSE i \in Indexes : TRUE, field |-> 0, set |-> {}]
Idle == [at |-> "idle", index |-> CHOOSE i \in Indexes : TRUE, words |-> <<>>, to |-> <<>>]

AllTerms(i) == UNION {stored[i][f] : f \in 1 .. NFields}
Trouble == troubles < MaxTroubles /\ troubles' = troubles + 1
Fine == UNCHANGED troubles
-----------------------------------------------------------------------------
RoundDiv(a, b) == (2 * a + b) \div (2 * b)

\* isCommonTypo: the patterns are among the pairs.
IsCommonTypo(q, t) == <<q, t>> \in KnownTypos

\* calculateRelevanceScore for a term at most two edits away, whose length is
\* then at most two letters off; log1p(1) * 20 is 13.86.
RelevanceScore(q, t) ==
    LET long == Most(Len(q), Len(t))
        alike == long - Levenshtein(q, t)
        common == Cardinality(ToSet(q) \cap ToSet(t))
        Base == CASE q = t -> 1000 * long
                  [] q # t /\ IsCommonTypo(q, t) -> 1500 * long
                  [] q # t /\ ~IsCommonTypo(q, t) /\ t \in English ->
                        1200 * long + 200 * alike
                  [] OTHER -> 1000 * long + 100 * alike
    IN  RoundDiv(100 * Base + 1386 * long + 10000 * Least(Len(q), Len(t))
                    + 15000 * common, 100 * long)

TextsAsked == {Letters(q.words) : q \in Queries}
Distances == [q \in TextsAsked, t \in Terms |-> Levenshtein(q, t)]
Scores == [q \in TextsAsked, t \in Terms |->
              IF Distances[q, t] <= EditsAllowed THEN RelevanceScore(q, t) ELSE 0]

\* The best of S: the terms that no other of S exceeds.
Best(S, Value(_)) == {t \in S : \A u \in S : Value(u) <= Value(t)}

\* buildCorrectionFromSymSpell: one of the terms with the best score.
Corrections(text, S) ==
    LET near == {t \in S : Distances[text, t] <= EditsAllowed}
        Score(t) == Scores[text, t]
    IN  IF near = {} THEN {NoTypo} ELSE Best(near, Score)

\* databaseFallbackCorrection, with the threshold of processTypoTolerance,
\* which every score of a similar term exceeds: one of the most similar ones.
FallbackCorrections(text, S) ==
    LET similar == {t \in S : Similar[<<text, t>>] > 40}
        Value(t) == Similar[<<text, t>>]
    IN  IF similar = {} THEN {NoTypo} ELSE Best(similar, Value)

\* isQueryLikelyCorrect, with the words W of the dictionary: half of several
\* words are known, or one of a query with wildcards; a single word is known,
\* looks like a name, or is as short as one.
LikelyCorrect(q, W) ==
    LET long == {i \in DOMAIN q.words : Len(q.words[i]) >= 3}
        known == {i \in long : q.words[i] \in W}
        Valid(w) == Len(w) < 3 \/ w \in W
    IN  \/ Len(Letters(q.words)) < 3
        \/ q.wildcard /\ (long = {} \/ known # {})
        \/ /\ ~q.wildcard /\ Len(q.words) > 1
           /\ long = {} \/ 2 * Cardinality(known) >= Cardinality(long)
        \/ /\ ~q.wildcard /\ Len(q.words) = 1
           /\ \/ Valid(q.words[1]) \/ q.name
              \/ Len(q.words[1]) \in 3 .. MaxName
-----------------------------------------------------------------------------
Init ==
    /\ stored \in Corpora
    /\ view = [i \in Indexes |-> AllTerms(i)]
    /\ file \in Files
    /\ process = "down"
    /\ dict = [n \in Instances |-> NoDictionaries]
    /\ sym = [n \in Instances |-> NoDictionaries]
    /\ typos = <<>>
    /\ due = <<>>
    /\ build = [b \in Builders |-> NoBuild]
    /\ words = None
    /\ req = [r \in Requests |-> Idle]
    /\ ever = [i \in Indexes |-> AllTerms(i) \cup (file[i] \ None)]
    /\ troubles = 0

\* The process starts: both constructors load the file, which may be missing
\* or broken; then onModuleInit of one instance after the other asks for the
\* names of the indexes, which may fail, and builds each of them.
Start ==
    /\ process = "down"
    /\ process' = "boot"
    /\ dict' = [n \in Instances |-> IF file = Broken THEN NoDictionaries ELSE file]
    /\ LET Jobs(n) == [k \in 1 .. Cardinality(Indexes) |-> <<n, SetToSeq(Indexes)[k]>>]
       IN  \/ Fine /\ due' = Jobs(Reader) \o Jobs(Shadow)
           \/ Trouble /\ due' \in {Jobs(Reader), Jobs(Shadow)}
    /\ UNCHANGED <<rest, file, sym, typos, build, words, req>>

\* buildSymSpellIndex: terms that are cached are used as they are; otherwise
\* the fields are asked one after the other.  (A SymSpell instance is only
\* published when it is complete.)
BuildIndex(b, n, i) ==
    IF dict[n][i] \notin {None, {}}
    THEN /\ sym' = [sym EXCEPT ![n][i] = dict[n][i]]
         /\ UNCHANGED build
    ELSE /\ build' = [build EXCEPT ![b] = [inst |-> n, index |-> i, field |-> 1, set |-> {}]]
         /\ UNCHANGED sym

NextIndex ==
    /\ process = "boot"
    /\ build[Boot] = NoBuild
    /\ IF due = <<>>
       THEN process' = "up" /\ UNCHANGED <<sym, build, due>>
       ELSE /\ BuildIndex(Boot, Head(due)[1], Head(due)[2])
            /\ due' = Tail(due)
            /\ UNCHANGED process
    /\ UNCHANGED <<rest, file, dict, typos, words, req, troubles>>

\* isValidTerm, of what the SQL of extractFieldTerms makes of a value: words
\* that begin with a letter.  extractWords takes such a word for itself.
IsValidTerm(t) == t \notin StopWords
ValidTerms(i, f) == {t \in stored[i][f] : IsValidTerm(t)}

\* Mutant: a field that can not be read ends the build.
AbortOnFailure(b) ==
    /\ build[b].field \in 1 .. NFields
    /\ LET set == ValidTerms(build[b].index, build[b].field) IN
        \/ /\ build' = [build EXCEPT ![b].set = @ \cup set, ![b].field = @ + 1]
           /\ Fine
        \/ Trouble /\ build' = [build EXCEPT ![b] = NoBuild]
    /\ UNCHANGED <<rest, file, dict, sym, typos, due, words, req, process>>

\* extractFieldTerms: the terms of a field, or a warning.
ExtractField(b) ==
    /\ build[b].field \in 1 .. NFields
    /\ LET set == ValidTerms(build[b].index, build[b].field) IN
        \/ /\ build' = [build EXCEPT ![b].set = @ \cup set, ![b].field = @ + 1]
           /\ Fine
        \/ Trouble /\ build' = [build EXCEPT ![b].field = @ + 1]
    /\ UNCHANGED <<rest, file, dict, sym, typos, due, words, req, process>>

Finished(b) == build[b].field > NFields
Ended(b) ==
    IF b = Boot THEN UNCHANGED req ELSE req' = [req EXCEPT ![b] = Idle]

\* The end of buildSymSpellIndex: the index is published, all dictionaries of
\* the instance are written to the file; a failure of that is a warning.
PublishAndSave(b) ==
    LET n == build[b].inst  i == build[b].index IN
    /\ Finished(b)
    /\ sym' = [sym EXCEPT ![n][i] = build[b].set]
    /\ dict' = [dict EXCEPT ![n][i] = build[b].set]
    /\ \/ file' = dict'[n] /\ Fine
       \/ Trouble /\ UNCHANGED file
    /\ build' = [build EXCEPT ![b] = NoBuild]
    /\ Ended(b)
    /\ UNCHANGED <<rest, typos, due, words, process>>

\* The process dies, in the middle of writeFileSync perhaps.
Crash ==
    /\ process # "down"
    /\ Trouble
    /\ process' = "down"
    /\ file' \in {file} \cup {Broken : b \in {b \in Builders : Finished(b)}}
    /\ dict' = [n \in Instances |-> NoDictionaries]
    /\ sym' = [n \in Instances |-> NoDictionaries]
    /\ typos' = <<>>
    /\ due' = <<>>
    /\ build' = [b \in Builders |-> NoBuild]
    /\ words' = None
    /\ req' = [r \in Requests |-> Idle]
    /\ UNCHANGED rest
-----------------------------------------------------------------------------
\* forceRebuildIndex: what is cached for the index is forgotten, but not the
\* corrections made of it, and the index is built.
Rebuild(r, i) ==
    /\ process = "up"
    /\ req[r].at = "idle"
    /\ sym' = [sym EXCEPT ![Reader][i] = None]
    /\ dict' = [dict EXCEPT ![Reader][i] = None]
    /\ build' = [build EXCEPT ![r] = [inst |-> Reader, index |-> i, field |-> 1, set |-> {}]]
    /\ req' = [req EXCEPT ![r].at = "rebuild", ![r].index = i]
    /\ UNCHANGED <<rest, file, typos, due, words, process, troubles>>

\* A search begins; its text is checked against the dictionary of the
\* language, which the first searches load.
Ask(r, i, q) ==
    /\ process = "up"
    /\ req[r].at = "idle"
    /\ req' = [req EXCEPT ![r] = [at |-> IF words = None THEN "load" ELSE "judge",
                                  index |-> i, words |-> q, to |-> NoTypo]]
    /\ UNCHANGED <<rest, file, dict, sym, typos, due, build, words, process, troubles>>

\* initializeDictionary: several first searches each load it, and the last one
\* counts; a failure makes it empty for good.
LoadDictionary(r) ==
    /\ req[r].at = "load"
    /\ \/ words' = LanguageWords /\ Fine
       \/ words' = {} /\ Trouble
    /\ req' = [req EXCEPT ![r].at = "judge"]
    /\ UNCHANGED <<rest, file, dict, sym, typos, due, build, process>>

Text(r) == Letters(req[r].words.words)
\* Mutant: the key of a kept correction is the text alone.
KeyOfText(r) == <<CHOOSE i \in Indexes : TRUE, Text(r)>>

Key(r) == <<req[r].index, Text(r)>>
Kept(r) == \E e \in DOMAIN typos : e = Key(r)
Keep(r, to) == typos' = [k \in DOMAIN typos \cup {Key(r)} |->
                            IF k = Key(r) THEN to ELSE typos[k]]
Answer(r, to) == req' = [req EXCEPT ![r].at = "done", ![r].to = to]

\* correctQuery: a kept correction, a hardcoded one, the best term of the
\* index, or, without terms, a query to the database.  What is found, but for
\* the database's, is kept for good.
Judge(r) ==
    LET i == req[r].index
        none == sym[Reader][i] \in {None, {}}
    IN
    /\ req[r].at = "judge"
    /\ \/ /\ LikelyCorrect(req[r].words, words) \/ Len(Text(r)) <= 3
          /\ Answer(r, NoTypo)
          /\ UNCHANGED typos
       \/ /\ ~LikelyCorrect(req[r].words, words) /\ Len(Text(r)) > 3
          /\ \/ Kept(r) /\ Answer(r, typos[Key(r)]) /\ UNCHANGED typos
             \/ /\ ~Kept(r) /\ Text(r) \in DOMAIN Mapped
                /\ Answer(r, Mapped[Text(r)])
                /\ Keep(r, Mapped[Text(r)])
             \/ /\ ~Kept(r) /\ Text(r) \notin DOMAIN Mapped /\ ~none
                /\ \E to \in Corrections(Text(r), sym[Reader][i]) :
                    Answer(r, to) /\ Keep(r, to)
             \/ /\ ~Kept(r) /\ Text(r) \notin DOMAIN Mapped /\ none
                /\ req' = [req EXCEPT ![r].at = "fallback"]
                /\ UNCHANGED typos
    /\ UNCHANGED <<rest, file, dict, sym, due, build, words, process, troubles>>

\* databaseFallbackCorrection: an answer within 500 ms, or no correction.
Fallback(r) ==
    /\ req[r].at = "fallback"
    /\ \/ /\ \E to \in FallbackCorrections(Text(r), AllTerms(req[r].index)) : Answer(r, to)
          /\ Fine
       \/ Answer(r, NoTypo) /\ Trouble
    /\ UNCHANGED <<rest, file, dict, sym, typos, due, build, words, process>>

\* findUltraFastSuggestions for a client that types: the materialized view,
\* and without a result of it the documents themselves, where a failure is no
\* suggestion.  One of the suggestions stands for all.
Suggest(r, i, q) ==
    /\ process = "up"
    /\ req[r].at = "idle"
    /\ LET similar == {t \in view[i] : Similar[<<Letters(q.words), t>>] > 10} IN
        req' = [req EXCEPT ![r].index = i, ![r].words = q,
                           ![r].at = IF similar = {} THEN "direct" ELSE "view"]
    /\ UNCHANGED <<rest, file, dict, sym, typos, due, build, words, process, troubles>>

ViewAnswers(r) ==
    /\ req[r].at = "view"
    /\ \/ /\ Fine
          /\ \E t \in {t \in view[req[r].index] : Similar[<<Text(r), t>>] > 10} : Answer(r, t)
       \/ Trouble /\ req' = [req EXCEPT ![r].at = "direct"]
    /\ UNCHANGED <<rest, file, dict, sym, typos, due, build, words, process>>

DirectAnswers(r) ==
    /\ req[r].at = "direct"
    /\ LET near == {t \in stored[req[r].index][1] :
                       Similar[<<Text(r), t>>] > 20 \/ Distances[Text(r), t] <= 2}
       IN  \/ near # {} /\ Fine /\ \E t \in near : Answer(r, t)
           \/ near = {} /\ Fine /\ Answer(r, NoTypo)
           \/ Trouble /\ Answer(r, NoTypo)
    /\ UNCHANGED <<rest, file, dict, sym, typos, due, build, words, process>>

Done(r) ==
    /\ req[r].at = "done"
    /\ req' = [req EXCEPT ![r] = Idle]
    /\ UNCHANGED <<rest, file, dict, sym, typos, due, build, words, process, troubles>>

\* A write adds a term to a field or takes the last document with it away;
\* the view is refreshed by hand.
Write(i, f, t) ==
    /\ Trouble
    /\ stored' = [stored EXCEPT ![i][f] = IF t \in @ THEN @ \ {t} ELSE @ \cup {t}]
    /\ ever' = [ever EXCEPT ![i] = @ \cup {t}]
    /\ UNCHANGED <<memory, view, file>>

RefreshView ==
    /\ view' = [i \in Indexes |-> AllTerms(i)]
    /\ UNCHANGED <<memory, stored, file, ever, troubles>>

Service ==
    \/ NextIndex
    \/ \E b \in Builders : ExtractField(b) \/ PublishAndSave(b)
    \/ \E r \in Clients :
        \/ LoadDictionary(r) \/ Judge(r) \/ Fallback(r)
        \/ ViewAnswers(r) \/ DirectAnswers(r) \/ Done(r)

Next ==
    \/ Start \/ Service \/ Crash \/ RefreshView
    \/ \E r \in Admins, i \in Indexes : Rebuild(r, i)
    \/ \E r \in Clients, i \in Indexes, q \in Queries : Ask(r, i, q) \/ Suggest(r, i, q)
    \/ \E c \in Changes : Write(c[1], c[2], c[3])

Spec == Init /\ [][Next]_vars

\* A process that is up gets answers from its database and its disk, or errors,
\* and goes on; nobody has to ask, write, refresh or restart.
Fairness ==
    /\ WF_vars(NextIndex)
    /\ \A b \in Builders : WF_vars(ExtractField(b)) /\ WF_vars(PublishAndSave(b))
    /\ \A r \in Clients :
        WF_vars(LoadDictionary(r) \/ Judge(r) \/ Fallback(r) \/ ViewAnswers(r)
                    \/ DirectAnswers(r) \/ Done(r))

FairSpec == Spec /\ Fairness
-----------------------------------------------------------------------------
\* A correction or a suggestion is a hardcoded one, or a term that a document
\* of the index that was searched has or had, or that the dictionary.json the
\* service was installed with has for that index (its terms are used as they
\* are, typo-tolerance.service.ts:124): what is kept of one index, or of an
\* earlier state of it, never answers for another one.
CorrectionsExist ==
    \A r \in Clients :
        req[r].at = "done" /\ req[r].to # NoTypo =>
            req[r].to \in ever[req[r].index] \cup {Mapped[w] : w \in DOMAIN Mapped}

\* The texts that one insertion, deletion or substitution makes of those in S.
Alphabet == UNION {ToSet(t) : t \in Terms \cup TextsAsked}
Edited(S) ==
    S \cup UNION {{RemoveAt(s, k) : k \in DOMAIN s} : s \in S}
      \cup UNION {{ReplaceAt(s, k, c) : k \in DOMAIN s, c \in Alphabet} : s \in S}
      \cup UNION {{InsertAt(s, k, c) : k \in 1 .. Len(s) + 1, c \in Alphabet} : s \in S}
TwoEditsOf == [q \in TextsAsked |-> Edited(Edited({q})) \cap Terms]


\* A rebuild takes the terms of the index away first.  Once it has read any, it
\* ends with terms for the index, whichever other fields can not be read, unless
\* the process dies; an empty dictionary serves nobody (symSpell.size,
\* typo-tolerance.service.ts:343).
RebuildServes ==
    \A r \in Admins, i \in Indexes :
        build[r].index = i /\ build[r].set # {}
            ~> \/ req[r].at = "idle" /\ sym[Reader][i] \notin {None, {}}
               \/ process = "down"
===============================================================================
