--------------------------- MODULE MCTypoTolerance ----------------------------
(* An instance of TypoTolerance for TLC: two indexes, four terms, one of     *)
(* them a stop word, two queries.  Letters are numbers.                      *)
EXTENDS TypoTolerance, TLC

CONSTANTS a, b

abcd == <<1, 2, 3, 4>>
abcde == <<1, 2, 3, 4, 5>>
fghij == <<6, 7, 8, 9, 6>>
acb == <<1, 3, 2>>
MCTerms == {abcd, abcde, fghij, acb}
MCStopWords == {acb}

MCCorpora == {(a :> <<{abcd, acb}, {abcde}>>) @@ (b :> <<{}, {fghij}>>)}
\* No dictionary, or one that was made of other documents: the term of b is
\* near a query, and no document of b has it.
MCFiles == {NoDictionaries, (a :> None) @@ (b :> {abcde})}
MCChanges == {<<a, 2, abcde>>, <<b, 1, abcd>>}

\* A long word near two terms, and a query with a correction of its own.
Long == [words |-> <<<<1, 2, 3, 5, 4>>>>, wildcard |-> FALSE, name |-> FALSE]
Site == [words |-> <<<<1, 2, 3>>, <<9, 9, 9>>>>, wildcard |-> FALSE, name |-> FALSE]
MCQueries == {Long, Site}

MCMapped == Letters(Site.words) :> <<9, 9>>
MCKnownTypos == {<<Letters(Long.words), abcde>>}
MCSimilar == [p \in {Letters(q.words) : q \in MCQueries} \X MCTerms |->
                IF p[2] \in {fghij, acb} THEN 0 ELSE IF p[2] = abcd THEN 50 ELSE 15]
===============================================================================
