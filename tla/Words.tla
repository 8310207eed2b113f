-------------------------------- MODULE Words ---------------------------------
(***************************************************************************)
(* Texts and the distances between them, as the search code computes them. *)
(* A word is a non-empty sequence of letters, a text a sequence of words;  *)
(* texts are in lower case, trimmed, one blank between words.              *)
(***************************************************************************)
EXTENDS Integers, Sequences, FiniteSets, SequencesExt

Blank == 0
NoTypo == <<>>  \* no correction

\* The letters of a text, blanks included.
Letters(text) ==
    FoldLeft(LAMBDA s, w : IF s = <<>> THEN w ELSE s \o <<Blank>> \o w, <<>>, text)

\* text.split(/\s+/): the empty text is split into one empty word.
SplitWords(text) == IF text = <<>> THEN << <<>> >> ELSE text

Includes(s, part) ==
    \E i \in 0 .. Len(s) - Len(part) : SubSeq(s, i + 1, i + Len(part)) = part

\* The members of a finite set, listed by a strict total order of them: a
\* member's place is one more than the members before it.
Listed(S, Before(_, _)) ==
    LET placed == {<<1 + Cardinality({y \in S : Before(y, x)}), x>> : x \in S}
    IN  [k \in 1 .. Cardinality(S) |-> (CHOOSE p \in placed : p[1] = k)[2]]

Least(a, b) == IF a < b THEN a ELSE b
Most(a, b) == IF a > b THEN a ELSE b
Upto(n) == [i \in 1 .. n |-> i]
CeilDiv(a, b) == (a + b - 1) \div b


\* The i-th row of the table of edit distances, from the row above.
DistanceRow(s, t, row, i) ==
    FoldLeft(LAMBDA new, j : Append(new, IF s[i] = t[j] THEN row[j]
                                         ELSE 1 + Least(row[j], Least(new[j], row[j + 1]))),
             <<i>>, Upto(Len(t)))

\* levenshteinDistance: insertions, deletions and substitutions.
Levenshtein(s, t) ==
    LET Row(row, i) == DistanceRow(s, t, row, i)
    IN  FoldLeft(Row, [j \in 1 .. Len(t) + 1 |-> j - 1], Upto(Len(s)))[Len(t) + 1]

\* calculateLevenshteinDistance: gives up on lengths that differ by more
\* than 3.
QuickDistance(s, t) ==
    LET gap == IF Len(s) > Len(t) THEN Len(s) - Len(t) ELSE Len(t) - Len(s)
    IN  IF gap > 3 THEN gap ELSE Levenshtein(s, t)
===============================================================================
