----------------------------- MODULE TextAnalysis -----------------------------
(***************************************************************************)
(* The standard analyzer, which queries go through.  A text is a sequence  *)
(* of atoms: words (what \w+ matches), marks of punctuation and blanks, no *)
(* two words side by side.  A term is a non-empty text in lower case.      *)
(***************************************************************************)
EXTENDS Integers, Sequences, FiniteSets, SequencesExt

CONSTANTS
    Marks,          \* the atoms that are punctuation marks
    Lower,          \* the words that have capitals -> the words in lower case
    Stopwords       \* of the standard analyzer

Blank == " "

\* What stands at some places of a sequence, in its order.
Chosen(seq, places) ==
    LET Place(i) == Cardinality({j \in places : j <= i})
    IN  [k \in 1 .. Cardinality(places) |-> seq[CHOOSE i \in places : Place(i) = k]]

IsWord(a) == a \notin Marks \cup {Blank}

\* What is in lower case has no capitals.
ASSUME LowerAssumption ==
    /\ Lower \in [DOMAIN Lower -> STRING]
    /\ \A w \in DOMAIN Lower :
          IsWord(w) /\ IsWord(Lower[w]) /\ Lower[w] \notin DOMAIN Lower

InLower(text) ==
    [i \in DOMAIN text |-> IF text[i] \in DOMAIN Lower THEN Lower[text[i]] ELSE text[i]]

Solid(text) == \E i \in DOMAIN text : text[i] # Blank
Trim(text) ==
    LET in == {i \in DOMAIN text : text[i] # Blank}
    IN  IF in = {} THEN <<>> ELSE SubSeq(text, Min(in), Max(in))

\* split(/\s+/), without empty words.  The text is read atom by atom; what is
\* known of it are the words that have ended and the one that goes on.
Ended(st) ==
    IF st.open = <<>> THEN st ELSE [over |-> Append(st.over, st.open), open |-> <<>>]
ReadAtom(st, a) ==
    IF a = Blank THEN Ended(st) ELSE [over |-> st.over, open |-> Append(st.open, a)]
ReadAtoms(st, text) ==
    LET read[n \in 0 .. Len(text)] ==
            IF n = 0 THEN st ELSE ReadAtom(read[n - 1], text[n])
    IN  read[Len(text)]
Unread == [over |-> <<>>, open |-> <<>>]
Tokens(text) == Ended(ReadAtoms(Unread, text)).over

JoinTokens(tokens) ==
    LET join[n \in 0 .. Len(tokens)] ==
            IF n = 0 THEN <<>>
            ELSE IF n = 1 THEN tokens[1]
            ELSE join[n - 1] \o <<Blank>> \o tokens[n]
    IN  join[Len(tokens)]

\* split(/\b|\s+/): a word is a piece of its own; marks stay together, and with
\* the blank between them and the word before.  What is all blanks is left out.
NextPiece(pieces, text, i) ==
    LET afterWord == i > 1 /\ IsWord(text[i - 1])
    IN  IF text[i] = Blank /\ ~afterWord THEN Append(pieces, <<>>)
        ELSE IF i = 1 \/ afterWord \/ IsWord(text[i]) THEN Append(pieces, <<text[i]>>)
        ELSE [pieces EXCEPT ![Len(pieces)] = Append(@, text[i])]
Pieces(text) ==
    LET split[n \in 0 .. Len(text)] ==
            IF n = 0 THEN <<>> ELSE NextPiece(split[n - 1], text, n)
        pieces == split[Len(text)]
    IN  Chosen(pieces, {k \in DOMAIN pieces : Solid(pieces[k])})

IsStopword(term) == Len(term) = 1 /\ term[1] \in Stopwords

StandardAnalyzer(text) ==
    LET pieces == Pieces(text)
        terms == [k \in DOMAIN pieces |-> InLower(pieces[k])]
    IN  Chosen(terms, {k \in DOMAIN terms : ~IsStopword(terms[k])})
===============================================================================
