------------------------------- MODULE SqlScript -------------------------------
(***************************************************************************)
(* How the lines of an optimization script are grouped into the statements *)
(* that are sent to PostgreSQL one by one (cleanScript, parseStatements of *)
(* DatabaseOptimizationService; the debug controller has the same loop     *)
(* twice more).  A line is what the loop's patterns find in it.            *)
(***************************************************************************)
EXTENDS Integers, Sequences, SequencesExt

\* Besides the lines below there are "text", SQL of which the statement is not
\* at an end, and those that open a block; "CREATE FUNCTION" is a header whose
\* AS $$ is on another line.
Notes == {"blank", "-- note", "-- note;"}
Psql  == {"BEGIN;", "COMMIT;", "\\timing on"}
Ends == {"text;", "-- note;", "END $$;", "$$ LANGUAGE;"}

\* cleanScript and cleanSearchPerformanceScript leave nothing of psql's lines
\* and of those that begin or end a transaction.
CleanLine(line) == IF line \in Psql THEN "blank" ELSE line

\* The block a line opens outside of a block: DO, or a function if its header
\* is in this line or before it in the statement.
Opened(statement, line) ==
    CASE line = "DO $$" -> "do"
      [] line \in {"RETURNS AS $$", "CREATE FUNCTION AS $$"} -> "function"
      [] line = "AS $$" /\ Contains(statement, "CREATE FUNCTION") -> "function"
      [] OTHER -> "none"

Closes(block, line) ==
    \/ block = "do" /\ line = "END $$;"
    \/ block = "function" /\ line \in {"$$ LANGUAGE;", "$$ LANGUAGE"}

Reading == [statement |-> <<>>, block |-> "none", read |-> <<>>]

\* Mutant: blocks are not looked for.
ReadLineOnly(st, line) ==
    LET statement == Append(st.statement, line)
    IN  IF st.statement = <<>> /\ line \in Notes THEN st
        ELSE IF line \in Ends
        THEN [st EXCEPT !.statement = <<>>, !.read = Append(@, statement)]
        ELSE [st EXCEPT !.statement = statement]

\* The loop of parseStatements.  Notes between statements are skipped; a line
\* that ends with ';' ends the statement, unless it is in a block.
ReadLine(st, line) ==
    LET statement == Append(st.statement, line)
        block == CASE st.block = "none"         -> Opened(st.statement, line)
                   [] Closes(st.block, line)    -> "none"
                   [] OTHER                     -> st.block
    IN  IF st.statement = <<>> /\ line \in Notes THEN st
        ELSE IF block = "none" /\ line \in Ends
        THEN [statement |-> <<>>, block |-> block, read |-> Append(st.read, statement)]
        ELSE [statement |-> statement, block |-> block, read |-> st.read]

\* The lines are cleaned and read one after the other.
ReadLines(st, lines) ==
    LET read[n \in 0..Len(lines)] ==
            IF n = 0 THEN st ELSE ReadLine(read[n - 1], CleanLine(lines[n]))
    IN  read[Len(lines)]

\* What is left at the end is a statement as well.
ParseStatements(lines) ==
    LET st == ReadLines(Reading, lines)
    IN  IF st.statement = <<>> THEN st.read ELSE Append(st.read, st.statement)
-------------------------------------------------------------------------------
\* The forms of the statements of both scripts, and what is between two of them.
Written ==
    {<<"text;">>, <<"text", "-- note", "text;">>, <<"text", "blank", "text;">>,
     <<"DO $$", "text", "text;", "END $$;">>,
     <<"CREATE FUNCTION AS $$", "text;", "$$ LANGUAGE;">>,
     <<"CREATE FUNCTION", "text", "AS $$", "text", "text;", "$$ LANGUAGE;">>,
     <<"CREATE FUNCTION", "RETURNS AS $$", "text;", "$$ LANGUAGE", "text;">>}
Between == {<<>>} \cup {<<line>> : line \in Notes \cup Psql}
Rest == {<<>>, <<"text">>}

\* Every script of such statements is split into just them: a block is one
\* statement, with the semicolons in it, no two are one, and none is lost, the
\* last one neither if it has no semicolon.
SplitAsWritten ==
    \A a, b \in Written, x, y, z \in Between, last \in Rest :
        ParseStatements(x \o a \o y \o b \o z \o last)
            = IF last = <<>> THEN <<a, b>> ELSE <<a, b, last>>
===============================================================================
