----------------------------- MODULE FieldAnalysis -----------------------------
(***************************************************************************)
(* What DocumentService finds in documents that come for an index without  *)
(* mappings: the paths of their fields and the types of these.             *)
(*                                                                         *)
(* A value is a record of its kind; an object is a sequence of fields in   *)
(* the order of the JSON text.  A path is a sequence of keys.  A key is    *)
(* known by the patterns it contains, a string by the test it passes.      *)
(***************************************************************************)
EXTENDS Naturals, Sequences, FiniteSets, SequencesExt

\* source. at the front of a path is left out, at every level.
Flatten(path) == IF Len(path) > 1 /\ path[1] = "source" THEN Tail(path) ELSE path

\* A string with its test: of up to 50 characters without a blank or not, the
\* name of its field included or not.
DetermineStringType(form) == IF form = "phrase" THEN "text" ELSE "keyword"
IsEmailField(key, form) == key = "email" /\ form = "email"
IsUrlField(form) == form = "url"
IsDateField(form) == form \in {"day", "epoch"}

Strings == {"word", "phrase", "email", "url", "day", "epoch"}
TypeOf(key, kind) ==
    IF kind \notin Strings THEN kind
    ELSE IF IsEmailField(key, kind) \/ IsUrlField(kind) THEN "keyword"
    ELSE IF IsDateField(kind) THEN "date"
    ELSE DetermineStringType(kind)

\* Of an array only the first element counts, as a field "array" of its own.
Inner(value) ==
    CASE value.kind = "object"                       -> value.fields
      [] value.kind = "array" /\ value.items # <<>>  ->
            << [key |-> "array", value |-> value.items[1]] >>
      [] OTHER                                       -> <<>>

\* The leaves of an object, in the order in which they are met.
RECURSIVE Leaves(_, _)
Leaves(fields, prefix) ==
    FlattenSeq([i \in DOMAIN fields |->
        LET path == Flatten(Append(prefix, fields[i].key))
            kind == fields[i].value.kind
        IN  IF kind \in {"null", "object", "array"}
            THEN Leaves(Inner(fields[i].value), path)
            ELSE << [path |-> path, type |-> TypeOf(fields[i].key, kind)] >>])

\* The Map fieldTypes: a path keeps its first place and its last type.
AnalyzeDocumentFields(docs) ==
    LET leaves == FlattenSeq([i \in DOMAIN docs |-> Leaves(docs[i], <<>>)])
        paths == FoldLeft(LAMBDA s, leaf : IF leaf.path \in ToSet(s) THEN s
                                           ELSE Append(s, leaf.path), <<>>, leaves)
        LastLeaf(path) == SelectLastInSeq(leaves, LAMBDA leaf : leaf.path = path)
    IN  [i \in DOMAIN paths |-> [path |-> paths[i], type |-> leaves[LastLeaf(paths[i])].type]]

===============================================================================
