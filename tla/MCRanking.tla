------------------------------ MODULE MCRanking -------------------------------
(* An instance of Ranking for TLC.  Letters are numbers; the query is the   *)
(* two words "1 2 3" and "4 5", or the first of them.                       *)
EXTENDS Ranking, TLC

CONSTANTS full, part, words, typo, else, huge, bad

one == <<1, 2, 3>>
two == <<4, 5>>
off == <<1, 2, 6>>

MCDocs == {full, part, words, typo, else, huge, bad}
Plain(name) == [name |-> name, confirmed |-> FALSE, featured |-> FALSE,
                health |-> 0, rating |-> 0, fresh |-> 2]
Best(name) == [name |-> name, confirmed |-> TRUE, featured |-> TRUE,
               health |-> 100, rating |-> 5, fresh |-> 10]
MCBusiness == (full :> Plain(<<one, two>>)) @@ (part :> Plain(<< <<7>> \o one>>))
           @@ (words :> Best(<<two \o <<8>>, one>>)) @@ (typo :> Plain(<<off, <<4>> >>))
           @@ (else :> Best(<< <<7, 8>> >>)) @@ (bad :> Best(Unreadable))
           @@ (huge :> [Best(<< <<7, 8>> >>) EXCEPT !.health = 20000, !.rating = 900])

Found(d, s) == [doc |-> d, score |-> s]
Fresh(q, list) == [query |-> q, hits |-> list, total |-> Len(list), cached |-> FALSE]
Many(list) == [list EXCEPT !.total = 9]  \* the engine counted more rows
Cached(list) == [list EXCEPT !.cached = TRUE]
Plan(q, t, lists, where) == [query |-> q, typo |-> t, lists |-> lists, located |-> where]

both == <<one, two>>
list4 == <<Found(else, 3), Found(typo, 2), Found(words, 1), Found(full, 1)>>
bad2 == <<Found(bad, 3), Found(part, 1)>>
bad4 == <<Found(typo, 2), Found(bad, 3), Found(words, 1), Found(full, 1)>>
pair == <<Found(else, 9), Found(part, 0)>>

\* One list for the text that was asked, or for its correction.
OneList == {
    Plan(both, NoTypo, <<Fresh(both, list4)>>, TRUE),
    Plan(both, both, <<Fresh(both, list4)>>, FALSE),
    Plan(<<one>>, NoTypo, <<Fresh(<<one>>, <<Found(else, 9), Found(typo, 0), Found(part, 0)>>)>>, FALSE),
    Plan(<<one>>, <<two>>, <<Many(Fresh(<<one>>, pair))>>, TRUE),
    Plan(<<one>>, NoTypo, <<Fresh(<<one>>, pair \o <<Found(huge, 1), Found(full, 1)>>)>>, FALSE),
    Plan(<<one>>, <<two>>, <<Many(Fresh(<<one>>, bad2))>>, FALSE),
    Plan(both, NoTypo, <<Fresh(both, bad4)>>, FALSE)}

\* Those of two suggestions, the first of which is the correction.
TwoLists == {
    Plan(both, both, <<Fresh(both, list4), Fresh(<<one>>, <<Found(full, 3), Found(part, 1)>>)>>, FALSE),
    Plan(<<one>>, <<one>>, <<Fresh(<<one>>, bad2), Fresh(both, list4)>>, FALSE),
    Plan(<<one>>, <<one>>, <<Many(Fresh(<<one>>, pair)), Fresh(both, bad4)>>, FALSE),
    Plan(<<one>>, <<one>>,
         <<Cached(Fresh(<<one>>, bad2)), Many(Fresh(both, <<Found(full, 1)>>))>>, TRUE),
    Plan(<<one>>, <<one>>, <<Fresh(<<one>>, <<>>), Fresh(both, <<>>)>>, TRUE)}
MCPlans == OneList \cup TwoLists
===============================================================================
