------------------------- MODULE MCQueryUnderstanding -------------------------
(* An instance of QueryUnderstanding for TLC: requests as users write them,  *)
(* with phrases, wildcards, capitals, places and services, and the rows of   *)
(* the tables of entities and synonyms that they touch.                      *)
EXTENDS QueryUnderstanding, TLC

MCMarks == {"''", "*", "?", ",", "-", "/"}
MCLower == ("New" :> "new") @@ ("York" :> "york") @@ ("Hotels" :> "hotels")
MCStopwords == {"in", "of", "the", "at"}
MCInside == {<<"delivery", "deliveryman">>, <<"in", "dining">>, <<"me", "mechanic">>,
             <<"book", "booking">>}
MCInflections == <<"hotel">> :> {<<"hotels">>}
MCAmount == ("5" :> 5) @@ ("95" :> 95)
MCMeasured == "5km" :> <<"5", "km">>
MCBusinessTypes ==
    << << <<"restaurant">>, << <<"food">>, <<"dining">> >> >>,
       << <<"hotel">>, << <<"lodging">>, <<"inn">> >> >>,
       << <<"bank">>, << <<"credit", " ", "union">>, <<"atm">> >> >>,
       << <<"mechanic">>, << <<"auto", " ", "repair">> >> >> >>
MCSynonyms ==
    (<<"restaurant">> :> << <<"food">>, <<"dining">>, <<"eatery">> >>)
    @@ (<<"bank">> :> << <<"financial">>, <<"credit", " ", "union">>, <<"atm">> >>)
    @@ (<<"hotel">> :> << <<"accommodation">>, <<"lodging">> >>)
    @@ (<<"delivery">> :> << <<"delivery">>, <<"deliver">> >>)
MCPlain == "title^2" :> "title"
MCPlaces == <<"lagos">> :> "lagos"
MCDistance == [p \in {"nowhere", "lagos", "lekki", "abuja"} \X {"nowhere", "lagos", "lekki", "abuja"} |->
                  IF p[1] = p[2] THEN 0 ELSE IF "abuja" \in {p[1], p[2]} THEN 500000 ELSE 3000]

\* A text of words, with blanks between them.
Spaced(words) == JoinTokens([i \in DOMAIN words |-> <<words[i]>>])
Quoted(text) == <<"''">> \o text \o <<"''">>
MCTexts ==
    {<<>>, <<"*">>, <<" ", "*">>, <<"drug", "*">>, <<"the">>, <<"-", "york">>,
     Spaced(<<"dining", "near", "me">>),
     Spaced(<<"bank", "in", "lagos", "near", "me">>),
     Spaced(<<"Hotels", "around", "me", "within", "5", "km">>),
     Spaced(<<"restaurant", "in", "lagos", "within", "5", "miles">>),
     Spaced(<<"bank", "at", "york", "within", "5km">>),
     Spaced(<<"food", "within", "lagos">>) \o <<",", " ", "bank">>,
     Spaced(<<"mechanic", "deliveryman">>),
     Spaced(<<"bank", "atm", "bank", "of", "the", "york">>),
     <<"5", ",", "-", "5">>, <<"atm", "-", "5", " ", ",", "5">>, <<"95", ",", " ", "5">>,
     Quoted(Spaced(<<"new", "york">>)) \o <<" ", "hotel">>,
     Quoted(Spaced(<<"New", "York">>)) \o <<" ", "New", " ", "bank">>,
     <<"hotel", " ">> \o Quoted(<<" ", "new", " ", " ", "york", " ">>) \o <<"inn">>,
     <<"''", "bank", " ", " ", "the", "-", "york">>,
     Quoted(<<"of", " ", " ", "the">>) \o <<" ", "inn">>,
     <<"inn", " ">> \o Quoted(Spaced(<<"bank", "of", "new", "york">>))}

Raw(form, text, field, fields) == [form |-> form, text |-> text, field |-> field, fields |-> fields]
MCRawQueries ==
    [form : {"string", "match"}, text : MCTexts, field : {NoField},
     fields : {<<"_all">>, <<"title^2", "content">>}]
    \cup [form : {"match", "term", "wildcard", "field wildcard"}, field : {"title^2"},
          fields : {<<"_all">>},
          text : {<<"drug", "*">>, Spaced(<<"New", "York">>),
                  Quoted(Spaced(<<"new", "york">>)) \o <<" ", "hotel">>}]
    \cup {Raw("wildcard text", <<"drug", "*">>, NoField, <<"content">>),
          Raw("wildcard", <<"drug", "*">>, NoField, <<"content">>),
          Raw("match_all", <<>>, NoField, <<"_all">>), Raw("none", <<>>, NoField, <<"_all">>)}

Hit(id, where, name) == [id |-> id, where |-> where, name |-> name]
MCHitLists ==
    {<<Hit("d1", "abuja", <<"abuja">>), Hit("d2", "lagos", <<"lagos">>)>>,
     <<Hit("d1", "nowhere", <<"lagos">>), Hit("d2", "lekki", <<"lekki">>),
       Hit("d3", "lagos", <<"lagos">>)>>}
MCUsers == {<<>>, <<6, 3>>}
===============================================================================
