----------------------------- MODULE MCSpecialists ------------------------------
(* Two stays, two permits, three pairs of a window and two attempts. *)
EXTENDS Specialists

MCAttempts == [duffel |-> 2, hotelbeds |-> 2, rates |-> 2, maps |-> 1]
MCAnswers == [duffel |-> {<<>>, <<7>>, <<9, 5>>}, hotelbeds |-> {<<>>, <<4>>},
              rates |-> {<<>>, <<4>>}, maps |-> {<<>>, <<1>>}]
\* Windows of three to six departures, sampled by at most three, one that is too
\* short for its trip, and one that ends before it begins.
Singles(k) == {<<t>> : t \in Tools[k]}
MCRounds ==
    [flights |-> Singles("flights") \cup {<<"search", "window">>, <<"month", "confirm">>},
     hotels |-> Singles("hotels"),
     restaurants |-> Singles("restaurants") \cup {<<"nearby", "places">>},
     activities |-> Singles("activities") \cup {<<"nearby", "places">>},
     transportation |-> {<<"route">>, <<"route", "route">>}]
MCMaxRounds == [flights |-> 1, hotels |-> 2, restaurants |-> 2, activities |-> 2,
                transportation |-> 2]

MCAsked == [latest : {2, 4}, duration : {1, 3}, asked : {2, 31}]
            \cup {[latest |-> 6, duration |-> 2, asked |-> 31],
                  [latest |-> 3, duration |-> 2, asked |-> 0],
                  [latest |-> 1, duration |-> 3, asked |-> 3],
                  [latest |-> -1, duration |-> 1, asked |-> 3]}
=============================================================================
