------------------------------ MODULE MCTripPlan ------------------------------
(* A small world for TripPlan: two cities, three places, four trips. *)
EXTENDS TripPlan

MCCities == {"Rome", "Bari"}

At(day, hour, minute) == (day * 24 + hour) * 60 + minute

\* A museum open from ten to four on every day, a bar open at night from Friday
\* to Sunday, beyond the end of the week, and a beach nobody knows the hours of.
Museum == [id |-> "museum", city |-> "Rome", minutes |-> 120,
           periods |-> {<<At(d, 10, 0), At(d, 16, 0)>> : d \in 0..6}]
Bar == [id |-> "bar", city |-> "Bari", minutes |-> 90,
        periods |-> {<<At(5, 18, 0), At(6, 2, 0)>>, <<At(6, 18, 0), At(0, 2, 0)>>}]
Lido == [id |-> "lido", city |-> "", minutes |-> 240, periods |-> {}]
MCPlaces == {Museum, Bar, Lido}
MCBeaches == {"lido"}

Flight(kind, to, from, until, amount) ==
    [kind |-> kind, to |-> to, from |-> from, until |-> until, amount |-> amount]

MCFlightResults ==
    {{}, {Flight("exact", "Bari", 3, 7, 200), Flight("exact", "Rome", 3, 7, 300)},
     {Flight("window", "Bari", 4, 7, 250), Flight("exact", "Bari", 3, 6, 150)}}

MCPlaceResults == {{}, {Museum, Bar}, {Museum, Lido}}

Trip(cities, first, last, days_, flexible, beaches, want) ==
    [cities |-> cities, first |-> first, last |-> last, days |-> days_,
     flexible |-> flexible, resolved |-> TRUE, rest |-> beaches = 0, beaches |-> beaches,
     mode |-> IF first = 0 THEN "transit" ELSE "",
     fly |-> "fly" \in want, look |-> "look" \in want, hotels |-> "hotels" \in want,
     routed |-> "routed" \in want]

All == {"fly", "look", "hotels", "routed"}
MCRequests ==
    {Trip(<<"Rome", "Bari">>, 3, 7, 0, FALSE, 0, All),
     Trip(<<"Bari", "Rome">>, 0, 0, 4, TRUE, 1, All),
     Trip(<<"Bari">>, 3, 0, 4, FALSE, 0, {"hotels"}),
     Trip(<<"Rome">>, 3, 7, 4, FALSE, 0, {"look"})}

MCDayChoices ==
    {(3 :> <<Museum>>) @@ (4 :> <<Bar>>), 2 :> <<Museum, Lido>>, 3 :> <<Museum, Lido>>,
     4 :> <<Bar>>, (2 :> <<Bar>>) @@ (3 :> <<Lido>>)}
MCLegSeconds == {1790, 10800}

MCRoutes == {<<"Rome", "Bari">>, <<"Bari", "Rome">>, <<"Bari">>, <<"Rome">>}
MCStarts == {3, 4}
MCDurations == {4, 5}
MCDayStops == {<<Museum>>}
MCDayLegs == {<<>>}
=============================================================================
