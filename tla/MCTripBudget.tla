------------------------------ MODULE MCTripBudget ------------------------------
(* Two conversations, three ticks, four trips. *)
EXTENDS TripBudget

Eur(n) == [amount |-> n, currency |-> "EUR"]
Usd(n) == [amount |-> n, currency |-> "USD"]
NoFlight == [id |-> "none", priced |-> FALSE, money |-> Usd(0)]

\* Two stays, one chosen twice and offered twice, and a target in dollars.
Lisbon == [expected |-> {"flights", "accommodation"},
           flight |-> [id |-> "tp", priced |-> TRUE, money |-> Eur(4)],
           options |-> <<[key |-> "r1", money |-> Eur(3)], [key |-> "r1", money |-> Eur(2)],
                         [key |-> "r2", money |-> Usd(2)]>>,
           stays |-> <<[key |-> "r1", supplied |-> {}], [key |-> "r2", supplied |-> {}],
                       [key |-> "r1", supplied |-> {}]>>,
           texts |-> {}, known |-> <<>>, target |-> Usd(40),
           travelers |-> 1, days |-> 4, nights |-> <<2, 1>>, cities |-> <<"a", "b">>,
           contingency |-> 0]
\* The same flight and rate at other prices; one stay carries an older price, so
\* that the messages are read for it.
Repriced == [Lisbon EXCEPT
               !.flight.money = Usd(9),
               !.options = <<[key |-> "r1", money |-> Usd(5)], [key |-> "r2", money |-> Usd(3)]>>,
               !.stays = <<[key |-> "r1", supplied |-> {}], [key |-> "r3", supplied |-> {Usd(2)}]>>,
               !.texts = {[part |-> "hotels", id |-> "r3", money |-> Usd(6)],
                          [part |-> "hotels", id |-> "r3", money |-> Eur(7)]},
               !.target = Eur(30), !.contingency = 50]
\* No skeleton: days are divided over the cities; costs the traveller names.
Ideas == [expected |-> {"accommodation"}, flight |-> NoFlight, options |-> <<>>, stays |-> <<>>,
          texts |-> {}, target |-> Usd(40),
          known |-> <<[category |-> "meals", money |-> Usd(2), scope |-> "per_person_day"],
                      [category |-> "accommodation", money |-> Eur(3), scope |-> "per_person"]>>,
          travelers |-> 2, days |-> 5, nights |-> <<>>, cities |-> <<"a", "b", "c">>,
          contingency |-> 0]
\* Without a target, and without any price.
Bare == [Ideas EXCEPT !.expected = {}, !.known = <<>>, !.target = Usd(NoTarget), !.cities = <<"a">>]

MCTrips == [s |-> {"lisbon", "repriced", "ideas", "bare"}, t |-> {"lisbon"}]
MCArtefacts == [lisbon |-> Lisbon, repriced |-> Repriced, ideas |-> Ideas, bare |-> Bare]
MCMaxRuns == [s |-> 2, t |-> 1]
MCRate == <<2, 3, 2>>
=============================================================================
