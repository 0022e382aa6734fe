------------------------------ MODULE ProviderCalls -----------------------------
(***************************************************************************)
(* The tools of the specialists and the requests they send: Duffel behind  *)
(* a semaphore, Hotelbeds, Google Places and Routes, each with the         *)
(* failures its decorator tries again and those its tool catches.  A tool  *)
(* call ends in a text; of a text only what later code looks for is kept.  *)
(***************************************************************************)
EXTENDS DatePairs, Ranks, Sequences, Functions

CONSTANTS
    Runs,      \* executors of one discovery stage, a stay each for hotels
    Permits,   \* of _duffel_semaphore
    Attempts,  \* by provider, stop_after_attempt
    Answers,   \* by provider, what a request may bring: sequences of amounts
    Asked,     \* the windows a model asks for
    MonthDays, \* 4, the days of a month that are sampled
    Shown      \* 5, the offers a tool shows

\* The services requests go to: CheckRates has a decorator of its own.
Providers == {"duffel", "hotelbeds", "rates", "maps"}

ASSUME TransportAssumption ==
    /\ IsFiniteSet(Runs) /\ Runs # {}
    /\ Permits \in Nat \ {0} /\ Shown \in Nat \ {0} /\ MonthDays \in Nat
    /\ Attempts \in [Providers -> Nat \ {0}]
    /\ Answers \in [Providers -> SUBSET Seq(Int)]
    /\ Asked \subseteq Windows

VARIABLE
    calls  \* by run, the tool calls of the round in progress

Failures == {"busy", "refused", "lost"}  \* 429 and 5xx, any other 4xx, RequestError

\* What retry= of each decorator accepts; Places and Routes have none.
Retried == [duffel |-> {"busy"}, hotelbeds |-> {"lost"}, rates |-> {"lost"},
            maps |-> {}]

Request(to, day) ==
    [to |-> to, day |-> day, phase |-> "waiting", tries |-> 0, end |-> "none",
     offers |-> <<>>]

Ended(q) == q.phase = "ended"
Found(q) == q.end = "answer" /\ q.offers # <<>>

Call(tool, window, requests) ==
    [tool |-> tool, window |-> window, requests |-> requests, text |-> "none"]

NoWindow == [latest |-> 0, duration |-> 1, asked |-> 1]

Requests(r, c) == calls[r][c].requests

\* Where a request may stand: a window sends PairLimit at most, a month one for
\* each of its days, any other tool two.
Positions == (1..PairLimit) \cup (1..MonthDays) \cup (1..2)
Slots == Runs \X (1..2) \X Positions
IsSent(r, c, i) == c \in DOMAIN calls[r] /\ i \in DOMAIN Requests(r, c)
IsOut(q) == q.to = "duffel" /\ q.phase = "posted"

\* Mutant: a request that failed keeps its permit.
HeldForGood == {slot \in Slots : IsSent(slot[1], slot[2], slot[3]) /\
    LET q == Requests(slot[1], slot[2])[slot[3]] IN
      IsOut(q) \/ (q.to = "duffel" /\ q.end \in {"refused", "lost"})}

\* async with _duffel_semaphore: held while the request is out, not in a backoff.
Held == {slot \in Slots :
    IsSent(slot[1], slot[2], slot[3]) /\ IsOut(Requests(slot[1], slot[2])[slot[3]])}

-----------------------------------------------------------------------------
(* Requests. *)

Put(r, c, i, q) == calls' = [calls EXCEPT ![r][c].requests[i] = q]

Post(r, c, i) ==
    LET q == Requests(r, c)[i] IN
      /\ q.phase = "waiting"
      /\ q.to = "duffel" => Cardinality(Held) < Permits
      /\ Put(r, c, i, [q EXCEPT !.phase = "posted"])

Answer(r, c, i) ==
    LET q == Requests(r, c)[i] IN
      /\ q.phase = "posted"
      /\ \E offers \in Answers[q.to] :
           Put(r, c, i, [q EXCEPT !.phase = "ended", !.tries = 0, !.end = "answer",
                                  !.offers = offers])

\* A failure its decorator does not try again is raised as it is, ...
Fail(r, c, i) ==
    LET q == Requests(r, c)[i] IN
      /\ q.phase = "posted"
      /\ \E f \in Failures \ Retried[q.to] :
           Put(r, c, i, [q EXCEPT !.phase = "ended", !.tries = 0, !.end = f])

\* ... another sleeps and is tried again, or is wrapped in a RetryError.
Retry(r, c, i) ==
    LET q == Requests(r, c)[i] IN
      /\ q.phase = "posted" /\ Retried[q.to] # {}
      /\ Put(r, c, i,
             IF q.tries + 1 < Attempts[q.to]
             THEN [q EXCEPT !.phase = "asleep", !.tries = @ + 1]
             ELSE [q EXCEPT !.phase = "ended", !.tries = 0, !.end = "spent"])

Wake(r, c, i) ==
    LET q == Requests(r, c)[i] IN
      q.phase = "asleep" /\ Put(r, c, i, [q EXCEPT !.phase = "waiting"])

RequestStep(r, c, i) ==
    Post(r, c, i) \/ Answer(r, c, i) \/ Fail(r, c, i) \/ Retry(r, c, i) \/ Wake(r, c, i)
-----------------------------------------------------------------------------
(* Tool calls. *)

One(tool, to) == {Call(tool, NoWindow, <<Request(to, 0)>>)}
AtOnce(tool) == {[Call(tool, NoWindow, <<>>) EXCEPT !.text = "neutral"]}

\* asyncio.gather over the pairs of the window, in the order of their days.
WindowCall(w) ==
    LET days == Ascending(Departures(TotalPairs(w), Limit(w))) IN
      IF WindowIsValid(w) /\ TotalPairs(w) > 0
      THEN {Call("window", w, [i \in DOMAIN days |-> Request("duffel", days[i])])}
      ELSE AtOnce("window")

\* The days of a month that are sampled: the 1st, 8th, 15th and 22nd to come.
MonthCall(n) ==
    IF n = 0 THEN AtOnce("month")
    ELSE {Call("month", [NoWindow EXCEPT !.asked = n], <<Request("duffel", 1)>>)}

\* The tools as they start.  A nearby search may not know the place or the type
\* it is asked for, and a route by public transport takes no stops between.
SearchFlights == One("search", "duffel")
GetCheapestFlight == One("cheapest", "duffel")
ConfirmFlightPrice == One("confirm", "duffel")
SearchNearbyAirports == One("airports", "duffel")
LookupIataCode == AtOnce("lookup")
SearchHotels == One("hotels", "hotelbeds")
CheckHotelRate == One("rates", "rates")
SearchPlacesText == One("places", "maps")
SearchPlacesNearby == One("nearby", "maps") \cup AtOnce("nearby")
SearchDatedEvents == AtOnce("events")
ComputeRoute == One("route", "maps") \cup AtOnce("route")

Started(tool) ==
    CASE tool = "search" -> SearchFlights
      [] tool = "cheapest" -> GetCheapestFlight
      [] tool = "window" -> UNION {WindowCall(w) : w \in Asked}
      [] tool = "month" -> UNION {MonthCall(n) : n \in 0..MonthDays}
      [] tool = "confirm" -> ConfirmFlightPrice
      [] tool = "airports" -> SearchNearbyAirports
      [] tool = "lookup" -> LookupIataCode
      [] tool = "hotels" -> SearchHotels
      [] tool = "rates" -> CheckHotelRate
      [] tool = "places" -> SearchPlacesText
      [] tool = "nearby" -> SearchPlacesNearby
      [] tool = "events" -> SearchDatedEvents
      [] tool = "route" -> ComputeRoute

\* The next request of a tool that sends one after another.
Following(call) ==
    LET n == Len(call.requests) IN
      CASE call.tool = "month" /\ n < call.window.asked
             /\ call.requests[n].end # "lost" -> {Request("duffel", n + 1)}
        [] call.tool = "confirm" /\ n = 1 /\ Found(call.requests[1]) ->
             {Request("duffel", 0)}
        [] OTHER -> {}

\* Exceptions that no except clause of the tool catches.
Uncaught(call) ==
    \E q \in Range(call.requests) :
      \/ q.end = "lost" /\ q.to = "duffel" /\ call.tool # "window"
      \/ q.end = "spent" /\ q.to \in {"hotelbeds", "rates"}

\* What the text of a failure may match: Duffel's own words are passed on.
FailureTexts(call, q) ==
    CASE q.to = "duffel" -> IF q.end = "spent" THEN {"neutral"} ELSE {"neutral", "external"}
      [] q.to = "rates" /\ q.end = "refused" -> {"neutral"}
      [] call.tool = "nearby" /\ q.end = "refused" -> {"neutral", "external"}
      [] OTHER -> {"external"}

Nothing(call) ==
    IF call.tool \in {"airports", "rates", "nearby", "route"} THEN "neutral" ELSE "nothing"

Texts(call) ==
    LET all == call.requests
        last == all[Len(all)] IN
      CASE call.tool = "window" ->
             IF \E q \in Range(all) : Found(q) THEN {"found"}
             ELSE IF \A q \in Range(all) : q.end # "answer" THEN {"neutral"}
             ELSE {"nothing"}
        [] call.tool = "month" ->
             IF \E q \in Range(all) : Found(q) THEN {"found"} ELSE {"nothing"}
        [] OTHER ->
             IF last.end # "answer" THEN FailureTexts(call, last)
             ELSE IF last.offers # <<>> THEN {"found"}
             ELSE IF Len(all) = 2 THEN {"neutral"} ELSE {Nothing(call)}

\* Tools whose text carries places as PLACE_RESULTS_JSON.
HasPlaces(call) == call.tool \in {"places", "nearby"} /\ call.text = "found"

-----------------------------------------------------------------------------
(* The offers a flight search passes on as JSON. *)

\* Mutant: the offers stay in the order they came in.
AsTheyCame(options) == options

\* Equal amounts stay in the order they came in.
ByAmount(options) ==
    LET places == DOMAIN options
        cheaper == {p \in places \X places :
                      \/ options[p[1]].amount < options[p[2]].amount
                      \/ options[p[1]].amount = options[p[2]].amount /\ p[1] < p[2]}
        order == InOrder(places, cheaper)
    IN [k \in DOMAIN order |-> options[order[k]]]

Top(options) == SubSeq(options, 1, IF Len(options) < Shown THEN Len(options) ELSE Shown)

OffersOf(q) == [k \in DOMAIN q.offers |-> [day |-> q.day, amount |-> q.offers[k]]]

\* min over the offers of a pair
CheapestOf(q) == ByAmount(OffersOf(q))[1]

Options(call) ==
    CASE call.tool = "search" -> Top(ByAmount(OffersOf(call.requests[1])))
      [] call.tool = "window" ->
           LET found == Picks(call.requests,
                              {i \in DOMAIN call.requests : Found(call.requests[i])}) IN
             Top(ByAmount([i \in DOMAIN found |-> CheapestOf(found[i])]))
      [] OTHER -> <<>>

-----------------------------------------------------------------------------

Send(r, c) ==
    LET call == calls[r][c] IN
      /\ call.text = "none" /\ \A q \in Range(call.requests) : Ended(q)
      /\ \E q \in Following(call) :
           calls' = [calls EXCEPT ![r][c].requests = Append(@, q)]

\* The text of a call that is over; an offer_index out of range ends it early.
ReportText(r, c) ==
    LET call == calls[r][c] IN
      /\ call.text = "none" /\ \A q \in Range(call.requests) : Ended(q)
      /\ ~Uncaught(call)
      /\ \/ Following(call) = {} /\ \E t \in Texts(call) :
              calls' = [calls EXCEPT ![r][c].text = t]
         \/ Following(call) # {} /\ call.tool = "confirm"
            /\ calls' = [calls EXCEPT ![r][c].text = "neutral"]
=============================================================================
