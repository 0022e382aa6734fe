------------------------------- MODULE TripPlan -------------------------------
(***************************************************************************)
(* A trip from its request to a plan on the clock: the artifacts that      *)
(* trip_skeleton_node, the hotel searches, draft_itinerary_node,           *)
(* transportation_node and itinerary_node hand to one another, over        *)
(* several requests of one conversation.  The nights are divided by        *)
(* CityStays and each day is scheduled by DaySchedule.  What a request     *)
(* does not replace stays from the one before it: the evidence of a        *)
(* component that is not searched again, the hotel searches of a longer    *)
(* trip, the routes of an earlier draft, feedback nobody acted on.         *)
(***************************************************************************)
EXTENDS CityStays, DaySchedule, SequencesExt

CONSTANTS
    Requests,       \* TripRequests: cities, first, last, days, flexible, resolved,
                    \* rest, beaches, mode, and fly, look, hotels, routed
    FlightResults,  \* what a flight search may find: sets of offers
    PlaceResults,   \* what the place searches may find: sets of Places
    DayChoices,     \* day selections the model proposes: day -> stops
    LegSeconds,     \* durations of measured legs
    Beaches,        \* ids of beach places
    MaxTrips, MaxEdits, None

\* Offers of return flights and hotel rates that the searches may find.
Offers == UNION FlightResults

\* What trip_skeleton_node writes.
StayRecords == [city : Cities, checkIn : Int, checkOut : Int, nights : Int]
Skeletons == [start : Int, days : Nat, stays : Seq(StayRecords), flight : Offers \cup {None}]

\* A request with both dates ends on or after the day it starts (DateWindow), and
\* the constants of CityStays hold what requests and offers may ask of it: the
\* cities in their order or with any of them in front, dates and lengths.
ASSUME TripAssumption ==
    /\ \A r \in Requests :
          /\ r.cities \in Routes
          /\ \A city \in ToSet(r.cities) : <<city>> \o RemoveFirst(r.cities, city) \in Routes
          /\ r.first \in Nat /\ r.last \in Nat /\ r.days \in Nat
          /\ r.first # 0 => r.first \in Starts
          /\ r.first # 0 /\ r.last # 0 =>
                r.last >= r.first /\ r.last - r.first + 1 \in Durations
          /\ r.days # 0 => r.days \in Durations
          /\ {r.rest, r.fly, r.look, r.hotels, r.routed} \subseteq BOOLEAN
    /\ \A o \in Offers : o.from \in Starts /\ o.until \in Int /\ o.amount \in Nat
    /\ UNION PlaceResults \subseteq Places
    /\ \A chosen \in DayChoices : \A d \in DOMAIN chosen : chosen[d] \in Seq(Places)
    /\ LegSeconds \subseteq Nat
    /\ "" \notin Cities

ASSUME NoneAssumption == None \notin Requests \cup Offers /\ None \notin Skeletons

VARIABLES
    request,    \* trip_request, None before the first
    flights,    \* offers the flight searches found; failed: the component is an error
    places,     \* place evidence of the activities and restaurants components
    skeleton,   \* trip_skeleton_structured
    searches,   \* hotel_search_results: stay sequence -> the rates found
    draft,      \* draft_itinerary_structured
    routes,     \* route_plan_structured: day -> route, None when there is none
    plan,       \* itinerary_structured
    routed,     \* the transportation specialist is in the routing
    feedback,   \* human_feedback is not empty
    compiled,   \* the days compiled so far
    pc, trips, edits

artifacts == <<flights, places, skeleton, searches, draft, routes, plan>>
asked == <<request, routed, feedback, trips, edits>>
vars == <<request, flights, places, skeleton, searches, draft, routes, plan, routed,
          feedback, compiled, pc, trips, edits, stayVars, dayVars>>

Init ==
    /\ StaysInit /\ ScheduleInit
    /\ request = None /\ flights = [offers |-> {}, failed |-> FALSE] /\ places = {} /\ skeleton = None
    /\ searches = <<>> /\ draft = None /\ routes = None /\ plan = None
    /\ routed = FALSE /\ feedback = FALSE /\ compiled = <<>>
    /\ pc = "idle" /\ trips = 0 /\ edits = 0

Ask ==
    /\ pc \in {"idle", "ended", "planned"} /\ trips < MaxTrips
    /\ request' \in Requests /\ routed' = request'.routed
    /\ trips' = trips + 1 /\ edits' = 0 /\ pc' = "discovering"
    /\ UNCHANGED <<feedback, compiled, artifacts, stayVars, dayVars>>

\* The specialists in the routing replace their components, and those only; one
\* that finds nothing ends the turn at the completion gate.  The places of a
\* component are those of its last search.  Its messages are the conversation's
\* and its own, so that the offers of all the searches are read, unless the last
\* one raised.
Discover ==
    /\ pc = "discovering"
    /\ \E found \in FlightResults : \E failed \in {FALSE, found = {}} :
          /\ flights' = IF request.fly
                        THEN [offers |-> flights.offers \cup found, failed |-> failed]
                        ELSE flights
          /\ places' \in IF request.look THEN PlaceResults ELSE {places}
          /\ pc' = IF (request.fly /\ found = {}) \/ (request.look /\ places' = {})
                   THEN "ended" ELSE "skeleton"
    /\ UNCHANGED <<skeleton, searches, draft, routes, plan, compiled, asked,
                   stayVars, dayVars>>

-----------------------------------------------------------------------------
(* trip_skeleton_node.                                                      *)

ExactDays == request.last - request.first + 1
TripDays == IF request.first # 0 /\ request.last # 0 THEN ExactDays ELSE request.days

\* _selected_exact_flight and _selected_flight: offers of the exact search for
\* these very dates, or offers of a window search of this duration.
FlightCandidates ==
    IF flights.failed THEN {}
    ELSE IF request.first # 0
    THEN {o \in flights.offers : /\ o.kind = "exact" /\ o.from = request.first
                                 /\ o.until = request.first + TripDays - 1}
    ELSE {o \in flights.offers : o.kind = "window" /\ o.until - o.from + 1 = request.days}

SelectedFlight ==
    IF FlightCandidates = {} THEN None
    ELSE CHOOSE o \in FlightCandidates : \A p \in FlightCandidates : o.amount <= p.amount

TripStart == IF request.first # 0 THEN request.first ELSE SelectedFlight.from

DatesKnown ==
    IF request.first # 0
    THEN IF request.last # 0 THEN request.days \in {0, ExactDays} ELSE request.days # 0
    ELSE request.flexible /\ request.days # 0 /\ SelectedFlight # None

SkeletonPossible ==
    /\ DatesKnown
    /\ request.resolved
    /\ SelectedFlight # None => SelectedFlight.to \in ToSet(request.cities)

\* Mutant: it is not taken from its place when it is put in front.
GatewayTwice ==
    IF SelectedFlight = None THEN request.cities ELSE <<SelectedFlight.to>> \o request.cities

\* The traveller sleeps first where the flight lands.
OrderedCities ==
    IF SelectedFlight = None THEN request.cities
    ELSE <<SelectedFlight.to>> \o RemoveFirst(request.cities, SelectedFlight.to)

\* A skeleton that cannot be created leaves the one before it.
RefuseSkeleton ==
    /\ pc = "skeleton" /\ ~SkeletonPossible
    /\ pc' = "ended"
    /\ UNCHANGED <<artifacts, asked, compiled, stayVars, dayVars>>

BeginSkeleton ==
    /\ pc = "skeleton" /\ SkeletonPossible
    /\ BeginAllocation(OrderedCities, TripStart, TripDays,
                       SelectedFlight # None /\ Len(OrderedCities) > 1)
    /\ pc' = IF alloc' = "refused" THEN "ended" ELSE "allocating"
    /\ UNCHANGED <<artifacts, asked, compiled, dayVars>>

Allocate ==
    /\ pc = "allocating" /\ (AddStay \/ AddGatewayStay)
    /\ UNCHANGED <<artifacts, asked, compiled, pc, dayVars>>

FlightFits == SelectedFlight # None =>
                  SelectedFlight.from = start /\ SelectedFlight.until = LastDay

SettleSkeleton ==
    /\ pc = "allocating" /\ Settle
    /\ IF alloc' = "settled" /\ FlightFits
       THEN /\ skeleton' = [start |-> start, days |-> days, stays |-> stays,
                            flight |-> SelectedFlight]
            /\ pc' = IF request.hotels THEN "hotels" ELSE "draft"
       ELSE skeleton' = skeleton /\ pc' = "ended"
    /\ UNCHANGED <<flights, places, searches, draft, routes, plan, asked, compiled,
                   dayVars>>

-----------------------------------------------------------------------------
(* hotel_stay_node for every stay, and hotel_fan_in_node.                   *)

\* A rate key names the room, the city and the dates.
RateOf(stay) == [city |-> stay.city, from |-> stay.checkIn, to |-> stay.checkOut]

\* The rates the selection may choose from: the hotels component holds the
\* messages of every search that was ever keyed by a stay.
Rates == UNION Range(searches)

\* A search that fails or finds nothing, this time or at a stay of an earlier
\* and longer trip, keeps the component from being complete.
SearchHotels ==
    /\ pc = "hotels"
    /\ \E found \in SUBSET DOMAIN skeleton.stays :
          searches' = [k \in DOMAIN skeleton.stays \cup DOMAIN searches |->
                           IF k \notin DOMAIN skeleton.stays THEN searches[k]
                           ELSE IF k \in found THEN {RateOf(skeleton.stays[k])} ELSE {}]
    /\ pc' = IF {} \in Range(searches') THEN "ended" ELSE "draft"
    /\ UNCHANGED <<flights, places, skeleton, draft, routes, plan, asked, compiled,
                   stayVars, dayVars>>

-----------------------------------------------------------------------------
(* draft_itinerary_node.                                                    *)

StayCities(s) == {s.stays[k].city : k \in DOMAIN s.stays}

\* _canonical_city: the one city of the stays that the evidence names.
CanonicalCity(place) == IF place.city \in StayCities(skeleton) THEN place.city ELSE ""

\* The city of a day of the trip, numbered from 1 (_date_city).
CityOfDay(s, number) == StayOf(s.stays, s.start + number - 1).city

TripDayNumbers(s) == 1..s.days

\* Mutant: only the city of a rate is compared with the stay.
RateFitsCity(rate, stay) == rate.city = stay.city

RateFits(rate, stay) ==
    rate.city = stay.city /\ rate.from = stay.checkIn /\ rate.to = stay.checkOut

\* "chosen": stay sequence -> rate.  Without consent no accommodation is taken.
StaysResolve(chosen) ==
    IF request.hotels
    THEN /\ DOMAIN chosen = DOMAIN skeleton.stays
         /\ IsInjective(chosen)
         /\ \A k \in DOMAIN chosen : chosen[k] \in Rates /\ RateFits(chosen[k], skeleton.stays[k])
    ELSE chosen = <<>>

BeachDays(days_) == {d \in DOMAIN days_ : \E p \in ToSet(days_[d]) : p.id \in Beaches}

\* Mutant: a place may be put on any day.
CityFitsAny(place, number) == TRUE

CityFits(place, number) == CanonicalCity(place) \in {"", CityOfDay(skeleton, number)}

\* "days_": day -> the stops proposed for it.
DaysResolve(days_) ==
    /\ DOMAIN days_ \subseteq TripDayNumbers(skeleton)
    /\ \A d \in DOMAIN days_ :
          /\ Len(days_[d]) <= MaxStops /\ IsInjective(days_[d])
          /\ \A p \in ToSet(days_[d]) : p \in places /\ CityFits(p, d)
          /\ \A e \in DOMAIN days_ \ {d} : ToSet(days_[d]) \cap ToSet(days_[e]) = {}
    /\ \E d \in DOMAIN days_ : days_[d] # <<>>
    /\ Cardinality(BeachDays(days_)) >= request.beaches

\* resolve_selection keeps the places and the rates that were named, on every
\* canonical day.
Resolved(days_, chosen, mode_) ==
    [days |-> [d \in TripDayNumbers(skeleton) |->
                  IF d \in DOMAIN days_ THEN days_[d] ELSE <<>>],
     rates |-> chosen, mode |-> mode_]

\* preferred_mode: the traveller's, else the proposal's.
Modes == IF request.mode # "" THEN {request.mode} ELSE {"drive", "transit"}

StayChoices ==
    IF request.hotels THEN [DOMAIN skeleton.stays -> Rates] ELSE {<<>>}

Selections == {Resolved(d, c, m) : d \in {x \in DayChoices : DaysResolve(x)},
                                   c \in {y \in StayChoices : StaysResolve(y)}, m \in Modes}

\* Neither of the two proposals was valid, or the model failed.
DraftFails ==
    /\ pc = "draft"
    /\ draft' = None /\ pc' = "ended"
    /\ UNCHANGED <<flights, places, skeleton, searches, routes, plan, asked, compiled,
                   stayVars, dayVars>>

\* Feedback that changes nothing goes back to the traveller, and stays.
DraftUnchanged ==
    /\ pc = "draft" /\ feedback /\ draft # None /\ draft \in Selections
    /\ pc' = "ended"
    /\ UNCHANGED <<artifacts, asked, compiled, stayVars, dayVars>>

DraftSelected ==
    /\ pc = "draft"
    /\ draft' \in Selections /\ ~ (feedback /\ draft' = draft)
    /\ feedback' = FALSE
    /\ pc' = IF routed THEN "routing" ELSE "itinerary"
    /\ UNCHANGED <<request, flights, places, skeleton, searches, routes, plan, routed,
                   trips, edits, compiled, stayVars, dayVars>>

-----------------------------------------------------------------------------
(* transportation_node and compute_day_route_data.                          *)

Route(order, measured, warning) ==
    [stops |-> order, legs |-> measured, warning |-> warning]

\* Without a route the stops keep their order and a warning says why.  Transit
\* asks for every leg by itself, keeps the order and warns of the legs it has no
\* route for; the other modes ask once, may order the stops better and may get
\* fewer legs than needed.  A day without stops has no route.
DayRoutes(chosen, mode) ==
    LET n == Len(chosen)
        Legs(indices, time) == [i \in indices |-> time]
    IN  {Route(chosen, <<>>, TRUE)}
        \cup (IF chosen = <<>> THEN {}
              ELSE IF mode = "transit"
              THEN {Route(chosen, Legs((0..n) \ cut, time), cut # {}) :
                       cut \in {{}, {0}, {n}}, time \in LegSeconds}
              ELSE {Route(order, Legs(0..last, time), FALSE) :
                       order \in {chosen, Reverse(chosen)}, last \in {n - 1, n},
                       time \in LegSeconds})

RouteDays ==
    /\ pc = "routing"
    /\ LET busy == {d \in DOMAIN draft.days : draft.days[d] # <<>>} IN
       \E found \in [busy -> UNION {DayRoutes(draft.days[d], draft.mode) : d \in busy}] :
          /\ \A d \in busy : found[d] \in DayRoutes(draft.days[d], draft.mode)
          /\ routes' = [d \in DOMAIN draft.days |->
                            IF d \in busy THEN found[d] ELSE Route(<<>>, <<>>, TRUE)]
    /\ pc' = "itinerary"
    /\ UNCHANGED <<flights, places, skeleton, searches, draft, plan, asked, compiled,
                   stayVars, dayVars>>

-----------------------------------------------------------------------------
(* itinerary_node: ItineraryPipeline.run, day by day.                       *)

Number == Len(compiled) + 1

\* Counter(ordered_ids) = Counter(selected_ids)
RouteMatches(d) ==
    /\ Len(routes[d].stops) = Len(draft.days[d])
    /\ ToSet(routes[d].stops) = ToSet(draft.days[d])

Measured(d) == routes # None /\ d \in DOMAIN routes

\* Routes of days the trip does not have, or of stops the draft does not have,
\* and a plan in which no visit fits, are validation errors.
CompileRaises ==
    \/ routes # None /\ ~ DOMAIN routes \subseteq TripDayNumbers(skeleton)
    \/ Number <= skeleton.days /\ Measured(Number) /\ ~RouteMatches(Number)
    \/ Number > skeleton.days /\ \A d \in DOMAIN compiled : compiled[d].cards = <<>>

TransitionDays == {skeleton.stays[k].checkIn : k \in 2..Len(skeleton.stays)}

CompileFails ==
    /\ pc = "itinerary" /\ phase # "scheduling" /\ CompileRaises
    /\ plan' = None /\ pc' = "ended" /\ compiled' = <<>>
    /\ UNCHANGED <<flights, places, skeleton, searches, draft, routes, asked,
                   stayVars, dayVars>>

BeginPlanDay ==
    /\ pc = "itinerary" /\ phase = "idle" /\ ~CompileRaises /\ Number <= skeleton.days
    /\ LET date == skeleton.start + Number - 1
           route_ == IF Measured(Number) THEN routes[Number]
                     ELSE Route(draft.days[Number], <<>>, TRUE)
       IN  BeginDay(route_.stops, route_.legs, date % 7, request.rest,
                    /\ ~route_.warning /\ date \notin TransitionDays
                    /\ Number \notin {1, skeleton.days})
    /\ UNCHANGED <<artifacts, asked, compiled, pc, stayVars>>

ScheduleDay ==
    /\ pc = "itinerary" /\ (ScheduleStop \/ LeaveRest \/ ReturnToHotel)
    /\ UNCHANGED <<artifacts, asked, compiled, pc, stayVars>>

EndPlanDay ==
    /\ pc = "itinerary" /\ phase = "done"
    /\ compiled' = Append(compiled, [cards |-> cards, left |-> left, status |-> status])
    /\ stops' = <<>> /\ legs' = <<>> /\ weekday' = 0 /\ pace' = FALSE
    /\ cards' = <<>> /\ left' = 0 /\ clock' = DayStart /\ status' = "verified"
    /\ phase' = "idle"
    /\ UNCHANGED <<artifacts, asked, pc, stayVars>>

FinishPlan ==
    /\ pc = "itinerary" /\ phase = "idle" /\ Number > skeleton.days /\ ~CompileRaises
    /\ plan' = [start |-> skeleton.start, days |-> compiled, rates |-> draft.rates,
                stays |-> skeleton.stays]
    /\ compiled' = <<>> /\ pc' = "planned"
    /\ UNCHANGED <<flights, places, skeleton, searches, draft, routes, asked,
                   stayVars, dayVars>>

\* human_review: an edit asks for another selection and for routes; a plan that
\* is turned down ends the turn, and what was said about it is kept.
EditPlan ==
    /\ pc = "planned" /\ edits < MaxEdits
    /\ edits' = edits + 1 /\ feedback' = TRUE /\ routed' = TRUE /\ pc' = "draft"
    /\ UNCHANGED <<request, trips, artifacts, compiled, stayVars, dayVars>>

RejectPlan ==
    /\ pc = "planned"
    /\ feedback' \in BOOLEAN /\ pc' = "ended"
    /\ UNCHANGED <<request, routed, trips, edits, artifacts, compiled, stayVars, dayVars>>

Next ==
    \/ Ask \/ Discover
    \/ RefuseSkeleton \/ BeginSkeleton \/ Allocate \/ SettleSkeleton
    \/ SearchHotels
    \/ DraftFails \/ DraftUnchanged \/ DraftSelected
    \/ RouteDays
    \/ CompileFails \/ BeginPlanDay \/ ScheduleDay \/ EndPlanDay \/ FinishPlan
    \/ EditPlan \/ RejectPlan

Spec == Init /\ [][Next]_vars

-----------------------------------------------------------------------------
(* Properties.                                                              *)

TypeOK ==
    /\ request \in Requests \cup {None} /\ routed \in BOOLEAN /\ feedback \in BOOLEAN
    /\ pc \in {"idle", "discovering", "skeleton", "allocating", "hotels", "draft", "routing",
               "itinerary", "planned", "ended"}
    /\ skeleton # None => DOMAIN searches \subseteq Nat /\ skeleton.days \in Nat
    /\ draft # None => \A d \in DOMAIN draft.days : Range(draft.days[d]) \subseteq Places
    /\ Len(compiled) <= (IF skeleton = None THEN 0 ELSE skeleton.days)
    /\ phase # "idle" => pc = "itinerary"

\* The night of a planned trip that begins on a day.
BookedFor(date) == {k \in DOMAIN plan.rates :
                       plan.rates[k].from <= date /\ date < plan.rates[k].to}

\* What a trip does with the allocation is what CityStays specifies, so what is
\* proved of CityStays holds here.
AllocatesAsSpecified == StaysSpec

\* Every night of a planned trip with hotels is booked exactly once and in the
\* city slept in that night, although rates of earlier trips and of stays the
\* trip no longer has can still be chosen, and the first and the last stay may be
\* in one city.
NightsAreBooked ==
    pc = "planned" /\ request.hotels =>
        \A n \in 0..(Len(plan.days) - 2) :
            LET date == plan.start + n IN
            /\ Cardinality(BookedFor(date)) = 1
            /\ \A k \in BookedFor(date) : plan.rates[k].city = StayOf(plan.stays, date).city

\* A planned trip is the one that was asked for: its dates or its length, its
\* cities and no others; when a flight was selected the trip begins the day it
\* leaves and ends the day it returns, and the traveller sleeps in the city it
\* lands in on the first night and on the last.
TripAsAsked ==
    pc = "planned" =>
        /\ request.first # 0 => plan.start = request.first
        /\ request.first # 0 /\ request.last # 0 =>
              plan.start + Len(plan.days) - 1 = request.last
        /\ request.days # 0 => Len(plan.days) = request.days
        /\ StayCities(plan) = ToSet(request.cities)
        /\ skeleton.flight # None =>
              /\ skeleton.flight.from = plan.start
              /\ skeleton.flight.until = plan.start + Len(plan.days) - 1
              /\ plan.stays[1].city = skeleton.flight.to
              /\ plan.stays[Len(plan.stays)].city = skeleton.flight.to

\* A place known to be in one of the cities of a planned trip is visited on a day
\* of that city, and no place is visited twice, also when the places were found
\* for an earlier trip or a stale route gives the order.
VisitsWhereTheyAre ==
    pc = "planned" =>
        \A d \in DOMAIN plan.days : \A i \in DOMAIN plan.days[d].cards :
            LET stop == plan.days[d].cards[i].stop IN
            /\ stop.city \in StayCities(plan) => stop.city = CityOfDay(plan, d)
            /\ \A e \in DOMAIN plan.days : \A j \in DOMAIN plan.days[e].cards :
                  plan.days[e].cards[j].stop = stop => e = d /\ j = i

\* Every day of a plan can be walked: its stops are in the city the traveller
\* is in, and the legs, however long, bring him back by nine.
DaysAreWalkable == TypeOK /\ VisitsWhereTheyAre /\ BackByNine

\* A planned trip is the one that was asked for, with a bed for every night.
PlanIsTheTripAsked == TripAsAsked /\ NightsAreBooked

=============================================================================
