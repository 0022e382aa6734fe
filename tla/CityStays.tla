------------------------------ MODULE CityStays ------------------------------
(***************************************************************************)
(* How the nights of a trip are divided among its cities: the loop of      *)
(* allocate_city_stays in src/models/trip_skeleton.py, one action per stay *)
(* appended, and the validator the skeleton has to pass.  Dates are day    *)
(* numbers.                                                                *)
(***************************************************************************)
EXTENDS Integers, Sequences

CONSTANTS
    Cities,     \* the cities a traveller may name
    Routes,     \* the orders of cities a skeleton is asked for
    Starts,     \* first days of trips
    Durations   \* duration_days

ASSUME StaysAssumption ==
    /\ Routes \subseteq Seq(Cities)
    /\ Starts \subseteq Int
    /\ Durations \subseteq Nat \ {0}

VARIABLES
    route,    \* ordered: the cities in the order they are slept in
    start,    \* start_date
    days,     \* duration_days
    back,     \* return_to_entry: the last night is spent in the first city again
    stays,    \* the stays appended so far
    cursor,   \* the night the next stay begins with
    alloc     \* "idle", "allocating", "settled", or "refused" by a ValueError

stayVars == <<route, start, days, back, stays, cursor, alloc>>

TotalNights == days - 1
LastDay == start + days - 1

\* final_gateway_nights
GatewayNights == IF back /\ Len(route) > 1 THEN 1 ELSE 0

Shared == TotalNights - GatewayNights

\* divmod(distributable_nights, len(ordered))
BaseNights == Shared \div Len(route)
Remainder == Shared % Len(route)

\* The nights of the city at the 0-based index of the loop.
NightsOf(index) == BaseNights + (IF index < Remainder THEN 1 ELSE 0)

Stay(city, nights) ==
    [city |-> city, checkIn |-> cursor, checkOut |-> cursor + nights, nights |-> nights]

StaysInit ==
    /\ route = <<>> /\ start = 0 /\ days = 1 /\ back = FALSE
    /\ stays = <<>> /\ cursor = 0 /\ alloc = "idle"

\* Too few nights for one in each stay, or no city at all, is refused.
BeginAllocation(cities, first, duration, return) ==
    /\ alloc # "allocating"
    /\ route' = cities /\ start' = first /\ days' = duration /\ back' = return
    /\ stays' = <<>> /\ cursor' = first
    /\ alloc' = IF cities = <<>> \/ TotalNights' < Len(cities) + GatewayNights'
                THEN "refused" ELSE "allocating"

Append1(stay) ==
    /\ stays' = Append(stays, stay)
    /\ cursor' = stay.checkOut
    /\ UNCHANGED <<route, start, days, back, alloc>>

AddStay ==
    /\ alloc = "allocating" /\ Len(stays) < Len(route)
    /\ LET index == Len(stays) IN Append1(Stay(route[index + 1], NightsOf(index)))

AddGatewayStay ==
    /\ alloc = "allocating" /\ Len(stays) = Len(route) /\ GatewayNights = 1
    /\ Append1(Stay(route[1], 1))

Allocated == Len(stays) = Len(route) + GatewayNights

\* The validators of CityStay and TripSkeleton.  That the nights add up follows
\* from the stays being contiguous from the first day to the last.
StaysAreValid ==
    /\ \A k \in 1..Len(stays) :
          /\ stays[k].nights >= 1
          /\ stays[k].checkOut - stays[k].checkIn = stays[k].nights
          /\ stays[k].checkIn = IF k = 1 THEN start ELSE stays[k - 1].checkOut
    /\ stays # <<>> => stays[Len(stays)].checkOut = LastDay

Settle ==
    /\ alloc = "allocating" /\ Allocated
    /\ alloc' = IF StaysAreValid THEN "settled" ELSE "refused"
    /\ UNCHANGED <<route, start, days, back, stays, cursor>>

StaysNext ==
    \/ \E cities \in Routes, first \in Starts, duration \in Durations, return \in BOOLEAN :
          BeginAllocation(cities, first, duration, return)
    \/ AddStay \/ AddGatewayStay \/ Settle

StaysSpec == StaysInit /\ [][StaysNext]_stayVars

-----------------------------------------------------------------------------
\* The city slept in on a day of the trip; the last day is spent where the
\* last night was.
StayOf(plan, day) ==
    IF day = plan[Len(plan)].checkOut THEN plan[Len(plan)]
    ELSE CHOOSE stay \in {plan[k] : k \in DOMAIN plan} :
             stay.checkIn <= day /\ day < stay.checkOut

\* When every stay is appended, each has a night of its own, they follow one
\* another without a gap or an overlap and they end on the last day: whatever
\* the number of cities, the remainder of the division and the reserved gateway
\* night, the validators have nothing to refuse.
StaysCoverTrip == alloc = "allocating" /\ Allocated => StaysAreValid

=============================================================================
