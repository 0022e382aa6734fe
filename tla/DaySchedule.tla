----------------------------- MODULE DaySchedule -----------------------------
(***************************************************************************)
(* How one day of a plan is put on the clock: the loop over the ordered    *)
(* stops in ItineraryPipeline.run of src/itinerary/pipeline.py, one action *)
(* per stop.  Times are minutes of the day, opening periods are minutes of *)
(* the week, as Google Places gives them.                                  *)
(***************************************************************************)
EXTENDS Integers, Sequences, Functions

CONSTANTS
    Places,      \* PlaceRef: records with id, minutes, periods, meal
    DayStops,    \* the orders of stops a day is scheduled from
    DayLegs,     \* measured legs: index of the leg -> seconds, some may be missing
    MaxStops     \* MAX_STOPS_PER_DAY

ASSUME ScheduleAssumption ==
    /\ \A p \in Places :
          /\ DOMAIN p = {"id", "city", "minutes", "periods"}
          /\ p.minutes \in Nat
          /\ p.periods \subseteq Int \X Int
    /\ DayStops \subseteq Seq(Places)
    /\ \A legs \in DayLegs : \A i \in DOMAIN legs : legs[i] \in Nat
    /\ MaxStops \in Nat

DayStart == 9 * 60         \* DAY_START_MINUTE
DayEnd == 21 * 60          \* DAY_END_MINUTE
StopBuffer == 15           \* STOP_BUFFER_MINUTES
RestBreak == 30            \* REST_BREAK_MINUTES
NoTime == -1               \* no start that fits

VARIABLES
    stops,     \* the stops of the day in route order
    legs,      \* legs_by_index, in seconds
    weekday,   \* google_day of the date, 0 is Sunday
    pace,      \* pace_needs_rest
    cards,     \* the stops scheduled so far with their times
    left,      \* how many stops are unscheduled when the day is done
    clock,     \* cursor
    status,    \* day_status
    phase      \* "idle", "scheduling" or "done"

dayVars == <<stops, legs, weekday, pace, cards, left, clock, status, phase>>

-----------------------------------------------------------------------------
(* Opening hours.                                                           *)

WeekMinutes == 7 * 24 * 60
Later(a, b) == IF a >= b THEN a ELSE b
Earlier(a, b) == IF a <= b THEN a ELSE b

\* The part of an opening period that lies within a day of the week; a period
\* that closes before it opens runs into the next week.
Overlap(period, shift, day) ==
    LET opened == period[1] + shift
        closed == period[2] + shift
                      + (IF period[2] <= period[1] THEN WeekMinutes ELSE 0)
        midnight == day * 24 * 60
    IN  <<Later(midnight, opened) - midnight,
          Earlier(midnight + 24 * 60, closed) - midnight>>

Windows(periods, day) ==
    {w \in {Overlap(p, shift, day) : p \in periods, shift \in {-WeekMinutes, 0, WeekMinutes}} :
        w[1] < w[2]}

\* The windows in which a visit that may start at the earliest is over in time.
Fitting(stop, earliest) ==
    {w \in Windows(stop.periods, weekday) : Later(earliest, w[1]) + stop.minutes <= w[2]}

\* _opening_fit: the first of them in order of opening.
OpeningFit(stop, earliest) ==
    IF stop.periods = {} THEN earliest
    ELSE IF Fitting(stop, earliest) = {} THEN NoTime
    ELSE Later(earliest,
               (CHOOSE w \in Fitting(stop, earliest) :
                   \A v \in Fitting(stop, earliest) : w[1] <= v[1])[1])

-----------------------------------------------------------------------------
(* The day.                                                                 *)

Rank(s) == CASE s = "verified" -> 0 [] s = "needs_review" -> 1 [] s = "infeasible" -> 2

\* max(day_status, ..., key=_status_rank)
Worse(a, b) == IF Rank(a) >= Rank(b) THEN a ELSE b

\* Minutes of a leg, rounded up; a leg that was not measured takes none.
Travel(i) == IF i \in DOMAIN legs THEN (legs[i] + 59) \div 60 ELSE 0

\* timing_reliable: times are shown only when every leg was measured.
TimingReliable == DOMAIN legs = 0..Len(stops)

ScheduleInit ==
    /\ stops = <<>> /\ legs = <<>> /\ weekday = 0 /\ pace = FALSE
    /\ cards = <<>> /\ left = 0
    /\ clock = DayStart /\ status = "verified" /\ phase = "idle"

\* "known": whether the route and the calendar leave nothing to be reviewed.
BeginDay(ordered, measured, day, rest, known) ==
    /\ phase # "scheduling"
    /\ stops' = ordered /\ legs' = measured /\ weekday' = day /\ pace' = rest
    /\ cards' = <<>> /\ left' = 0 /\ clock' = DayStart
    /\ status' = IF known /\ TimingReliable' THEN "verified" ELSE "needs_review"
    /\ phase' = "scheduling"

NextStop == stops[Len(cards) + 1]

\* Mutant: the handling time at a stop is forgotten.
ArrivalAtOnce == clock + Travel(Len(cards))

\* The earliest start of the next stop: a rest after every two stops, the leg
\* to it and the handling buffer.
Arrival ==
    clock + (IF pace /\ Len(cards) > 0 /\ Len(cards) % 2 = 0 THEN RestBreak ELSE 0)
          + Travel(Len(cards)) + StopBuffer

\* The legs still to come have to end by 21:00.
LatestEnd(index) ==
    LET ahead == [i \in (index + 1)..Len(stops) |-> Travel(i)]
    IN  DayEnd - SumFunction(ahead)

FittedStart == OpeningFit(NextStop, Arrival)

Fits == /\ FittedStart # NoTime
        /\ FittedStart + NextStop.minutes <= LatestEnd(Len(cards))

More == phase = "scheduling" /\ Len(cards) < Len(stops)

ScheduleStop ==
    /\ More /\ Len(cards) < MaxStops /\ Fits
    /\ cards' = Append(cards, [stop |-> NextStop, from |-> FittedStart,
                               to |-> FittedStart + NextStop.minutes])
    /\ clock' = FittedStart + NextStop.minutes
    /\ status' = IF NextStop.periods = {} THEN Worse(status, "needs_review") ELSE status
    /\ UNCHANGED <<stops, legs, weekday, pace, left, phase>>

\* This stop and every later one stay unscheduled.
LeaveRest ==
    /\ More /\ (Len(cards) >= MaxStops \/ ~Fits)
    /\ left' = Len(stops) - Len(cards)
    /\ status' = "infeasible"
    /\ phase' = "done"
    /\ UNCHANGED <<stops, legs, weekday, pace, cards, clock>>

\* The way back; it is not taken from a stop that was not visited.
ReturnToHotel ==
    /\ phase = "scheduling" /\ Len(cards) = Len(stops)
    /\ clock' = IF cards = <<>> THEN clock ELSE clock + Travel(Len(stops))
    /\ status' = IF cards # <<>> /\ Len(stops) \in DOMAIN legs /\ clock' > DayEnd
                 THEN "infeasible" ELSE status
    /\ phase' = "done"
    /\ UNCHANGED <<stops, legs, weekday, pace, cards, left>>

ScheduleNext ==
    \/ \E ordered \in DayStops, measured \in DayLegs, day \in 0..6,
          rest \in BOOLEAN, known \in BOOLEAN : BeginDay(ordered, measured, day, rest, known)
    \/ ScheduleStop \/ LeaveRest \/ ReturnToHotel

ScheduleSpec == ScheduleInit /\ [][ScheduleNext]_dayVars

-----------------------------------------------------------------------------
(* Properties of every schedule.                                            *)

\* The traveller can keep up with the day: no visit starts before nine or
\* before the one before it has ended, the leg between them is travelled, the
\* handling buffer has passed and, for a party that needs it, the rest that
\* follows every two stops.
TravellerKeepsUp ==
    \A k \in 1..Len(cards) :
        cards[k].from >=
            (IF k = 1 THEN DayStart ELSE cards[k - 1].to)
            + (IF pace /\ k > 1 /\ (k - 1) % 2 = 0 THEN RestBreak ELSE 0)
            + Travel(k - 1) + StopBuffer

\* A place with known hours is open from the start of its visit to its end:
\* one period of that weekday covers it, those that run past midnight or past
\* the end of the week included.
OpenWhenVisited ==
    \A k \in 1..Len(cards) :
        LET card == cards[k] IN
        card.stop.periods # {} =>
            \E w \in Windows(card.stop.periods, weekday) :
                w[1] <= card.from /\ card.to <= w[2]

\* The traveller is back by nine in the evening: after each visit there is time
\* for every leg still ahead, so the day's own check of the way back never fails.
BackByNine ==
    /\ \A k \in 1..Len(cards) : cards[k].to <= LatestEnd(k - 1)
    /\ phase = "done" /\ cards # <<>> => clock <= DayEnd

\* Every selected stop is scheduled once, in route order, or is unscheduled, and
\* a day is called feasible only when none is.
NothingIsLost ==
    phase = "done" =>
        /\ Len(cards) + left = Len(stops)
        /\ \A k \in 1..Len(cards) : cards[k].stop = stops[k]
        /\ status # "infeasible" => left = 0

\* A day is sound: the traveller keeps up with it, every place is open, and no
\* stop is lost.
DayIsSound == TravellerKeepsUp /\ OpenWhenVisited /\ NothingIsLost

=============================================================================
