---------------------------- MODULE TripPlanProofs ----------------------------
(* Proofs about a trip from its request to a plan on the clock and what it  *)
(* costs: first of the allocation of nights (CityStays), then of the        *)
(* schedule of a day (DaySchedule), each for every input, then of TripPlan, *)
(* which makes use of both, and last of TripBudget, the node that follows.  *)
EXTENDS TripPlan, TripBudget, Sums, SequenceTheorems

-----------------------------------------------------------------------------
(* CityStays.                                                               *)

StaysTypeOK ==
    /\ route \in Seq(Cities) /\ start \in Int /\ days \in Nat \ {0} /\ back \in BOOLEAN
    /\ stays \in Seq(StayRecords) /\ cursor \in Int
    /\ alloc \in {"idle", "allocating", "settled", "refused"}

\* Every night up to the cursor belongs to exactly one of the stays.
Contiguous ==
    /\ \A k \in 1..Len(stays) :
          /\ stays[k].nights >= 1
          /\ stays[k].checkOut - stays[k].checkIn = stays[k].nights
          /\ stays[k].checkIn = IF k = 1 THEN start ELSE stays[k - 1].checkOut
    /\ cursor = IF Len(stays) = 0 THEN start ELSE stays[Len(stays)].checkOut

\* There are nights enough for every stay still to come.
Affordable ==
    /\ Len(route) >= 1
    /\ TotalNights >= Len(route) + GatewayNights
    /\ Len(stays) <= Len(route) + GatewayNights

\* How far the cursor is: i cities take i base nights and the first of them
\* one of the remainder each.
Progress ==
    /\ Len(stays) <= Remainder =>
          cursor = start + BaseNights * Len(stays) + Len(stays)
    /\ Remainder <= Len(stays) /\ Len(stays) <= Len(route) =>
          cursor = start + BaseNights * Len(stays) + Remainder
    /\ Len(stays) > Len(route) => cursor = LastDay

\* The cities are slept in in the order of the route, the first of them again in
\* the night kept for the gateway.
RouteOrder == \A k \in 1..Len(stays) :
                 stays[k].city = route[IF k <= Len(route) THEN k ELSE 1]

StaysInv ==
    /\ StaysTypeOK
    /\ alloc = "allocating" => Contiguous /\ Affordable /\ Progress /\ RouteOrder

-----------------------------------------------------------------------------

\* divmod: quotient and remainder of a division by a positive number.
LEMMA DivMod ==
    ASSUME NEW a \in Int, NEW n \in Nat \ {0}
    PROVE  /\ a \div n \in Int
           /\ a % n \in Nat /\ a % n < n
           /\ a = n * (a \div n) + (a % n)
  OBVIOUS

\* With at least one night for each city, every city has one.
LEMMA Shares ==
    ASSUME StaysTypeOK, Affordable
    PROVE  /\ BaseNights \in Int /\ BaseNights >= 1
           /\ Remainder \in Nat /\ Remainder < Len(route)
           /\ Shared = Len(route) * BaseNights + Remainder
           /\ GatewayNights \in {0, 1}
<1>1. Len(route) \in Nat \ {0} /\ Shared \in Int /\ Shared >= Len(route)
  BY DEF StaysTypeOK, Affordable, Shared, TotalNights, GatewayNights
<1>2. /\ BaseNights \in Int
      /\ Remainder \in Nat /\ Remainder < Len(route)
      /\ Shared = Len(route) * BaseNights + Remainder
  BY <1>1, DivMod DEF BaseNights, Remainder
<1>3. BaseNights >= 1
  <2>1. SUFFICES ASSUME BaseNights <= 0 PROVE FALSE
    BY <1>2
  <2>2. Len(route) * BaseNights <= 0
    BY <1>1, <1>2, <2>1
  <2> QED BY <1>1, <1>2, <2>2
<1> QED BY <1>2, <1>3 DEF GatewayNights

-----------------------------------------------------------------------------

LEMMA StaysInitInv == StaysInit => StaysInv
<1> SUFFICES ASSUME StaysInit PROVE StaysInv
  OBVIOUS
<1>1. route \in Seq(Cities) /\ stays \in Seq(StayRecords)
  BY EmptySeq DEF StaysInit
<1>2. days \in Nat \ {0} /\ start \in Int /\ cursor \in Int
  BY DEF StaysInit
<1>3. back \in BOOLEAN
  BY Zenon DEF StaysInit
<1>4. alloc = "idle"
  BY DEF StaysInit
<1> QED BY <1>1, <1>2, <1>3, <1>4 DEF StaysInv, StaysTypeOK

\* The nights the loop gives to the city whose turn it is.
LEMMA NightsGiven ==
    ASSUME StaysTypeOK, Affordable, Len(stays) < Len(route)
    PROVE  /\ NightsOf(Len(stays)) \in Int /\ NightsOf(Len(stays)) >= 1
           /\ Len(stays) < Remainder => NightsOf(Len(stays)) = BaseNights + 1
           /\ Len(stays) >= Remainder => NightsOf(Len(stays)) = BaseNights
  BY Shares DEF NightsOf, StaysTypeOK

\* A stay that begins at the cursor and has a night extends the contiguous ones.
LEMMA AppendContiguous ==
    ASSUME StaysTypeOK, Contiguous, NEW city \in Cities, NEW nights \in Int, nights >= 1,
           stays' = Append(stays, Stay(city, nights)),
           cursor' = cursor + nights, start' = start
    PROVE  /\ Contiguous' /\ stays' \in Seq(StayRecords) /\ Len(stays') = Len(stays) + 1
           /\ \A k \in 1..Len(stays) : stays'[k] = stays[k]
           /\ stays'[Len(stays) + 1].city = city
<1> DEFINE new == Stay(city, nights)
<1>1. new \in StayRecords /\ new.checkIn = cursor /\ new.checkOut = cursor + nights
      /\ new.nights = nights /\ new.city = city
  BY DEF Stay, StayRecords, StaysTypeOK
<1>2. /\ stays' \in Seq(StayRecords) /\ Len(stays') = Len(stays) + 1
      /\ \A k \in 1..Len(stays) : stays'[k] = stays[k]
      /\ stays'[Len(stays) + 1] = new
  BY <1>1, AppendProperties DEF StaysTypeOK
<1>3. Len(stays) \in Nat
  BY DEF StaysTypeOK
<1>4. cursor' = IF Len(stays') = 0 THEN start' ELSE stays'[Len(stays')].checkOut
  BY <1>1, <1>2, <1>3
<1>5. ASSUME NEW k \in 1..Len(stays')
      PROVE  /\ stays'[k].nights >= 1
             /\ stays'[k].checkOut - stays'[k].checkIn = stays'[k].nights
             /\ stays'[k].checkIn = IF k = 1 THEN start' ELSE stays'[k - 1].checkOut
  <2>1. CASE k <= Len(stays)
    <3>1. k \in 1..Len(stays) /\ (k # 1 => k - 1 \in 1..Len(stays))
      BY <2>1, <1>2, <1>3
    <3> QED BY <3>1, <1>2 DEF Contiguous
  <2>2. CASE k = Len(stays) + 1
    <3>1. CASE Len(stays) = 0
      BY <2>2, <3>1, <1>1, <1>2 DEF Contiguous, StaysTypeOK
    <3>2. CASE Len(stays) # 0
      <4>1. Len(stays) \in 1..Len(stays) /\ k - 1 = Len(stays) /\ k # 1
        BY <2>2, <3>2, <1>3
      <4>2. stays'[k - 1] = stays[Len(stays)]
        BY <4>1, <1>2
      <4>3. cursor = stays[Len(stays)].checkOut
        BY <3>2 DEF Contiguous
      <4> QED BY <2>2, <4>1, <4>2, <4>3, <1>1, <1>2 DEF StaysTypeOK
    <3> QED BY <3>1, <3>2
  <2> QED BY <2>1, <2>2, <1>2, <1>3
<1> QED BY <1>1, <1>2, <1>4, <1>5 DEF Contiguous

LEMMA BeginAllocationInv ==
    ASSUME StaysAssumption, StaysInv,
           NEW cities \in Routes, NEW first \in Starts, NEW duration \in Durations,
           NEW return \in BOOLEAN, BeginAllocation(cities, first, duration, return)
    PROVE  StaysInv'
<1>1. StaysTypeOK'
  BY EmptySeq DEF StaysAssumption, BeginAllocation, StaysTypeOK, StaysInv
<1>2. ASSUME alloc' = "allocating" PROVE Contiguous' /\ Affordable' /\ Progress' /\ RouteOrder'
  <2>1. stays' = <<>> /\ cursor' = start' /\ route' # <<>>
        /\ ~ (TotalNights' < Len(route') + GatewayNights')
    BY <1>2 DEF BeginAllocation
  <2>2. Len(stays') = 0 /\ Len(route') \in Nat /\ Len(route') >= 1
    BY <2>1, <1>1, EmptySeq DEF StaysTypeOK
  <2>3. Affordable'
    BY <2>1, <2>2, <1>1 DEF Affordable, TotalNights, GatewayNights, StaysTypeOK
  <2>4. Contiguous'
    BY <2>1, <2>2 DEF Contiguous
  <2>7. RouteOrder'
    BY <2>2 DEF RouteOrder
  <2>5. BaseNights' \in Int /\ Remainder' \in Nat /\ Remainder' < Len(route')
    <3>1. Len(route') \in Nat \ {0} /\ Shared' \in Int
      BY <2>2, <1>1 DEF Shared, TotalNights, GatewayNights, StaysTypeOK
    <3> QED BY <3>1, DivMod DEF BaseNights, Remainder
  <2>6. Progress'
    <3>1. BaseNights' * Len(stays') = 0
      <4>1. \A x \in Int : x * 0 = 0
        OBVIOUS
      <4> QED BY <4>1, <2>2, <2>5, Zenon
    <3>2. cursor' = start' + BaseNights' * Len(stays') + Len(stays')
      BY <3>1, <2>1, <2>2, <1>1 DEF StaysTypeOK
    <3>3. Remainder' <= Len(stays') => Remainder' = Len(stays')
      BY <2>2, <2>5
    <3>4. ~ (Len(stays') > Len(route'))
      BY <2>2
    <3>5. Remainder' <= Len(stays') =>
              cursor' = start' + BaseNights' * Len(stays') + Remainder'
      BY <3>2, <3>3
    <3> QED BY <3>2, <3>4, <3>5 DEF Progress
  <2> QED BY <2>3, <2>4, <2>6, <2>7
<1> QED BY <1>1, <1>2 DEF StaysInv

LEMMA AddStayInv ==
    ASSUME StaysInv, AddStay
    PROVE  StaysInv'
<1> DEFINE nights == NightsOf(Len(stays))
           city == route[Len(stays) + 1]
<1>1. /\ alloc = "allocating" /\ alloc' = alloc /\ Len(stays) < Len(route)
      /\ stays' = Append(stays, Stay(city, nights))
      /\ cursor' = cursor + nights
      /\ route' = route /\ start' = start /\ days' = days /\ back' = back
  BY DEF AddStay, Append1, Stay
<1>2. StaysTypeOK /\ Contiguous /\ Affordable /\ Progress /\ RouteOrder
  BY <1>1 DEF StaysInv
<1>3. nights \in Int /\ nights >= 1
  BY <1>1, <1>2, NightsGiven
<1>4. Len(stays) \in Nat /\ Len(route) \in Nat /\ city \in Cities
  BY <1>1, <1>2 DEF StaysTypeOK
<1>5. /\ Contiguous' /\ stays' \in Seq(StayRecords) /\ Len(stays') = Len(stays) + 1
      /\ \A k \in 1..Len(stays) : stays'[k] = stays[k]
      /\ stays'[Len(stays) + 1].city = city
  BY <1>1, <1>2, <1>3, <1>4, AppendContiguous
<1>6. StaysTypeOK'
  BY <1>1, <1>2, <1>3, <1>5 DEF StaysTypeOK
<1>7. /\ BaseNights' = BaseNights /\ Remainder' = Remainder
      /\ GatewayNights' = GatewayNights /\ TotalNights' = TotalNights
  BY <1>1 DEF BaseNights, Remainder, Shared, GatewayNights, TotalNights
<1>8. Affordable'
  BY <1>1, <1>2, <1>4, <1>5, <1>7, Shares DEF Affordable
<1>9. Progress'
  <2>1. /\ BaseNights \in Int /\ Remainder \in Nat /\ start \in Int /\ cursor \in Int
    BY <1>2, Shares DEF StaysTypeOK
  <2>2. BaseNights * (Len(stays) + 1) = BaseNights * Len(stays) + BaseNights
    BY <2>1, <1>4
  <2>3. CASE Len(stays) < Remainder
    <3>1. nights = BaseNights + 1 /\ cursor = start + BaseNights * Len(stays) + Len(stays)
      BY <2>3, <2>1, <1>1, <1>2, <1>4, NightsGiven DEF Progress
    <3> HIDE DEF nights
    <3>2. cursor' = start + BaseNights * (Len(stays) + 1) + (Len(stays) + 1)
      BY <3>1, <2>1, <2>2, <1>1, <1>4
    <3> QED BY <3>2, <2>1, <2>3, <1>1, <1>4, <1>5, <1>7 DEF Progress
  <2>4. CASE Len(stays) >= Remainder
    <3>1. nights = BaseNights /\ cursor = start + BaseNights * Len(stays) + Remainder
      BY <2>4, <2>1, <1>1, <1>2, <1>4, NightsGiven DEF Progress
    <3> HIDE DEF nights
    <3>2. cursor' = start + BaseNights * (Len(stays) + 1) + Remainder
      BY <3>1, <2>1, <2>2, <1>1, <1>4
    <3> QED BY <3>2, <2>1, <2>4, <1>1, <1>4, <1>5, <1>7 DEF Progress
  <2> QED BY <2>3, <2>4, <2>1, <1>4
<1> HIDE DEF nights
<1>10. RouteOrder'
  <2> SUFFICES ASSUME NEW k \in 1..Len(stays')
               PROVE  stays'[k].city = route[IF k <= Len(route) THEN k ELSE 1]
    BY <1>1 DEF RouteOrder
  <2>1. CASE k \in 1..Len(stays)
    BY <2>1, <1>2, <1>5 DEF RouteOrder
  <2>2. CASE k = Len(stays) + 1
    BY <2>2, <1>1, <1>4, <1>5
  <2> QED BY <2>1, <2>2, <1>4, <1>5
<1> QED BY <1>5, <1>6, <1>8, <1>9, <1>10 DEF StaysInv

\* When every city has its stay, the cursor is at the end of the shared nights.
LEMMA AfterTheLoop ==
    ASSUME StaysTypeOK, Affordable, Progress, Len(stays) = Len(route)
    PROVE  cursor = start + Shared
<1>1. /\ BaseNights \in Int /\ Remainder \in Nat /\ Remainder < Len(route)
      /\ Shared = Len(route) * BaseNights + Remainder
      /\ start \in Int /\ cursor \in Int /\ Len(route) \in Nat
  BY Shares DEF StaysTypeOK
<1>2. cursor = start + BaseNights * Len(route) + Remainder
  BY <1>1 DEF Progress
<1>3. BaseNights * Len(route) = Len(route) * BaseNights
  BY <1>1
<1> QED BY <1>1, <1>2, <1>3

LEMMA AddGatewayInv ==
    ASSUME StaysInv, AddGatewayStay
    PROVE  StaysInv'
<1>1. /\ alloc = "allocating" /\ alloc' = alloc /\ Len(stays) = Len(route)
      /\ GatewayNights = 1
      /\ stays' = Append(stays, Stay(route[1], 1))
      /\ cursor' = cursor + 1
      /\ route' = route /\ start' = start /\ days' = days /\ back' = back
  BY DEF AddGatewayStay, Append1, Stay
<1>2. StaysTypeOK /\ Contiguous /\ Affordable /\ Progress /\ RouteOrder
  BY <1>1 DEF StaysInv
<1>3. Len(route) \in Nat /\ route[1] \in Cities
  BY <1>2 DEF StaysTypeOK, Affordable
<1>4. /\ Contiguous' /\ stays' \in Seq(StayRecords) /\ Len(stays') = Len(stays) + 1
      /\ \A k \in 1..Len(stays) : stays'[k] = stays[k]
      /\ stays'[Len(stays) + 1].city = route[1]
  BY <1>1, <1>2, <1>3, AppendContiguous
<1>5. StaysTypeOK'
  BY <1>1, <1>2, <1>4 DEF StaysTypeOK
<1>6. /\ Remainder' = Remainder /\ GatewayNights' = GatewayNights
      /\ TotalNights' = TotalNights /\ LastDay' = LastDay
  BY <1>1 DEF Remainder, Shared, GatewayNights, TotalNights, LastDay
<1>7. Affordable'
  BY <1>1, <1>2, <1>3, <1>4, <1>6 DEF Affordable
<1>8. cursor' = LastDay
  BY <1>1, <1>2, AfterTheLoop DEF Shared, TotalNights, LastDay, StaysTypeOK
<1>9. Remainder < Len(route) /\ Remainder \in Nat
  BY <1>2, Shares
<1>10. Progress'
  BY <1>1, <1>3, <1>4, <1>6, <1>8, <1>9 DEF Progress
<1>11. RouteOrder'
  <2> SUFFICES ASSUME NEW k \in 1..Len(stays')
               PROVE  stays'[k].city = route[IF k <= Len(route) THEN k ELSE 1]
    BY <1>1 DEF RouteOrder
  <2>1. CASE k \in 1..Len(stays)
    BY <2>1, <1>2, <1>4 DEF RouteOrder
  <2>2. CASE k = Len(stays) + 1
    BY <2>2, <1>1, <1>3, <1>4
  <2> QED BY <2>1, <2>2, <1>1, <1>3, <1>4
<1> QED BY <1>4, <1>5, <1>7, <1>10, <1>11 DEF StaysInv

LEMMA StaysInductive ==
    ASSUME StaysAssumption, StaysInv, [StaysNext]_stayVars
    PROVE  StaysInv'
<1>1. CASE \E cities \in Routes, first \in Starts, duration \in Durations, return \in BOOLEAN :
               BeginAllocation(cities, first, duration, return)
  BY <1>1, BeginAllocationInv
<1>2. CASE AddStay
  BY <1>2, AddStayInv
<1>3. CASE AddGatewayStay
  BY <1>3, AddGatewayInv
<1>4. CASE Settle
  <2>1. /\ alloc' # "allocating" /\ alloc' \in {"settled", "refused"}
        /\ UNCHANGED <<route, start, days, back, stays, cursor>>
    BY <1>4 DEF Settle
  <2> QED BY <2>1 DEF StaysInv, StaysTypeOK
<1>5. CASE UNCHANGED stayVars
  BY <1>5 DEF stayVars, StaysInv, StaysTypeOK, Contiguous, Affordable, Progress, RouteOrder,
              TotalNights, GatewayNights, BaseNights, Remainder, Shared, LastDay
<1> QED BY <1>1, <1>2, <1>3, <1>4, <1>5 DEF StaysNext

\* The invariant gives the property: the loop ends on the last day.
LEMMA InvCovers == StaysInv => StaysCoverTrip
<1> SUFFICES ASSUME StaysInv, alloc = "allocating", Allocated PROVE StaysAreValid
  BY DEF StaysCoverTrip
<1>1. StaysTypeOK /\ Contiguous /\ Affordable /\ Progress
  BY DEF StaysInv
<1>2. Len(route) \in Nat /\ Len(route) >= 1 /\ GatewayNights \in {0, 1}
  BY <1>1 DEF StaysTypeOK, Affordable, GatewayNights
<1>3. cursor = LastDay
  <2>1. CASE GatewayNights = 0
    BY <2>1, <1>1, <1>2, AfterTheLoop DEF Allocated, Shared, TotalNights, LastDay, StaysTypeOK
  <2>2. CASE GatewayNights = 1
    BY <2>2, <1>1, <1>2 DEF Allocated, Progress
  <2> QED BY <2>1, <2>2, <1>2
<1>4. Len(stays) # 0
  BY <1>2 DEF Allocated
<1> QED BY <1>1, <1>3, <1>4 DEF Contiguous, StaysAreValid

\* The skeleton's validators never refuse what allocate_city_stays returns:
\* every city has a night, the stays follow one another and end on the last
\* day, for every route, every start and every duration.
THEOREM StaysAlwaysCover == StaysSpec => []StaysCoverTrip
<1>1. StaysInit => StaysInv
  BY StaysInitInv
<1>2. StaysInv /\ [StaysNext]_stayVars => StaysInv'
  BY StaysAssumption, StaysInductive
<1>3. StaysInv => StaysCoverTrip
  BY InvCovers
<1> QED BY <1>1, <1>2, <1>3, PTL DEF StaysSpec

-----------------------------------------------------------------------------
(* DaySchedule.                                                             *)

Cards == [stop : Places, from : Int, to : Int]

ScheduleTypeOK ==
    /\ stops \in Seq(Places)
    /\ \A i \in DOMAIN legs : legs[i] \in Nat
    /\ weekday \in 0..6 /\ pace \in BOOLEAN
    /\ cards \in Seq(Cards) /\ Len(cards) <= Len(stops)
    /\ left \in Nat /\ clock \in Int
    /\ status \in {"verified", "needs_review", "infeasible"}
    /\ phase \in {"idle", "scheduling", "done"}

\* While stops are scheduled the cursor is where the last visit ended.
CursorFollows ==
    clock = IF Len(cards) = 0 THEN DayStart ELSE cards[Len(cards)].to

NightsInOrder == \A k \in 1..Len(cards) : cards[k].stop = stops[k]

ScheduleInv ==
    /\ ScheduleTypeOK /\ NightsInOrder
    /\ TravellerKeepsUp /\ OpenWhenVisited /\ NothingIsLost /\ BackByNine
    /\ phase = "scheduling" => CursorFollows /\ left = 0

-----------------------------------------------------------------------------

LEMMA LaterBounds ==
    ASSUME NEW a \in Int, NEW b \in Int
    PROVE  Later(a, b) \in Int /\ Later(a, b) >= a /\ Later(a, b) >= b
  BY DEF Later

\* A window lies within the day: it opens at a minute that is not negative.
LEMMA WindowTimes ==
    ASSUME NEW periods, periods \subseteq Int \X Int, NEW day \in 0..6,
           NEW w \in Windows(periods, day)
    PROVE  w[1] \in Nat /\ w[2] \in Int
<1>1. PICK p \in periods, shift \in {-WeekMinutes, 0, WeekMinutes} : w = Overlap(p, shift, day)
  BY DEF Windows
<1>2. p[1] \in Int /\ p[2] \in Int /\ shift \in Int /\ WeekMinutes \in Int
  BY <1>1 DEF WeekMinutes
<1> DEFINE opened == p[1] + shift
           closed == p[2] + shift + (IF p[2] <= p[1] THEN WeekMinutes ELSE 0)
           midnight == day * 24 * 60
<1>3. opened \in Int /\ closed \in Int /\ midnight \in Int
  BY <1>2
<1>4. w = <<Later(midnight, opened) - midnight, Earlier(midnight + 24 * 60, closed) - midnight>>
  BY <1>1 DEF Overlap
<1> HIDE DEF opened, closed, midnight
<1>5. Later(midnight, opened) \in Int /\ Later(midnight, opened) >= midnight
  BY <1>3, LaterBounds
<1>6. Earlier(midnight + 24 * 60, closed) \in Int
  BY <1>3 DEF Earlier
<1> QED BY <1>3, <1>4, <1>5, <1>6

\* What _opening_fit returns is not earlier than asked for, and the visit lies
\* within one window when the hours are known.
LEMMA FitIsOpen ==
    ASSUME ScheduleAssumption, weekday \in 0..6,
           NEW stop \in Places, NEW earliest \in Int,
           OpeningFit(stop, earliest) # NoTime
    PROVE  /\ OpeningFit(stop, earliest) \in Int
           /\ OpeningFit(stop, earliest) >= earliest
           /\ stop.periods # {} =>
                 \E w \in Windows(stop.periods, weekday) :
                     /\ w[1] <= OpeningFit(stop, earliest)
                     /\ OpeningFit(stop, earliest) + stop.minutes <= w[2]
<1>1. stop.periods \subseteq Int \X Int /\ stop.minutes \in Nat
  BY DEF ScheduleAssumption
<1>2. CASE stop.periods = {}
  BY <1>2 DEF OpeningFit
<1>3. CASE stop.periods # {}
  <2> DEFINE F == Fitting(stop, earliest)
             opens == {w[1] : w \in F}
             first == CHOOSE w \in F : \A v \in F : w[1] <= v[1]
  <2>1. F # {} /\ OpeningFit(stop, earliest) = Later(earliest, first[1])
    BY <1>3 DEF OpeningFit
  <2>2. \A w \in F : w \in Windows(stop.periods, weekday) /\ w[1] \in Nat /\ w[2] \in Int
    BY <1>1, WindowTimes DEF Fitting
  <2>3. opens \subseteq Nat /\ opens # {}
    BY <2>1, <2>2
  <2> HIDE DEF F
  <2>4. PICK x \in opens : \A y \in opens : x <= y
    BY <2>3, NatMinimum
  <2>5. \E w \in F : \A v \in F : w[1] <= v[1]
    BY <2>4
  <2>6. first \in F
    BY <2>5
  <2>7. /\ first \in Windows(stop.periods, weekday)
        /\ Later(earliest, first[1]) + stop.minutes <= first[2]
    BY <2>6 DEF F, Fitting
  <2>8. first[1] \in Nat
    BY <2>2, <2>6
  <2> HIDE DEF first
  <2>9. /\ Later(earliest, first[1]) \in Int /\ Later(earliest, first[1]) >= earliest
        /\ Later(earliest, first[1]) >= first[1]
    <3>1. first[1] \in Int
      BY <2>8
    <3> QED BY <3>1, LaterBounds, Zenon
  <2> DEFINE fit == Later(earliest, first[1])
  <2>10. fit \in Int /\ fit >= earliest /\ fit >= first[1] /\ first[1] <= fit
    BY <2>8, <2>9
  <2>11. fit + stop.minutes <= first[2]
    BY <2>7
  <2>12. OpeningFit(stop, earliest) = fit
    BY <2>1
  <2> HIDE DEF fit
  <2>13. \E w \in Windows(stop.periods, weekday) : w[1] <= fit /\ fit + stop.minutes <= w[2]
    BY <2>7, <2>10, <2>11
  <2> QED BY <2>10, <2>12, <2>13
<1> QED BY <1>2, <1>3

LEMMA TravelIsNat ==
    ASSUME ScheduleTypeOK, NEW i
    PROVE  Travel(i) \in Nat
  BY DEF Travel, ScheduleTypeOK

-----------------------------------------------------------------------------

\* The latest end of a visit leaves time for the leg after it, and is not after nine.
LEMMA LatestEndLeaves ==
    ASSUME ScheduleTypeOK, NEW k \in Nat
    PROVE  /\ LatestEnd(k) \in Int /\ LatestEnd(k) <= DayEnd
           /\ Len(stops) = k + 1 => LatestEnd(k) = DayEnd - Travel(k + 1)
<1> DEFINE ahead == [i \in (k + 1)..Len(stops) |-> Travel(i)]
           sum == SumFunctionOnSet(ahead, (k + 1)..Len(stops))
<1>1. LatestEnd(k) = DayEnd - sum
  BY DEF LatestEnd, SumFunction
<1>2. Len(stops) \in Nat /\ k + 1 \in Nat
  BY DEF ScheduleTypeOK
<1>3. IsFiniteSet((k + 1)..Len(stops)) /\ \A i \in (k + 1)..Len(stops) : ahead[i] \in Nat
  <2>1. k + 1 \in Int /\ Len(stops) \in Int
    BY <1>2
  <2> QED BY <2>1, FS_Interval, TravelIsNat
<1> HIDE DEF ahead
<1>4. sum \in Nat
  BY <1>3, SumIsNat
<1>5. ASSUME Len(stops) = k + 1 PROVE sum = Travel(k + 1)
  <2>1. (k + 1)..Len(stops) = {k + 1}
    BY <1>2, <1>5
  <2>2. ahead[k + 1] = Travel(k + 1) /\ ahead[k + 1] \in Nat
    BY <1>2, <1>3, <1>5 DEF ahead
  <2>3. SumFunctionOnSet(ahead, {k + 1}) = ahead[k + 1]
    BY <2>2, SumOfOne
  <2> QED BY <2>1, <2>2, <2>3
<1> HIDE DEF sum
<1> QED BY <1>1, <1>4, <1>5 DEF DayEnd

LEMMA ScheduleInitInv == ScheduleInit => ScheduleInv
<1> SUFFICES ASSUME ScheduleInit PROVE ScheduleInv
  OBVIOUS
<1>1. /\ stops = <<>> /\ legs = <<>> /\ cards = <<>> /\ weekday = 0 /\ left = 0
      /\ clock = DayStart /\ status = "verified" /\ phase = "idle"
  BY DEF ScheduleInit
<1>2. pace \in BOOLEAN
  BY Zenon DEF ScheduleInit
<1>3. stops \in Seq(Places) /\ cards \in Seq(Cards) /\ Len(stops) = 0 /\ Len(cards) = 0
      /\ DOMAIN legs = {}
  BY <1>1, EmptySeq
<1>4. ScheduleTypeOK
  BY <1>1, <1>2, <1>3 DEF ScheduleTypeOK, DayStart
<1>5. NightsInOrder /\ TravellerKeepsUp /\ OpenWhenVisited /\ BackByNine
  BY <1>1, <1>3 DEF NightsInOrder, TravellerKeepsUp, OpenWhenVisited, BackByNine
<1> QED BY <1>1, <1>4, <1>5 DEF ScheduleInv, NothingIsLost

LEMMA BeginDayInv ==
    ASSUME ScheduleAssumption, ScheduleInv,
           NEW ordered \in Seq(Places), NEW measured, \A i \in DOMAIN measured : measured[i] \in Nat,
           NEW day \in 0..6, NEW rest \in BOOLEAN, NEW known,
           BeginDay(ordered, measured, day, rest, known)
    PROVE  ScheduleInv'
<1>1. /\ stops' = ordered /\ legs' = measured /\ weekday' = day /\ pace' = rest
      /\ cards' = <<>> /\ left' = 0 /\ clock' = DayStart
      /\ status' \in {"verified", "needs_review"} /\ phase' = "scheduling"
  BY DEF BeginDay
<1>2. cards' \in Seq(Cards) /\ Len(cards') = 0 /\ stops' \in Seq(Places)
  BY <1>1, EmptySeq
<1>3. \A i \in DOMAIN legs' : legs'[i] \in Nat
  BY <1>1
<1>4. ScheduleTypeOK'
  BY <1>1, <1>2, <1>3 DEF ScheduleTypeOK, DayStart
<1>5. NightsInOrder' /\ TravellerKeepsUp' /\ OpenWhenVisited' /\ BackByNine' /\ CursorFollows'
  BY <1>1, <1>2 DEF NightsInOrder, TravellerKeepsUp, OpenWhenVisited, BackByNine, CursorFollows
<1> QED BY <1>1, <1>4, <1>5 DEF ScheduleInv, NothingIsLost

LEMMA ScheduleStopInv ==
    ASSUME ScheduleAssumption, ScheduleInv, ScheduleStop
    PROVE  ScheduleInv'
<1> DEFINE n == Len(cards)
           stop == stops[n + 1]
           from == OpeningFit(stop, Arrival)
           new == [stop |-> stop, from |-> from, to |-> from + stop.minutes]
<1>1. /\ phase = "scheduling" /\ phase' = phase /\ n < Len(stops)
      /\ from # NoTime /\ from + stop.minutes <= LatestEnd(n)
      /\ cards' = Append(cards, new) /\ clock' = from + stop.minutes
      /\ status' \in {status, Worse(status, "needs_review")}
      /\ stops' = stops /\ legs' = legs /\ weekday' = weekday /\ pace' = pace
      /\ left' = left
  BY DEF ScheduleStop, More, Fits, FittedStart, NextStop
<1>2. /\ ScheduleTypeOK /\ NightsInOrder /\ TravellerKeepsUp /\ OpenWhenVisited /\ BackByNine
      /\ CursorFollows /\ left = 0
  BY <1>1 DEF ScheduleInv
<1>3. n \in Nat /\ Len(stops) \in Nat /\ stop \in Places /\ stop.minutes \in Nat
  BY <1>1, <1>2 DEF ScheduleTypeOK, ScheduleAssumption
<1>4. Travel(n) \in Nat /\ clock \in Int
  BY <1>2, TravelIsNat DEF ScheduleTypeOK
<1> DEFINE pause == IF pace /\ n > 0 /\ n % 2 = 0 THEN RestBreak ELSE 0
<1>5. pause \in Nat /\ Arrival = clock + pause + Travel(n) + StopBuffer /\ Arrival \in Int
  BY <1>3, <1>4 DEF Arrival, RestBreak, StopBuffer
<1>6. /\ from \in Int /\ from >= Arrival
      /\ stop.periods # {} =>
            \E w \in Windows(stop.periods, weekday) : w[1] <= from /\ from + stop.minutes <= w[2]
  BY <1>1, <1>2, <1>3, <1>5, FitIsOpen DEF ScheduleTypeOK
<1> HIDE DEF from, stop, pause
<1>7. new \in Cards
  BY <1>3, <1>6 DEF Cards
<1>8. /\ cards' \in Seq(Cards) /\ Len(cards') = n + 1
      /\ \A k \in 1..n : cards'[k] = cards[k]
      /\ cards'[n + 1] = new
  BY <1>1, <1>2, <1>7, AppendProperties DEF ScheduleTypeOK
<1> HIDE DEF n
<1>9. status' \in {"verified", "needs_review", "infeasible"}
  BY <1>1, <1>2 DEF ScheduleTypeOK, Worse
<1>10. ScheduleTypeOK'
  BY <1>1, <1>2, <1>3, <1>6, <1>8, <1>9 DEF ScheduleTypeOK
<1>11. \A i : Travel(i)' = Travel(i)
  BY <1>1 DEF Travel
<1>12. NightsInOrder'
  BY <1>1, <1>2, <1>3, <1>8 DEF NightsInOrder, n, stop
<1>13. OpenWhenVisited'
  <2> SUFFICES ASSUME NEW k \in 1..Len(cards'), cards'[k].stop.periods # {}
               PROVE  \E w \in Windows(cards'[k].stop.periods, weekday) :
                          w[1] <= cards'[k].from /\ cards'[k].to <= w[2]
    BY <1>1 DEF OpenWhenVisited
  <2>1. CASE k \in 1..n
    BY <2>1, <1>2, <1>8 DEF OpenWhenVisited, n
  <2>2. CASE k = n + 1
    BY <2>2, <1>6, <1>8
  <2> QED BY <2>1, <2>2, <1>3, <1>8
<1>14. TravellerKeepsUp'
  <2> SUFFICES ASSUME NEW k \in 1..Len(cards')
               PROVE  cards'[k].from >=
                          (IF k = 1 THEN DayStart ELSE cards'[k - 1].to)
                          + (IF pace /\ k > 1 /\ (k - 1) % 2 = 0 THEN RestBreak ELSE 0)
                          + Travel(k - 1) + StopBuffer
    BY <1>1, <1>11 DEF TravellerKeepsUp
  <2>1. CASE k \in 1..n
    <3>1. k # 1 => k - 1 \in 1..n
      BY <2>1, <1>3
    <3> QED BY <3>1, <2>1, <1>2, <1>8 DEF TravellerKeepsUp, n
  <2>2. CASE k = n + 1
    <3>1. cards'[k].from = from /\ k - 1 = n
      BY <2>2, <1>3, <1>8
    <3>2. clock = IF k = 1 THEN DayStart ELSE cards'[k - 1].to
      <4>1. CASE n = 0
        BY <4>1, <2>2, <1>2 DEF CursorFollows, n
      <4>2. CASE n # 0
        <5>1. n \in 1..n /\ k # 1
          BY <4>2, <2>2, <1>3
        <5>2. cards'[k - 1] = cards[n]
          BY <5>1, <3>1, <1>8
        <5> QED BY <4>2, <5>1, <5>2, <1>2 DEF CursorFollows, n
      <4> QED BY <4>1, <4>2
    <3>3. pause = IF pace /\ k > 1 /\ (k - 1) % 2 = 0 THEN RestBreak ELSE 0
      BY <3>1, <2>2, <1>3 DEF pause
    <3>4. from >= clock + pause + Travel(k - 1) + StopBuffer
      BY <3>1, <1>5, <1>6
    <3> QED BY <3>1, <3>2, <3>3, <3>4
  <2> QED BY <2>1, <2>2, <1>3, <1>8
<1>15. CursorFollows'
  BY <1>1, <1>3, <1>8 DEF CursorFollows
<1>16. BackByNine'
  <2>1. \A i : LatestEnd(i)' = LatestEnd(i)
    BY <1>1 DEF LatestEnd, Travel
  <2> SUFFICES ASSUME NEW k \in 1..Len(cards')
               PROVE  cards'[k].to <= LatestEnd(k - 1)
    BY <1>1, <2>1 DEF BackByNine
  <2>2. CASE k \in 1..n
    BY <2>2, <1>2, <1>8 DEF BackByNine, n
  <2>3. CASE k = n + 1
    <3>1. k - 1 = n
      BY <2>3, <1>3
    <3> QED BY <2>3, <3>1, <1>1, <1>8
  <2> QED BY <2>2, <2>3, <1>3, <1>8
<1> QED BY <1>1, <1>2, <1>10, <1>12, <1>13, <1>14, <1>15, <1>16 DEF ScheduleInv, NothingIsLost

\* The steps that end a day leave the cards as they are.
LEMMA DayEndsInv ==
    ASSUME ScheduleInv, LeaveRest \/ ReturnToHotel
    PROVE  ScheduleInv'
<1>1. /\ stops' = stops /\ legs' = legs /\ weekday' = weekday /\ pace' = pace
      /\ cards' = cards /\ phase' = "done" /\ phase = "scheduling"
  BY DEF LeaveRest, ReturnToHotel, More
<1>2. ScheduleTypeOK /\ NightsInOrder /\ TravellerKeepsUp /\ OpenWhenVisited /\ BackByNine
      /\ CursorFollows
  BY <1>1 DEF ScheduleInv
<1>3. NightsInOrder' /\ TravellerKeepsUp' /\ OpenWhenVisited'
  BY <1>1, <1>2 DEF NightsInOrder, TravellerKeepsUp, OpenWhenVisited, Travel
<1>4. Len(cards) \in Nat /\ Len(stops) \in Nat /\ Travel(Len(stops)) \in Nat
  BY <1>2, TravelIsNat DEF ScheduleTypeOK
<1>7. \A k \in 1..Len(cards') : cards'[k].to <= LatestEnd(k - 1)'
  <2>1. \A i : LatestEnd(i)' = LatestEnd(i)
    BY <1>1 DEF LatestEnd, Travel
  <2> QED BY <2>1, <1>1, <1>2 DEF BackByNine
<1>8. ASSUME cards # <<>>
      PROVE  /\ Len(cards) \in Nat \ {0} /\ clock = cards[Len(cards)].to /\ clock \in Int
             /\ clock <= LatestEnd(Len(cards) - 1)
  <2>1. Len(cards) # 0
    BY <1>2, <1>8, EmptySeq DEF ScheduleTypeOK
  <2> QED BY <2>1, <1>2, <1>4 DEF CursorFollows, BackByNine, ScheduleTypeOK
<1>9. ASSUME cards # <<>>
      PROVE  /\ LatestEnd(Len(cards) - 1) \in Int /\ LatestEnd(Len(cards) - 1) <= DayEnd
             /\ Len(stops) = Len(cards) =>
                    LatestEnd(Len(cards) - 1) = DayEnd - Travel(Len(cards))
  <2> DEFINE k == Len(cards) - 1
  <2>1. k \in Nat /\ k + 1 = Len(cards)
    BY <1>8, <1>9
  <2> HIDE DEF k
  <2>2. LatestEnd(k) \in Int /\ LatestEnd(k) <= DayEnd
        /\ (Len(stops) = k + 1 => LatestEnd(k) = DayEnd - Travel(k + 1))
    BY <2>1, <1>2, LatestEndLeaves
  <2> QED BY <2>1, <2>2 DEF k
<1>5. CASE LeaveRest
  <2>1. left' = Len(stops) - Len(cards) /\ left' \in Nat /\ status' = "infeasible"
        /\ clock' = clock
    BY <1>5, <1>2, <1>4 DEF LeaveRest, ScheduleTypeOK
  <2>2. ScheduleTypeOK' /\ NothingIsLost'
    BY <2>1, <1>1, <1>2, <1>4 DEF ScheduleTypeOK, NothingIsLost, NightsInOrder
  <2>3. BackByNine'
    BY <2>1, <1>1, <1>7, <1>8, <1>9 DEF BackByNine, DayEnd
  <2> QED BY <2>2, <2>3, <1>1, <1>3 DEF ScheduleInv
<1>6. CASE ReturnToHotel
  <2>1. Len(cards) = Len(stops) /\ left' = 0 /\ clock' \in Int
    BY <1>6, <1>1, <1>2, <1>4 DEF ReturnToHotel, ScheduleTypeOK, ScheduleInv
  <2>2. status' \in {status, "infeasible"}
    BY <1>6 DEF ReturnToHotel
  <2>3. BackByNine'
    <3>1. ASSUME cards # <<>> PROVE clock' <= DayEnd
      <4>1. clock' = clock + Travel(Len(cards))
        BY <1>6, <2>1, <3>1 DEF ReturnToHotel
      <4> QED BY <4>1, <3>1, <2>1, <1>4, <1>8, <1>9 DEF DayEnd
    <3> QED BY <3>1, <1>1, <1>7 DEF BackByNine
  <2>4. ScheduleTypeOK' /\ NothingIsLost'
    BY <2>1, <2>2, <1>1, <1>2, <1>4 DEF ScheduleTypeOK, NothingIsLost, NightsInOrder
  <2> QED BY <2>3, <2>4, <1>1, <1>3 DEF ScheduleInv
<1> QED BY <1>5, <1>6

LEMMA ScheduleInductive ==
    ASSUME ScheduleAssumption, ScheduleInv, [ScheduleNext]_dayVars
    PROVE  ScheduleInv'
<1>1. CASE \E ordered \in DayStops, measured \in DayLegs, day \in 0..6,
              rest \in BOOLEAN, known \in BOOLEAN :
              BeginDay(ordered, measured, day, rest, known)
  BY <1>1, BeginDayInv DEF ScheduleAssumption
<1>2. CASE ScheduleStop
  BY <1>2, ScheduleStopInv
<1>3. CASE LeaveRest \/ ReturnToHotel
  BY <1>3, DayEndsInv
<1>4. CASE UNCHANGED dayVars
  BY <1>4 DEF dayVars, ScheduleInv, ScheduleTypeOK, NightsInOrder, TravellerKeepsUp,
              OpenWhenVisited, NothingIsLost, BackByNine, LatestEnd, CursorFollows, Travel
<1> QED BY <1>1, <1>2, <1>3, <1>4 DEF ScheduleNext

LEMMA ScheduleInvariant == ScheduleSpec => []ScheduleInv
<1>1. ScheduleInit => ScheduleInv
  BY ScheduleInitInv
<1>2. ScheduleInv /\ [ScheduleNext]_dayVars => ScheduleInv'
  BY ScheduleAssumption, ScheduleInductive
<1> QED BY <1>1, <1>2, PTL DEF ScheduleSpec

\* For every route, every measured leg, every duration and every weekly timetable
\* there is time between two visits for the leg, the handling buffer and the rest,
\* no visit lies outside the known opening hours, and a feasible day leaves no
\* selected stop unscheduled.
THEOREM DayIsAlwaysSound == ScheduleSpec => []DayIsSound
<1>1. ScheduleInv => DayIsSound
  BY DEF ScheduleInv, DayIsSound
<1> QED BY <1>1, ScheduleInvariant, PTL


-----------------------------------------------------------------------------
(* TripPlan.                                                                *)

\* The places of the conversation: where a skeleton has been settled, a draft
\* selected.
Settling == {"hotels", "draft", "routing", "itinerary", "planned"}
Drafting == {"routing", "itinerary", "planned"}

TripTypeOK ==
    /\ request \in Requests \cup {None}
    /\ pc # "idle" => request \in Requests
    /\ routed \in BOOLEAN /\ feedback \in BOOLEAN
    /\ pc \in {"idle", "discovering", "skeleton", "allocating", "ended"} \cup Settling
    /\ flights.offers \subseteq Offers /\ places \subseteq Places
    /\ skeleton \in Skeletons \cup {None} /\ DOMAIN searches \subseteq Nat
    /\ draft # None => \A d \in DOMAIN draft.days : draft.days[d] \in Seq(Places)
    /\ routes # None => \A d \in DOMAIN routes :
          routes[d].stops \in Seq(Places) /\ \A i \in DOMAIN routes[d].legs : routes[d].legs[i] \in Nat

\* The scheduler is at rest outside the itinerary pipeline.
Resting == pc # "itinerary" => phase = "idle" /\ compiled = <<>>

\* The allocation under way is the one this request and its flights ask for.
Begun ==
    /\ alloc = "allocating" /\ SkeletonPossible
    /\ route = OrderedCities /\ start = TripStart /\ days = TripDays
    /\ back = (SelectedFlight # None /\ Len(OrderedCities) > 1)

\* The stays of a skeleton follow one another from its first day to its last.
Consecutive(s) ==
    /\ s.stays # <<>>
    /\ \A k \in 1..Len(s.stays) :
          /\ s.stays[k].nights >= 1
          /\ s.stays[k].checkOut - s.stays[k].checkIn = s.stays[k].nights
          /\ s.stays[k].checkIn = IF k = 1 THEN s.start ELSE s.stays[k - 1].checkOut
    /\ s.stays[Len(s.stays)].checkOut = s.start + s.days - 1

\* The skeleton is of this request, and of the flights that were found for it.
SkeletonFits ==
    /\ skeleton \in Skeletons /\ SkeletonPossible
    /\ skeleton.start = TripStart /\ skeleton.days = TripDays
    /\ skeleton.flight = SelectedFlight
    /\ Consecutive(skeleton)
    /\ StayCities(skeleton) = ToSet(request.cities)
    /\ SelectedFlight # None =>
          /\ skeleton.stays[1].city = SelectedFlight.to
          /\ skeleton.stays[Len(skeleton.stays)].city = SelectedFlight.to
          /\ SelectedFlight.from = skeleton.start
          /\ SelectedFlight.until = skeleton.start + skeleton.days - 1

\* The draft is of this skeleton: every stop on one day, where the traveller is,
\* and a rate for every stay.
DraftFits ==
    /\ DOMAIN draft.days = TripDayNumbers(skeleton)
    /\ \A d \in DOMAIN draft.days :
          /\ draft.days[d] \in Seq(Places) /\ IsInjective(draft.days[d])
          /\ \A p \in ToSet(draft.days[d]) : CityFits(p, d)
    /\ \A d, e \in DOMAIN draft.days :
          d # e => ToSet(draft.days[d]) \cap ToSet(draft.days[e]) = {}
    /\ request.hotels =>
          /\ DOMAIN draft.rates = DOMAIN skeleton.stays
          /\ \A k \in DOMAIN skeleton.stays : RateFits(draft.rates[k], skeleton.stays[k])

\* The visits of a day are to stops the draft has for it, each to another.
VisitsOf(visits, d) ==
    /\ \A i \in DOMAIN visits : visits[i].stop \in ToSet(draft.days[d])
    /\ \A i, j \in DOMAIN visits : visits[i].stop = visits[j].stop => i = j

CompiledDays == [cards : Seq(Cards), left : Nat,
                 status : {"verified", "needs_review", "infeasible"}]

\* The days compiled so far, and the one being scheduled.
Compiling ==
    /\ compiled \in Seq(CompiledDays) /\ Len(compiled) <= skeleton.days
    /\ \A d \in 1..Len(compiled) : VisitsOf(compiled[d].cards, d)
    /\ phase # "idle" =>
          /\ Number <= skeleton.days /\ ~CompileRaises
          /\ IsInjective(stops) /\ ToSet(stops) \subseteq ToSet(draft.days[Number])

PlanFits ==
    /\ plan.start = skeleton.start /\ plan.stays = skeleton.stays /\ plan.rates = draft.rates
    /\ plan.days \in Seq(CompiledDays) /\ Len(plan.days) = skeleton.days
    /\ \A d \in 1..Len(plan.days) : VisitsOf(plan.days[d].cards, d)

\* Every artifact in use is of the one before it.
ChainInv ==
    /\ pc = "allocating" => Begun
    /\ pc \in Settling => SkeletonFits
    /\ pc \in Drafting => DraftFits
    /\ pc = "itinerary" => Compiling
    /\ pc = "planned" => PlanFits

TripInv == StaysInv /\ ScheduleInv /\ TripTypeOK /\ Resting /\ ChainInv

-----------------------------------------------------------------------------

\* Putting a city of the route in front, from its place, adds and loses none.
LEMMA ToFront ==
    ASSUME NEW S, NEW s \in Seq(S), NEW c \in ToSet(s)
    PROVE  /\ ToSet(<<c>> \o RemoveFirst(s, c)) = ToSet(s)
           /\ (<<c>> \o RemoveFirst(s, c))[1] = c
<1> DEFINE places_ == {i \in 1..Len(s) : s[i] = c}
           at == Min(places_)
<1>1. Len(s) \in Nat /\ DOMAIN s = 1..Len(s) /\ \A i \in 1..Len(s) : s[i] \in S
  BY LenProperties, ElementOfSeq
<1>2. places_ # {} /\ places_ \subseteq Nat /\ c \in S
  BY <1>1 DEF ToSet
<1>3. at \in places_
  BY <1>2, NatMinimum DEF Min
<1>4. SelectInSeq(s, LAMBDA v : v = c) = at
  BY <1>2 DEF SelectInSeq
<1> HIDE DEF at
<1>5. RemoveFirst(s, c) = SubSeq(s, 1, at - 1) \o SubSeq(s, at + 1, Len(s))
  BY <1>3, <1>4 DEF RemoveFirst, RemoveAt
<1>6. at \in 1..Len(s) /\ s[at] = c
  BY <1>3
<1> DEFINE before == SubSeq(s, 1, at - 1)
           after == SubSeq(s, at + 1, Len(s))
<1>7. /\ before \in Seq(S) /\ Len(before) = at - 1
      /\ \A i \in 1..(at - 1) : before[i] = s[i]
  <2>1. \A i \in 1..(at - 1) : s[i] \in S
    BY <1>1, <1>6
  <2> QED BY <2>1, <1>1, <1>6, SubSeqProperties
<1>8. /\ after \in Seq(S) /\ Len(after) = Len(s) - at
      /\ \A i \in 1..(Len(s) - at) : after[i] = s[at + i]
  <2>1. \A i \in (at + 1)..Len(s) : s[i] \in S
    BY <1>1, <1>6
  <2>2. /\ after \in Seq(S)
        /\ Len(after) = IF at + 1 <= Len(s) THEN Len(s) - (at + 1) + 1 ELSE 0
        /\ \A i \in 1..(Len(s) - (at + 1) + 1) : after[i] = s[(at + 1) + i - 1]
    BY <2>1, <1>1, <1>6, SubSeqProperties
  <2> HIDE DEF after
  <2>3. Len(after) = Len(s) - at
    <3>1. Len(after) = IF at + 1 <= Len(s) THEN Len(s) - (at + 1) + 1 ELSE 0
      BY <2>2
    <3>2. at \in Int /\ at <= Len(s) /\ Len(s) \in Int
      BY <1>1, <1>6
    <3> QED BY <3>1, <3>2
  <2>4. ASSUME NEW i \in 1..(Len(s) - at) PROVE after[i] = s[at + i]
    <3>1. i \in 1..(Len(s) - (at + 1) + 1) /\ (at + 1) + i - 1 = at + i
      BY <1>1, <1>6
    <3> QED BY <3>1, <2>2
  <2> QED BY <2>2, <2>3, <2>4
<1> HIDE DEF before, after
<1> DEFINE rest == before \o after
<1>9. /\ rest \in Seq(S) /\ Len(rest) = Len(s) - 1
      /\ \A i \in 1..(Len(s) - 1) : rest[i] = IF i < at THEN s[i] ELSE s[i + 1]
  <2>1. /\ rest \in Seq(S) /\ Len(rest) = Len(before) + Len(after)
        /\ \A i \in 1..(Len(before) + Len(after)) :
              rest[i] = IF i <= Len(before) THEN before[i] ELSE after[i - Len(before)]
    BY <1>7, <1>8, ConcatProperties
  <2> HIDE DEF rest
  <2>2. Len(before) + Len(after) = Len(s) - 1
    BY <1>1, <1>6, <1>7, <1>8
  <2>3. ASSUME NEW i \in 1..(Len(s) - 1) PROVE rest[i] = IF i < at THEN s[i] ELSE s[i + 1]
    <3>1. rest[i] = IF i <= at - 1 THEN before[i] ELSE after[i - (at - 1)]
      BY <2>1, <2>2, <1>7
    <3>2. CASE i < at
      BY <3>1, <3>2, <1>1, <1>6, <1>7
    <3>3. CASE ~(i < at)
      <4>1. i - (at - 1) \in 1..(Len(s) - at) /\ at + (i - (at - 1)) = i + 1 /\ ~(i <= at - 1)
        BY <3>3, <1>1, <1>6
      <4>2. after[i - (at - 1)] = s[at + (i - (at - 1))]
        BY <4>1, <1>8
      <4> QED BY <3>1, <3>3, <4>1, <4>2
    <3> QED BY <3>2, <3>3
  <2> QED BY <2>1, <2>2, <2>3
<1>10. RemoveFirst(s, c) = rest
  BY <1>5 DEF before, after
<1> HIDE DEF rest
<1> DEFINE all == <<c>> \o rest
<1>11. /\ all \in Seq(S) /\ Len(all) = Len(s)
       /\ \A i \in 1..Len(s) : all[i] = IF i = 1 THEN c ELSE rest[i - 1]
  <2>1. <<c>> \in Seq(S) /\ Len(<<c>>) = 1 /\ <<c>>[1] = c
    BY <1>2
  <2>2. /\ all \in Seq(S) /\ Len(all) = Len(<<c>>) + Len(rest)
        /\ \A i \in 1..(Len(<<c>>) + Len(rest)) :
              all[i] = IF i <= Len(<<c>>) THEN <<c>>[i] ELSE rest[i - Len(<<c>>)]
    BY <2>1, <1>9, ConcatProperties
  <2> HIDE DEF all
  <2> QED BY <2>1, <2>2, <1>1, <1>6, <1>9
<1> HIDE DEF all
<1>12. DOMAIN all = 1..Len(s)
  BY <1>11, LenProperties
<1>13. ASSUME NEW i \in 1..Len(s) PROVE all[i] \in ToSet(s)
  <2>1. CASE i = 1
    BY <2>1, <1>11
  <2>2. CASE i # 1 /\ i - 1 < at
    <3>1. i - 1 \in 1..(Len(s) - 1) /\ i - 1 \in 1..Len(s)
      BY <2>2, <1>1
    <3>2. all[i] = s[i - 1]
      BY <3>1, <2>2, <1>9, <1>11
    <3> QED BY <3>1, <3>2, <1>1 DEF ToSet
  <2>3. CASE i # 1 /\ i - 1 >= at
    <3>1. i - 1 \in 1..(Len(s) - 1)
      BY <2>3, <1>1
    <3>2. (i - 1) + 1 = i /\ ~(i - 1 < at)
      BY <2>3, <1>1, <1>6
    <3>3. all[i] = s[i]
      BY <3>1, <3>2, <2>3, <1>9, <1>11
    <3> QED BY <3>3, <1>1 DEF ToSet
  <2> QED BY <2>1, <2>2, <2>3, <1>1, <1>6
<1>14. ASSUME NEW j \in 1..Len(s) PROVE \E i \in 1..Len(s) : all[i] = s[j]
  <2>1. CASE j = at
    BY <2>1, <1>1, <1>6, <1>11
  <2>2. CASE j < at
    <3>1. j + 1 \in 1..Len(s) /\ j \in 1..(Len(s) - 1) /\ j + 1 # 1 /\ (j + 1) - 1 = j
      BY <2>2, <1>1, <1>6
    <3> QED BY <3>1, <2>2, <1>9, <1>11
  <2>3. CASE j > at
    <3>1. j - 1 \in 1..(Len(s) - 1) /\ j # 1 /\ ~(j - 1 < at) /\ (j - 1) + 1 = j
      BY <2>3, <1>1, <1>6
    <3> QED BY <3>1, <1>9, <1>11
  <2> QED BY <2>1, <2>2, <2>3, <1>1, <1>6
<1>15. ToSet(all) = ToSet(s)
  BY <1>1, <1>12, <1>13, <1>14 DEF ToSet
<1>16. 1 \in 1..Len(s)
  BY <1>1, <1>6
<1> QED BY <1>10, <1>11, <1>15, <1>16 DEF all

\* A sequence with the elements of one without repetitions, and as many, has
\* none either.
LEMMA SameElementsInjective ==
    ASSUME NEW S, NEW s \in Seq(S), NEW t \in Seq(S),
           Len(s) = Len(t), ToSet(s) = ToSet(t), IsInjective(t)
    PROVE  IsInjective(s)
<1> DEFINE n == Len(t)
           T == ToSet(t)
<1>1. n \in Nat /\ DOMAIN s = 1..n /\ DOMAIN t = 1..n /\ s \in [1..n -> S] /\ t \in [1..n -> S]
  BY LenProperties
<1>2. IsFiniteSet(1..n)
  BY <1>1, FS_Interval
<1>3. t \in Surjection(1..n, T) /\ t \in Injection(1..n, T)
  BY <1>1 DEF Surjection, Injection, IsInjective, ToSet
<1>4. Cardinality(T) = Cardinality(1..n)
  BY <1>2, <1>3, FS_Surjection
<1>5. s \in Surjection(1..n, T)
  BY <1>1 DEF Surjection, ToSet
<1>6. s \in Injection(1..n, T)
  BY <1>2, <1>4, <1>5, FS_Surjection
<1> QED BY <1>1, <1>6 DEF Injection, IsInjective

\* Every night of consecutive stays is slept in exactly one of them.
LEMMA OneStayANight ==
    ASSUME NEW s, s.stays \in Seq(StayRecords), s.start \in Int, s.days \in Int, Consecutive(s),
           NEW date \in Int, s.start <= date, date < s.start + s.days - 1
    PROVE  \E k \in DOMAIN s.stays : \A j \in DOMAIN s.stays :
              s.stays[j].checkIn <= date /\ date < s.stays[j].checkOut <=> j = k
<1> DEFINE n == Len(s.stays)
           over == {k \in 1..n : date < s.stays[k].checkOut}
<1>1. n \in Nat \ {0} /\ DOMAIN s.stays = 1..n
  BY EmptySeq, LenProperties DEF Consecutive
<1>2. \A k \in 1..n : s.stays[k].checkIn \in Int /\ s.stays[k].checkOut \in Int
  <2>1. ASSUME NEW k \in 1..n PROVE s.stays[k] \in StayRecords
    BY ElementOfSeq
  <2> QED BY <2>1 DEF StayRecords
<1>3. /\ \A k \in 1..n : s.stays[k].checkIn < s.stays[k].checkOut
      /\ \A k \in 1..n : s.stays[k].checkIn = IF k = 1 THEN s.start ELSE s.stays[k - 1].checkOut
      /\ s.stays[n].checkOut = s.start + s.days - 1
  <2>1. ASSUME NEW k \in 1..n PROVE s.stays[k].checkIn < s.stays[k].checkOut
    <3>1. s.stays[k].nights >= 1 /\ s.stays[k].checkOut - s.stays[k].checkIn = s.stays[k].nights
      BY DEF Consecutive
    <3> QED BY <3>1, <1>2
  <2> QED BY <2>1 DEF Consecutive
<1>4. n \in over /\ over \subseteq Nat
  BY <1>1, <1>3
<1>5. PICK k \in over : \A j \in over : k <= j
  <2>1. over # {}
    BY <1>4
  <2> QED BY <2>1, <1>4, NatMinimum
<1>6. k \in 1..n /\ date < s.stays[k].checkOut
  BY <1>5
<1>7. s.stays[k].checkIn <= date
  <2>1. CASE k = 1
    BY <2>1, <1>3, <1>6
  <2>2. CASE k # 1
    <3>1. k - 1 \in 1..n /\ k - 1 < k
      BY <2>2, <1>1, <1>6
    <3>2. k - 1 \notin over
      BY <3>1, <1>5, <1>4
    <3> QED BY <3>1, <3>2, <2>2, <1>2, <1>3, <1>6
  <2> QED BY <2>1, <2>2
<1>8. ASSUME NEW j \in 1..n, s.stays[j].checkIn <= date, date < s.stays[j].checkOut, j # k
      PROVE  FALSE
  <2> DEFINE later == {i \in 1..n : i > k /\ s.stays[i].checkIn <= date}
  <2>1. j \in over /\ k <= j
    BY <1>5, <1>8
  <2>2. j \in later /\ later \subseteq Nat
    BY <2>1, <1>1, <1>6, <1>8
  <2>3. PICK m \in later : \A i \in later : m <= i
    <3>1. later # {}
      BY <2>2
    <3> QED BY <3>1, <2>2, NatMinimum
  <2>4. m \in 1..n /\ m > k /\ m - 1 \in 1..n /\ m # 1 /\ s.stays[m].checkIn <= date
    BY <2>3, <1>1, <1>6
  <2>5. s.stays[m - 1].checkOut <= date /\ s.stays[m - 1].checkIn <= date
    <3>1. s.stays[m].checkIn = s.stays[m - 1].checkOut
      BY <2>4, <1>3
    <3>2. s.stays[m - 1].checkIn < s.stays[m - 1].checkOut
      BY <2>4, <1>3
    <3>3. /\ s.stays[m].checkIn \in Int
          /\ s.stays[m - 1].checkIn \in Int /\ s.stays[m - 1].checkOut \in Int
      BY <2>4, <1>2
    <3>4. s.stays[m - 1].checkOut <= date
      BY <3>1, <2>4
    <3> QED BY <3>2, <3>3, <3>4
  <2>6. m - 1 # k
    BY <2>4, <2>5, <1>2, <1>6
  <2>7. m - 1 \in later
    BY <2>4, <2>5, <2>6, <1>1, <1>6
  <2> QED BY <2>3, <2>4, <2>7
<1> QED BY <1>1, <1>6, <1>7, <1>8

-----------------------------------------------------------------------------
\* A flight is selected exactly when there is a candidate, and is one of them.
LEMMA FlightSelected ==
    ASSUME TripTypeOK
    PROVE  /\ SelectedFlight \in Offers \cup {None}
           /\ SelectedFlight # None => SelectedFlight \in FlightCandidates
<1>1. FlightCandidates \subseteq Offers
  BY DEF FlightCandidates, TripTypeOK
<1>2. CASE FlightCandidates = {}
  BY <1>2 DEF SelectedFlight
<1>3. CASE FlightCandidates # {}
  <2> DEFINE amounts == {o.amount : o \in FlightCandidates}
  <2>1. amounts \subseteq Nat /\ amounts # {}
    BY <1>1, <1>3, TripAssumption
  <2>2. PICK x \in amounts : \A y \in amounts : x <= y
    BY <2>1, NatMinimum
  <2>3. \E o \in FlightCandidates : \A p \in FlightCandidates : o.amount <= p.amount
    BY <2>2
  <2>4. SelectedFlight \in FlightCandidates
    BY <1>3, <2>3 DEF SelectedFlight
  <2> QED BY <1>1, <2>4
<1> QED BY <1>2, <1>3

\* What trip_skeleton_node asks of allocate_city_stays is one of the cases that
\* CityStays is about, and has the cities of the request.
LEMMA SkeletonAsked ==
    ASSUME TripTypeOK, request \in Requests, SkeletonPossible
    PROVE  /\ OrderedCities \in Routes /\ ToSet(OrderedCities) = ToSet(request.cities)
           /\ TripStart \in Starts /\ TripDays \in Durations
           /\ SelectedFlight # None => OrderedCities[1] = SelectedFlight.to
<1>1. DatesKnown /\ (SelectedFlight # None => SelectedFlight.to \in ToSet(request.cities))
  BY DEF SkeletonPossible
<1>2. request.cities \in Routes /\ request.cities \in Seq(Cities)
  BY TripAssumption, StaysAssumption
<1>3. /\ OrderedCities \in Routes /\ ToSet(OrderedCities) = ToSet(request.cities)
      /\ SelectedFlight # None => OrderedCities[1] = SelectedFlight.to
  <2>1. CASE SelectedFlight = None
    BY <2>1, <1>2 DEF OrderedCities
  <2>2. CASE SelectedFlight # None
    <3> DEFINE to == SelectedFlight.to
    <3>1. to \in ToSet(request.cities) /\ OrderedCities = <<to>> \o RemoveFirst(request.cities, to)
      BY <2>2, <1>1 DEF OrderedCities
    <3> HIDE DEF to
    <3>2. <<to>> \o RemoveFirst(request.cities, to) \in Routes
      BY <3>1, TripAssumption
    <3>3. /\ ToSet(<<to>> \o RemoveFirst(request.cities, to)) = ToSet(request.cities)
          /\ (<<to>> \o RemoveFirst(request.cities, to))[1] = to
      BY <3>1, <1>2, ToFront
    <3> QED BY <3>1, <3>2, <3>3 DEF to
  <2> QED BY <2>1, <2>2
<1>4. TripDays \in Durations
  BY <1>1, TripAssumption DEF DatesKnown, TripDays, ExactDays
<1>5. TripStart \in Starts
  <2>1. CASE request.first # 0
    BY <2>1, TripAssumption DEF TripStart
  <2>2. CASE request.first = 0
    <3>1. SelectedFlight # None
      BY <2>2, <1>1 DEF DatesKnown
    <3>2. SelectedFlight \in Offers
      BY <3>1, FlightSelected
    <3> QED BY <3>2, <2>2, TripAssumption DEF TripStart
  <2> QED BY <2>1, <2>2
<1> QED BY <1>3, <1>4, <1>5

LEMMA StaysRest ==
    ASSUME StaysInv, UNCHANGED stayVars
    PROVE  StaysInv'
  BY StaysAssumption, StaysInductive

LEMMA ScheduleRests ==
    ASSUME ScheduleInv, UNCHANGED dayVars
    PROVE  ScheduleInv'
  BY ScheduleAssumption, ScheduleInductive

\* A skeleton goes on fitting its request and its flights, a draft its skeleton,
\* a plan its draft.
LEMMA SkeletonKept ==
    ASSUME SkeletonFits, UNCHANGED <<request, flights, skeleton>>
    PROVE  SkeletonFits'
<1>1. /\ SkeletonPossible' = SkeletonPossible /\ TripStart' = TripStart /\ TripDays' = TripDays
      /\ SelectedFlight' = SelectedFlight
  BY DEF SkeletonPossible, DatesKnown, SelectedFlight, FlightCandidates, TripStart, TripDays,
         ExactDays
<1>2. request' = request /\ skeleton' = skeleton
  OBVIOUS
<1>3. Consecutive(skeleton)' /\ StayCities(skeleton)' = ToSet(request'.cities)
  BY <1>2 DEF SkeletonFits, Consecutive, StayCities
<1> QED BY <1>1, <1>2, <1>3 DEF SkeletonFits

LEMMA DraftKept ==
    ASSUME DraftFits, UNCHANGED <<request, skeleton, draft>>
    PROVE  DraftFits'
<1>1. request' = request /\ skeleton' = skeleton /\ draft' = draft
  OBVIOUS
<1>2. \A p, d : CityFits(p, d)' = CityFits(p, d)
  BY <1>1 DEF CityFits, CanonicalCity, CityOfDay, StayCities
<1>3. TripDayNumbers(skeleton)' = TripDayNumbers(skeleton)
  BY <1>1 DEF TripDayNumbers
<1> QED BY <1>1, <1>2, <1>3 DEF DraftFits

\* A settled skeleton has been written: there is one, and its days are dated.
LEMMA SkeletonTyped ==
    ASSUME SkeletonFits
    PROVE  /\ skeleton # None /\ skeleton.start \in Int /\ skeleton.days \in Nat
           /\ skeleton.stays \in Seq(StayRecords)
  BY NoneAssumption DEF SkeletonFits, Skeletons

-----------------------------------------------------------------------------
\* The steps before and beside the skeleton.

LEMMA AskInv ==
    ASSUME TripInv, Ask
    PROVE  TripInv'
<1>1. /\ request' \in Requests /\ pc' = "discovering" /\ pc \in {"idle", "ended", "planned"}
      /\ UNCHANGED <<feedback, compiled, artifacts, stayVars, dayVars>>
      /\ routed' = request'.routed
  BY DEF Ask
<1>2. StaysInv' /\ ScheduleInv'
  BY <1>1, StaysRest, ScheduleRests DEF TripInv
<1>3. routed' \in BOOLEAN
  BY <1>1, TripAssumption
<1>4. TripTypeOK'
  BY <1>1, <1>3 DEF TripInv, TripTypeOK, artifacts
<1>5. Resting' /\ ChainInv'
  BY <1>1 DEF TripInv, Resting, ChainInv, dayVars, Settling, Drafting
<1> QED BY <1>2, <1>4, <1>5 DEF TripInv

LEMMA DiscoverInv ==
    ASSUME TripInv, Discover
    PROVE  TripInv'
<1>1. /\ pc = "discovering" /\ pc' \in {"ended", "skeleton"}
      /\ flights' = flights \/ \E found \in FlightResults :
           flights'.offers = flights.offers \cup found
      /\ places' \in IF request.look THEN PlaceResults ELSE {places}
      /\ UNCHANGED <<skeleton, searches, draft, routes, plan, compiled, asked, stayVars, dayVars>>
  BY DEF Discover
<1>2. StaysInv' /\ ScheduleInv'
  BY <1>1, StaysRest, ScheduleRests DEF TripInv
<1>3. flights'.offers \subseteq Offers /\ places' \subseteq Places
  BY <1>1, TripAssumption DEF TripInv, TripTypeOK, Offers
<1>4. TripTypeOK'
  BY <1>1, <1>3 DEF TripInv, TripTypeOK, asked, Settling
<1>5. Resting' /\ ChainInv'
  BY <1>1 DEF TripInv, Resting, ChainInv, dayVars, Settling, Drafting
<1> QED BY <1>2, <1>4, <1>5 DEF TripInv

\* A step that ends the turn and leaves every artifact, or only takes the draft
\* or the plan back.
LEMMA TurnEndsInv ==
    ASSUME TripInv, pc # "idle", pc' = "ended", compiled' = <<>>, phase = "idle",
           draft' \in {draft, None},
           UNCHANGED <<flights, places, skeleton, searches, routes, request, routed>>,
           feedback' \in BOOLEAN, UNCHANGED <<stayVars, dayVars>>
    PROVE  TripInv'
<1>1. StaysInv' /\ ScheduleInv'
  BY StaysRest, ScheduleRests DEF TripInv
<1>2. TripTypeOK'
  BY DEF TripInv, TripTypeOK, Settling
<1>3. Resting' /\ ChainInv'
  BY DEF TripInv, Resting, ChainInv, dayVars, Settling, Drafting
<1> QED BY <1>1, <1>2, <1>3 DEF TripInv

LEMMA EndingsInv ==
    ASSUME TripInv, RefuseSkeleton \/ DraftFails \/ DraftUnchanged \/ RejectPlan
    PROVE  TripInv'
<1>1. /\ pc' = "ended" /\ pc \in {"skeleton", "draft", "planned"} /\ draft' \in {draft, None}
      /\ UNCHANGED <<flights, places, skeleton, searches, routes, request, routed, compiled>>
      /\ UNCHANGED <<stayVars, dayVars>>
  BY DEF RefuseSkeleton, DraftFails, DraftUnchanged, RejectPlan, artifacts, asked
<1>2. feedback' \in BOOLEAN
  <2>1. feedback' = feedback \/ feedback' \in BOOLEAN
    BY DEF RefuseSkeleton, DraftFails, DraftUnchanged, RejectPlan, asked
  <2>2. feedback \in BOOLEAN
    BY DEF TripInv, TripTypeOK
  <2> QED BY <2>1, <2>2
<1>3. phase = "idle" /\ compiled' = <<>>
  BY <1>1 DEF TripInv, Resting
<1>4. pc # "idle"
  BY <1>1
<1> QED BY <1>1, <1>2, <1>3, <1>4, TurnEndsInv

LEMMA CompileFailsInv ==
    ASSUME TripInv, CompileFails
    PROVE  TripInv'
<1>1. /\ pc = "itinerary" /\ phase # "scheduling" /\ CompileRaises
      /\ pc' = "ended" /\ compiled' = <<>> /\ draft' = draft
      /\ UNCHANGED <<flights, places, skeleton, searches, routes, request, routed, feedback>>
      /\ UNCHANGED <<stayVars, dayVars>>
  BY DEF CompileFails, asked
<1>2. phase = "idle"
  BY <1>1 DEF TripInv, ChainInv, Compiling
<1>3. feedback' \in BOOLEAN
  BY <1>1 DEF TripInv, TripTypeOK
<1> QED BY <1>1, <1>2, <1>3, TurnEndsInv

LEMMA BeginSkeletonInv ==
    ASSUME TripInv, BeginSkeleton
    PROVE  TripInv'
<1> DEFINE back_ == SelectedFlight # None /\ Len(OrderedCities) > 1
<1>1. /\ pc = "skeleton" /\ SkeletonPossible
      /\ BeginAllocation(OrderedCities, TripStart, TripDays, back_)
      /\ pc' = IF alloc' = "refused" THEN "ended" ELSE "allocating"
      /\ UNCHANGED <<artifacts, asked, compiled, dayVars>>
  BY DEF BeginSkeleton
<1>2. request \in Requests /\ TripTypeOK /\ StaysInv
  <2>1. TripTypeOK /\ StaysInv /\ pc # "idle"
    BY <1>1 DEF TripInv
  <2>2. request \in Requests
    BY <2>1 DEF TripTypeOK
  <2> QED BY <2>1, <2>2
<1>3. OrderedCities \in Routes /\ TripStart \in Starts /\ TripDays \in Durations /\ back_ \in BOOLEAN
  BY <1>1, <1>2, SkeletonAsked
<1>4. StaysInv'
  BY <1>1, <1>2, <1>3, StaysAssumption, BeginAllocationInv
<1>5. ScheduleInv'
  BY <1>1, ScheduleRests DEF TripInv
<1>6. TripTypeOK'
  BY <1>1 DEF TripInv, TripTypeOK, asked, artifacts, Settling
<1>7. Resting'
  BY <1>1 DEF TripInv, Resting, dayVars
<1>8. ChainInv'
  <2>1. UNCHANGED <<request, flights>>
    BY <1>1 DEF asked, artifacts
  <2>2. /\ SkeletonPossible' = SkeletonPossible /\ OrderedCities' = OrderedCities
        /\ TripStart' = TripStart /\ TripDays' = TripDays /\ SelectedFlight' = SelectedFlight
    BY <2>1 DEF SkeletonPossible, DatesKnown, SelectedFlight, FlightCandidates, OrderedCities,
                TripStart, TripDays, ExactDays
  <2>3. ASSUME pc' = "allocating" PROVE Begun'
    BY <2>2, <2>3, <1>1 DEF Begun, BeginAllocation
  <2> QED BY <2>3, <1>1 DEF ChainInv, Settling, Drafting
<1> QED BY <1>4, <1>5, <1>6, <1>7, <1>8 DEF TripInv

LEMMA AllocateInv ==
    ASSUME TripInv, Allocate
    PROVE  TripInv'
<1>1. /\ pc = "allocating" /\ pc' = pc /\ (AddStay \/ AddGatewayStay)
      /\ UNCHANGED <<artifacts, asked, compiled, dayVars>>
      /\ UNCHANGED <<route, start, days, back, alloc>>
  BY DEF Allocate, AddStay, AddGatewayStay, Append1
<1>2. StaysInv'
  BY <1>1, AddStayInv, AddGatewayInv DEF TripInv
<1>3. ScheduleInv'
  BY <1>1, ScheduleRests DEF TripInv
<1>4. TripTypeOK' /\ Resting'
  BY <1>1 DEF TripInv, TripTypeOK, asked, artifacts, Resting, dayVars
<1>5. ChainInv'
  <2>1. UNCHANGED <<request, flights>>
    BY <1>1 DEF asked, artifacts
  <2>2. /\ SkeletonPossible' = SkeletonPossible /\ OrderedCities' = OrderedCities
        /\ TripStart' = TripStart /\ TripDays' = TripDays /\ SelectedFlight' = SelectedFlight
    BY <2>1 DEF SkeletonPossible, DatesKnown, SelectedFlight, FlightCandidates, OrderedCities,
                TripStart, TripDays, ExactDays
  <2>3. Begun
    BY <1>1 DEF TripInv, ChainInv
  <2>4. Begun'
    BY <2>2, <2>3, <1>1 DEF Begun
  <2> QED BY <2>4, <1>1 DEF ChainInv, Settling, Drafting
<1> QED BY <1>2, <1>3, <1>4, <1>5 DEF TripInv

-----------------------------------------------------------------------------
\* The allocated stays are the skeleton.

\* Once every stay is appended the cities slept in are those of the route, the
\* first of them first and, with a gateway night, last.
LEMMA StaysOfRoute ==
    ASSUME StaysTypeOK, Affordable, RouteOrder, Allocated
    PROVE  /\ stays # <<>> /\ 1 \in DOMAIN stays /\ Len(stays) \in DOMAIN stays
           /\ {stays[k].city : k \in DOMAIN stays} = ToSet(route)
           /\ stays[1].city = route[1]
           /\ back \/ Len(route) = 1 => stays[Len(stays)].city = route[1]
<1> DEFINE n == Len(route)
           m == Len(stays)
<1>1. n \in Nat /\ n >= 1 /\ m \in Nat /\ DOMAIN route = 1..n /\ DOMAIN stays = 1..m
  BY LenProperties DEF StaysTypeOK, Affordable
<1>2. m = n + GatewayNights /\ GatewayNights = IF back /\ n > 1 THEN 1 ELSE 0
  BY DEF Allocated, GatewayNights
<1>3. \A k \in 1..m : stays[k].city = route[IF k <= n THEN k ELSE 1]
  BY DEF RouteOrder
<1> HIDE DEF n, m
<1>4. 1 \in 1..m /\ m \in 1..m /\ 1 \in 1..n /\ 1..n \subseteq 1..m
  <2>1. m \in Nat /\ n \in Nat /\ n <= m /\ 1 <= n
    BY <1>1, <1>2
  <2> QED BY <2>1
<1>5. {stays[k].city : k \in DOMAIN stays} = ToSet(route)
  <2>1. ASSUME NEW k \in 1..m PROVE stays[k].city \in ToSet(route)
    <3>1. (IF k <= n THEN k ELSE 1) \in 1..n
      BY <1>1, <1>4
    <3> QED BY <3>1, <1>1, <1>3 DEF ToSet
  <2>2. ASSUME NEW k \in 1..n PROVE k \in 1..m /\ stays[k].city = route[k]
    BY <1>1, <1>3, <1>4
  <2> QED BY <2>1, <2>2, <1>1 DEF ToSet
<1>6. stays[1].city = route[1]
  BY <1>1, <1>3, <1>4
<1>7. ASSUME back \/ n = 1 PROVE stays[m].city = route[1]
  <2>1. CASE n = 1
    <3>1. m = 1
      BY <2>1, <1>1, <1>2
    <3> QED BY <3>1, <1>6
  <2>2. CASE n # 1 /\ back
    <3>1. m = n + 1 /\ ~(m <= n)
      BY <2>2, <1>1, <1>2
    <3> QED BY <3>1, <1>3, <1>4
  <2> QED BY <2>1, <2>2, <1>7
<1>8. stays # <<>>
  BY <1>1, <1>4, EmptySeq
<1> QED BY <1>1, <1>4, <1>5, <1>6, <1>7, <1>8 DEF n, m

LEMMA SettledFits ==
    ASSUME TripInv, pc = "allocating", Allocated, StaysAreValid, FlightFits,
           skeleton' = [start |-> start, days |-> days, stays |-> stays,
                        flight |-> SelectedFlight],
           UNCHANGED <<request, flights>>
    PROVE  SkeletonFits'
<1>1. /\ Begun /\ alloc = "allocating" /\ SkeletonPossible
      /\ route = OrderedCities /\ start = TripStart /\ days = TripDays
      /\ back = (SelectedFlight # None /\ Len(OrderedCities) > 1)
  BY DEF TripInv, ChainInv, Begun
<1>2. StaysTypeOK /\ Affordable /\ RouteOrder
  BY <1>1 DEF TripInv, StaysInv
<1>3. TripTypeOK /\ request \in Requests
  <2>1. TripTypeOK
    BY DEF TripInv
  <2>2. request \in Requests
    BY <2>1 DEF TripTypeOK
  <2> QED BY <2>1, <2>2
<1>4. SelectedFlight \in Offers \cup {None}
  BY <1>3, FlightSelected
<1>5. skeleton' \in Skeletons
  BY <1>2, <1>4 DEF Skeletons, StaysTypeOK
<1>6. /\ stays # <<>> /\ {stays[k].city : k \in DOMAIN stays} = ToSet(route)
      /\ stays[1].city = route[1]
      /\ back \/ Len(route) = 1 => stays[Len(stays)].city = route[1]
  BY <1>1, <1>2, StaysOfRoute
<1>7. /\ ToSet(OrderedCities) = ToSet(request.cities)
      /\ SelectedFlight # None => OrderedCities[1] = SelectedFlight.to
  BY <1>1, <1>3, SkeletonAsked
<1>8. /\ SkeletonPossible' = SkeletonPossible /\ TripStart' = TripStart /\ TripDays' = TripDays
      /\ SelectedFlight' = SelectedFlight /\ request' = request
  BY DEF SkeletonPossible, DatesKnown, SelectedFlight, FlightCandidates, TripStart, TripDays,
         ExactDays
<1>9. /\ skeleton'.start = start /\ skeleton'.days = days /\ skeleton'.stays = stays
      /\ skeleton'.flight = SelectedFlight
  OBVIOUS
<1>10. Consecutive(skeleton)'
  BY <1>6, <1>9 DEF StaysAreValid, Consecutive, LastDay
<1>11. StayCities(skeleton)' = ToSet(request'.cities)
  BY <1>1, <1>6, <1>7, <1>8, <1>9 DEF StayCities
<1>12. ASSUME SelectedFlight # None
       PROVE  /\ stays[1].city = SelectedFlight.to
              /\ stays[Len(stays)].city = SelectedFlight.to
              /\ SelectedFlight.from = start
              /\ SelectedFlight.until = start + days - 1
  <2>1. back \/ Len(route) = 1
    <3>1. Len(route) \in Nat /\ Len(route) >= 1
      BY <1>2 DEF StaysTypeOK, Affordable
    <3>2. CASE Len(route) > 1
      BY <3>2, <1>1, <1>12
    <3>3. \A n \in Nat : n >= 1 => n > 1 \/ n = 1
      OBVIOUS
    <3> QED BY <3>1, <3>2, <3>3
  <2>2. stays[1].city = SelectedFlight.to /\ stays[Len(stays)].city = SelectedFlight.to
    BY <2>1, <1>1, <1>6, <1>7, <1>12
  <2> QED BY <2>2, <1>12 DEF FlightFits, LastDay
<1> QED BY <1>1, <1>5, <1>8, <1>9, <1>10, <1>11, <1>12 DEF SkeletonFits

LEMMA SettleSkeletonInv ==
    ASSUME TripInv, SettleSkeleton
    PROVE  TripInv'
<1>1. /\ pc = "allocating" /\ Settle
      /\ UNCHANGED <<flights, places, searches, draft, routes, plan, asked, compiled, dayVars>>
  BY DEF SettleSkeleton
<1>2. \/ /\ alloc' = "settled" /\ FlightFits
         /\ skeleton' = [start |-> start, days |-> days, stays |-> stays,
                         flight |-> SelectedFlight]
         /\ pc' \in {"hotels", "draft"}
      \/ skeleton' = skeleton /\ pc' = "ended"
  BY DEF SettleSkeleton
<1>3. StaysInv'
  BY <1>1, StaysAssumption, StaysInductive DEF TripInv, StaysNext
<1>4. ScheduleInv'
  BY <1>1, ScheduleRests DEF TripInv
<1>5. Resting'
  BY <1>1, <1>2 DEF TripInv, Resting, dayVars
<1>6. CASE skeleton' = skeleton /\ pc' = "ended"
  <2>1. TripTypeOK' /\ ChainInv'
    BY <1>1, <1>6 DEF TripInv, TripTypeOK, asked, ChainInv, Settling, Drafting
  <2> QED BY <2>1, <1>3, <1>4, <1>5 DEF TripInv
<1>7. CASE /\ alloc' = "settled" /\ FlightFits
           /\ skeleton' = [start |-> start, days |-> days, stays |-> stays,
                           flight |-> SelectedFlight]
           /\ pc' \in {"hotels", "draft"}
  <2>1. Allocated /\ StaysAreValid
    BY <1>1, <1>7 DEF Settle
  <2>2. UNCHANGED <<request, flights>>
    BY <1>1 DEF asked
  <2>3. SkeletonFits'
    BY <1>1, <1>7, <2>1, <2>2, SettledFits
  <2>4. skeleton' \in Skeletons
    BY <2>3 DEF SkeletonFits
  <2>5. TripTypeOK'
    BY <2>4, <1>1, <1>7 DEF TripInv, TripTypeOK, asked, Settling
  <2>6. ChainInv'
    BY <2>3, <1>7 DEF ChainInv, Drafting
  <2> QED BY <2>5, <2>6, <1>3, <1>4, <1>5 DEF TripInv
<1> QED BY <1>2, <1>6, <1>7

LEMMA SearchHotelsInv ==
    ASSUME TripInv, SearchHotels
    PROVE  TripInv'
<1>1. /\ pc = "hotels" /\ pc' \in {"ended", "draft"}
      /\ UNCHANGED <<flights, places, skeleton, draft, routes, plan, asked, compiled,
                     stayVars, dayVars>>
  BY DEF SearchHotels
<1>2. StaysInv' /\ ScheduleInv' /\ Resting'
  BY <1>1, StaysRest, ScheduleRests DEF TripInv, Resting, dayVars
<1>3. SkeletonFits /\ UNCHANGED <<request, flights, skeleton>>
  BY <1>1 DEF TripInv, ChainInv, asked, Settling
<1>4. DOMAIN searches' \subseteq Nat
  <2>2. DOMAIN searches' = DOMAIN skeleton.stays \cup DOMAIN searches
    BY DEF SearchHotels
  <2>3. DOMAIN skeleton.stays \subseteq Nat
    BY <1>3, SkeletonTyped, LenProperties
  <2>4. DOMAIN searches \subseteq Nat
    BY DEF TripInv, TripTypeOK
  <2> QED BY <2>2, <2>3, <2>4
<1>5. TripTypeOK'
  BY <1>1, <1>4 DEF TripInv, TripTypeOK, asked, Settling
<1>6. SkeletonFits'
  BY <1>3, SkeletonKept
<1>7. ChainInv'
  BY <1>1, <1>6 DEF ChainInv, Drafting, Settling
<1> QED BY <1>2, <1>5, <1>7 DEF TripInv

-----------------------------------------------------------------------------
\* The selection and the routes.

\* The lines of the selection that name a day, and the days without a line.
LEMMA ResolvedFits ==
    ASSUME TripInv, SkeletonFits, NEW days_ \in DayChoices, NEW chosen, NEW mode_,
           DaysResolve(days_), StaysResolve(chosen), draft' = Resolved(days_, chosen, mode_),
           UNCHANGED <<request, skeleton>>
    PROVE  DraftFits'
<1> DEFINE all == TripDayNumbers(skeleton)
           stops_ == [d \in all |-> IF d \in DOMAIN days_ THEN days_[d] ELSE <<>>]
<1>1. /\ draft'.days = stops_ /\ draft'.rates = chosen /\ DOMAIN stops_ = all
      /\ \A d \in all : stops_[d] = IF d \in DOMAIN days_ THEN days_[d] ELSE <<>>
  BY DEF Resolved
<1>2. /\ DOMAIN days_ \subseteq all
      /\ \A d \in DOMAIN days_ :
            /\ days_[d] \in Seq(Places) /\ IsInjective(days_[d])
            /\ \A p \in ToSet(days_[d]) : CityFits(p, d)
            /\ \A e \in DOMAIN days_ \ {d} : ToSet(days_[d]) \cap ToSet(days_[e]) = {}
  BY TripAssumption DEF DaysResolve
<1>3. <<>> \in Seq(Places) /\ IsInjective(<<>>) /\ ToSet(<<>>) = {}
  BY DEF IsInjective, ToSet
<1> HIDE DEF stops_, all
<1>4. \A d \in all :
         /\ stops_[d] \in Seq(Places) /\ IsInjective(stops_[d])
         /\ \A p \in ToSet(stops_[d]) : CityFits(p, d)
  BY <1>1, <1>2, <1>3
<1>5. \A d, e \in all : d # e => ToSet(stops_[d]) \cap ToSet(stops_[e]) = {}
  <2> SUFFICES ASSUME NEW d \in all, NEW e \in all, d # e
               PROVE  ToSet(stops_[d]) \cap ToSet(stops_[e]) = {}
    OBVIOUS
  <2>1. CASE d \in DOMAIN days_ /\ e \in DOMAIN days_
    BY <2>1, <1>1, <1>2
  <2>2. CASE d \notin DOMAIN days_ \/ e \notin DOMAIN days_
    BY <2>2, <1>1, <1>3
  <2> QED BY <2>1, <2>2
<1>6. request.hotels =>
         /\ DOMAIN chosen = DOMAIN skeleton.stays
         /\ \A k \in DOMAIN skeleton.stays : RateFits(chosen[k], skeleton.stays[k])
  BY DEF StaysResolve
<1>7. request' = request /\ skeleton' = skeleton
  OBVIOUS
<1>8. \A p, d : CityFits(p, d)' = CityFits(p, d)
  BY <1>7 DEF CityFits, CanonicalCity, CityOfDay, StayCities
<1>9. TripDayNumbers(skeleton)' = all
  BY <1>7 DEF TripDayNumbers, all
<1> QED BY <1>1, <1>4, <1>5, <1>6, <1>7, <1>8, <1>9 DEF DraftFits

LEMMA DraftSelectedInv ==
    ASSUME TripInv, DraftSelected
    PROVE  TripInv'
<1>1. /\ pc = "draft" /\ draft' \in Selections /\ feedback' = FALSE
      /\ pc' \in {"routing", "itinerary"}
      /\ UNCHANGED <<request, flights, places, skeleton, searches, routes, routed, compiled,
                     stayVars, dayVars>>
  BY DEF DraftSelected
<1>2. StaysInv' /\ ScheduleInv'
  BY <1>1, StaysRest, ScheduleRests DEF TripInv
<1>3. SkeletonFits
  BY <1>1 DEF TripInv, ChainInv, Settling
<1>4. SkeletonFits'
  BY <1>1, <1>3, SkeletonKept
<1>5. PICK days_ \in DayChoices, chosen \in StayChoices, mode_ \in Modes :
          DaysResolve(days_) /\ StaysResolve(chosen) /\ draft' = Resolved(days_, chosen, mode_)
  BY <1>1 DEF Selections
<1>6. DraftFits'
  BY <1>1, <1>3, <1>5, ResolvedFits
<1>7. TripTypeOK'
  <2>1. \A d \in DOMAIN draft'.days : draft'.days[d] \in Seq(Places)
    BY <1>6 DEF DraftFits
  <2>2. TripTypeOK
    BY DEF TripInv
  <2> QED BY <2>1, <2>2, <1>1 DEF TripTypeOK, Settling
<1>8. phase' = "idle" /\ compiled' = <<>>
  BY <1>1 DEF TripInv, Resting, dayVars
<1>9. Resting'
  BY <1>8 DEF Resting
<1>10. ASSUME pc' = "itinerary" PROVE Compiling'
  <2>1. compiled' \in Seq(CompiledDays) /\ Len(compiled') = 0
    BY <1>8, EmptySeq
  <2>2. skeleton'.days \in Nat
    BY <1>1, <1>3, SkeletonTyped
  <2> QED BY <2>1, <2>2, <1>8 DEF Compiling
<1>11. ChainInv'
  BY <1>1, <1>4, <1>6, <1>10 DEF ChainInv
<1> QED BY <1>2, <1>7, <1>9, <1>11 DEF TripInv

LEMMA RouteTyped ==
    ASSUME NEW chosen \in Seq(Places), NEW mode, NEW r \in DayRoutes(chosen, mode)
    PROVE  r.stops \in Seq(Places) /\ \A i \in DOMAIN r.legs : r.legs[i] \in Nat
<1>1. Reverse(chosen) \in Seq(Places)
  <2>1. Len(chosen) \in Nat
    BY LenProperties
  <2>2. \A i \in 1..Len(chosen) : chosen[(Len(chosen) - i) + 1] \in Places
    <3>1. \A i \in 1..Len(chosen) : (Len(chosen) - i) + 1 \in 1..Len(chosen)
      BY <2>1
    <3> QED BY <3>1, ElementOfSeq
  <2> QED BY <2>1, <2>2 DEF Reverse
<1>2. DOMAIN <<>> = {}
  OBVIOUS
<1>3. CASE r = Route(chosen, <<>>, TRUE)
  BY <1>2, <1>3 DEF Route
<1>4. ASSUME NEW order \in {chosen, Reverse(chosen)}, NEW indices, NEW time \in LegSeconds,
             NEW warning, r = Route(order, [i \in indices |-> time], warning)
      PROVE  r.stops \in Seq(Places) /\ \A i \in DOMAIN r.legs : r.legs[i] \in Nat
  <2>1. time \in Nat
    BY TripAssumption
  <2>2. r.stops = order /\ r.legs = [i \in indices |-> time]
    BY <1>4 DEF Route
  <2> QED BY <2>1, <2>2, <1>1
<1>5. \/ r = Route(chosen, <<>>, TRUE)
      \/ \E indices, warning : \E order \in {chosen, Reverse(chosen)}, time \in LegSeconds :
            r = Route(order, [i \in indices |-> time], warning)
  <2> DEFINE n == Len(chosen)
             Cut(cut, time) == Route(chosen, [i \in (0..n) \ cut |-> time], cut # {})
             Once(order, last, time) == Route(order, [i \in 0..last |-> time], FALSE)
             byLeg == {Cut(cut, time) : cut \in {{}, {0}, {n}}, time \in LegSeconds}
             atOnce == {Once(order, last, time) : order \in {chosen, Reverse(chosen)},
                                                  last \in {n - 1, n}, time \in LegSeconds}
  <2>1. DayRoutes(chosen, mode) =
            {Route(chosen, <<>>, TRUE)}
            \cup (IF chosen = <<>> THEN {} ELSE IF mode = "transit" THEN byLeg ELSE atOnce)
    BY DEF DayRoutes
  <2> HIDE DEF byLeg, atOnce
  <2>2. r = Route(chosen, <<>>, TRUE) \/ r \in byLeg \/ r \in atOnce
    BY <2>1
  <2>3. ASSUME r \in byLeg
        PROVE  \E indices, warning : \E order \in {chosen, Reverse(chosen)}, time \in LegSeconds :
                  r = Route(order, [i \in indices |-> time], warning)
    <3> HIDE DEF Cut
    <3>1. PICK cut \in {{}, {0}, {n}}, time \in LegSeconds : r = Cut(cut, time)
      BY <2>3 DEF byLeg
    <3> QED BY <3>1, Zenon DEF Cut
  <2>4. ASSUME r \in atOnce
        PROVE  \E indices, warning : \E order \in {chosen, Reverse(chosen)}, time \in LegSeconds :
                  r = Route(order, [i \in indices |-> time], warning)
    <3> HIDE DEF Once
    <3>1. PICK order \in {chosen, Reverse(chosen)}, last \in {n - 1, n}, time \in LegSeconds :
              r = Once(order, last, time)
      BY <2>4 DEF atOnce
    <3> QED BY <3>1, Zenon DEF Once
  <2> QED BY <2>2, <2>3, <2>4, Zenon
<1> QED BY <1>3, <1>4, <1>5

LEMMA RouteDaysInv ==
    ASSUME TripInv, RouteDays
    PROVE  TripInv'
<1>1. /\ pc = "routing" /\ pc' = "itinerary"
      /\ UNCHANGED <<flights, places, skeleton, searches, draft, plan, asked, compiled,
                     stayVars, dayVars>>
  BY DEF RouteDays
<1>2. StaysInv' /\ ScheduleInv'
  BY <1>1, StaysRest, ScheduleRests DEF TripInv
<1>3. SkeletonFits /\ DraftFits
  BY <1>1 DEF TripInv, ChainInv, Settling, Drafting
<1>4. UNCHANGED <<request, flights, skeleton, draft>>
  BY <1>1 DEF asked
<1>5. SkeletonFits' /\ DraftFits'
  BY <1>3, <1>4, SkeletonKept, DraftKept
<1>6. \A d \in DOMAIN routes' :
         routes'[d].stops \in Seq(Places) /\ \A i \in DOMAIN routes'[d].legs : routes'[d].legs[i] \in Nat
  <2> DEFINE busy == {d \in DOMAIN draft.days : draft.days[d] # <<>>}
  <2>1. PICK found : /\ \A d \in busy : found[d] \in DayRoutes(draft.days[d], draft.mode)
                     /\ routes' = [d \in DOMAIN draft.days |->
                                      IF d \in busy THEN found[d] ELSE Route(<<>>, <<>>, TRUE)]
    BY DEF RouteDays
  <2> SUFFICES ASSUME NEW d \in DOMAIN draft.days
               PROVE  /\ routes'[d].stops \in Seq(Places)
                      /\ \A i \in DOMAIN routes'[d].legs : routes'[d].legs[i] \in Nat
    BY <2>1
  <2>2. CASE d \in busy
    <3>1. routes'[d] \in DayRoutes(draft.days[d], draft.mode)
      BY <2>1, <2>2
    <3>2. draft.days[d] \in Seq(Places)
      BY <1>3 DEF DraftFits
    <3> QED BY <3>1, <3>2, RouteTyped
  <2>3. CASE d \notin busy
    <3>1. routes'[d] = Route(<<>>, <<>>, TRUE)
      BY <2>1, <2>3
    <3>2. routes'[d].stops = <<>> /\ routes'[d].legs = <<>>
      BY <3>1 DEF Route
    <3>3. DOMAIN <<>> = {} /\ <<>> \in Seq(Places)
      OBVIOUS
    <3> QED BY <3>2, <3>3
  <2> QED BY <2>2, <2>3
<1>7. TripTypeOK'
  <2>1. TripTypeOK
    BY DEF TripInv
  <2> QED BY <2>1, <1>1, <1>6 DEF TripTypeOK, asked, Settling
<1>8. phase' = "idle" /\ compiled' = <<>>
  BY <1>1 DEF TripInv, Resting, dayVars
<1>9. Compiling'
  <2>1. compiled' \in Seq(CompiledDays) /\ Len(compiled') = 0
    BY <1>8, EmptySeq
  <2>2. skeleton'.days \in Nat
    BY <1>4, <1>3, SkeletonTyped
  <2> QED BY <2>1, <2>2, <1>8 DEF Compiling
<1>10. Resting' /\ ChainInv'
  BY <1>1, <1>5, <1>9 DEF Resting, ChainInv
<1> QED BY <1>2, <1>7, <1>10 DEF TripInv

-----------------------------------------------------------------------------
\* The itinerary pipeline.

LEMMA InItinerary ==
    ASSUME TripInv, pc = "itinerary"
    PROVE  /\ TripTypeOK /\ request \in Requests /\ SkeletonFits /\ DraftFits /\ Compiling
           /\ ScheduleInv /\ skeleton.start \in Int /\ skeleton.days \in Nat
           /\ Len(compiled) \in Nat /\ DOMAIN draft.days = 1..skeleton.days
<1>1. TripTypeOK /\ SkeletonFits /\ DraftFits /\ Compiling /\ ScheduleInv
  BY DEF TripInv, ChainInv, Settling, Drafting
<1>2. request \in Requests
  BY <1>1 DEF TripTypeOK
<1>3. Len(compiled) \in Nat
  BY <1>1, LenProperties DEF Compiling
<1>4. DOMAIN draft.days = 1..skeleton.days
  BY <1>1 DEF DraftFits, TripDayNumbers
<1> QED BY <1>1, <1>2, <1>3, <1>4, SkeletonTyped

\* A step that leaves the artifacts and the days compiled so far.
LEMMA SameDays ==
    ASSUME TripInv, pc = "itinerary", pc' = pc, StaysInv', ScheduleInv',
           UNCHANGED <<artifacts, asked, compiled>>,
           Number <= skeleton.days /\ ~CompileRaises,
           IsInjective(stops'), ToSet(stops') \subseteq ToSet(draft.days[Number])
    PROVE  TripInv'
<1>1. UNCHANGED <<request, routed, feedback, flights, places, skeleton, searches, draft, routes,
                  plan, compiled>>
  BY DEF artifacts, asked
<1>2. TripTypeOK' /\ Resting'
  BY <1>1 DEF TripInv, TripTypeOK, Resting
<1>3. SkeletonFits' /\ DraftFits'
  BY <1>1, InItinerary, SkeletonKept, DraftKept
<1>4. Compiling
  BY InItinerary
<1>5. \A d \in 1..Len(compiled') : VisitsOf(compiled[d].cards, d)'
  BY <1>1, <1>4 DEF Compiling, VisitsOf
<1>6. Number' = Number /\ CompileRaises' = CompileRaises
  BY <1>1 DEF Number, CompileRaises, TripDayNumbers, Measured, RouteMatches
<1>7. Compiling'
  BY <1>1, <1>4, <1>5, <1>6 DEF Compiling
<1> QED BY <1>2, <1>3, <1>7 DEF TripInv, ChainInv

LEMMA BeginPlanDayInv ==
    ASSUME TripInv, BeginPlanDay
    PROVE  TripInv'
<1> DEFINE date == skeleton.start + Number - 1
           route_ == IF Measured(Number) THEN routes[Number]
                     ELSE Route(draft.days[Number], <<>>, TRUE)
           known == /\ ~route_.warning /\ date \notin TransitionDays
                    /\ Number \notin {1, skeleton.days}
<1>1. /\ pc = "itinerary" /\ pc' = pc /\ phase = "idle" /\ ~CompileRaises
      /\ Number <= skeleton.days
      /\ BeginDay(route_.stops, route_.legs, date % 7, request.rest, known)
      /\ UNCHANGED <<artifacts, asked, compiled, stayVars>>
  BY DEF BeginPlanDay
<1>2. /\ TripTypeOK /\ request \in Requests /\ SkeletonFits /\ DraftFits /\ Compiling
      /\ ScheduleInv /\ skeleton.start \in Int /\ skeleton.days \in Nat
      /\ Len(compiled) \in Nat /\ DOMAIN draft.days = 1..skeleton.days
  BY <1>1, InItinerary
<1>3. Number \in 1..skeleton.days /\ date \in Int
  BY <1>1, <1>2 DEF Number
<1>4. draft.days[Number] \in Seq(Places) /\ IsInjective(draft.days[Number])
  BY <1>2, <1>3 DEF DraftFits
<1>5. /\ route_.stops \in Seq(Places) /\ IsInjective(route_.stops)
      /\ ToSet(route_.stops) \subseteq ToSet(draft.days[Number])
      /\ \A i \in DOMAIN route_.legs : route_.legs[i] \in Nat
  <2>1. CASE Measured(Number)
    <3>1. route_ = routes[Number] /\ routes # None /\ Number \in DOMAIN routes
      BY <2>1 DEF Measured
    <3>2. RouteMatches(Number)
      BY <2>1, <1>1 DEF CompileRaises
    <3>3. routes[Number].stops \in Seq(Places)
          /\ \A i \in DOMAIN routes[Number].legs : routes[Number].legs[i] \in Nat
      BY <3>1, <1>2 DEF TripTypeOK
    <3>4. IsInjective(routes[Number].stops)
      BY <3>2, <3>3, <1>4, SameElementsInjective DEF RouteMatches
    <3> QED BY <3>1, <3>2, <3>3, <3>4 DEF RouteMatches
  <2>2. CASE ~Measured(Number)
    <3>1. route_.stops = draft.days[Number] /\ route_.legs = <<>>
      BY <2>2 DEF Route
    <3>2. DOMAIN <<>> = {}
      OBVIOUS
    <3> QED BY <3>1, <3>2, <1>4
  <2> QED BY <2>1, <2>2
<1>6. date % 7 \in 0..6
  BY <1>3
<1>7. request.rest \in BOOLEAN
  BY <1>2, TripAssumption
<1> HIDE DEF route_, date, known
<1>8. ScheduleInv'
  BY <1>1, <1>2, <1>5, <1>6, <1>7, BeginDayInv, ScheduleAssumption
<1>9. StaysInv'
  BY <1>1, StaysRest DEF TripInv
<1>10. stops' = route_.stops
  BY <1>1 DEF BeginDay
<1> QED BY <1>1, <1>5, <1>8, <1>9, <1>10, SameDays

LEMMA ScheduleDayInv ==
    ASSUME TripInv, ScheduleDay
    PROVE  TripInv'
<1>1. /\ pc = "itinerary" /\ pc' = pc /\ phase = "scheduling" /\ stops' = stops
      /\ ScheduleStop \/ LeaveRest \/ ReturnToHotel
      /\ UNCHANGED <<artifacts, asked, compiled, stayVars>>
  BY DEF ScheduleDay, ScheduleStop, LeaveRest, ReturnToHotel, More
<1>2. Compiling /\ ScheduleInv
  BY <1>1, InItinerary
<1>3. ScheduleInv'
  BY <1>1, <1>2, ScheduleAssumption, ScheduleStopInv, DayEndsInv
<1>4. StaysInv'
  BY <1>1, StaysRest DEF TripInv
<1>5. /\ Number <= skeleton.days /\ ~CompileRaises
      /\ IsInjective(stops') /\ ToSet(stops') \subseteq ToSet(draft.days[Number])
  BY <1>1, <1>2 DEF Compiling
<1> QED BY <1>1, <1>3, <1>4, <1>5, SameDays

\* The visits of a scheduled day are those of its stops, in their order.
LEMMA DayVisits ==
    ASSUME ScheduleInv, IsInjective(stops), NEW d, ToSet(stops) \subseteq ToSet(draft.days[d])
    PROVE  VisitsOf(cards, d)
<1>1. /\ DOMAIN cards = 1..Len(cards) /\ DOMAIN stops = 1..Len(stops)
      /\ Len(cards) \in Nat /\ Len(stops) \in Nat /\ Len(cards) <= Len(stops)
  BY LenProperties DEF ScheduleInv, ScheduleTypeOK
<1>2. \A i \in DOMAIN cards : i \in DOMAIN stops /\ cards[i].stop = stops[i]
  BY <1>1 DEF ScheduleInv, NightsInOrder
<1> QED BY <1>2 DEF VisitsOf, IsInjective, ToSet

LEMMA EndPlanDayInv ==
    ASSUME TripInv, EndPlanDay
    PROVE  TripInv'
<1> DEFINE day == [cards |-> cards, left |-> left, status |-> status]
           n == Len(compiled)
<1>1. /\ pc = "itinerary" /\ pc' = pc /\ phase = "done" /\ phase' = "idle"
      /\ compiled' = Append(compiled, day)
      /\ UNCHANGED <<artifacts, asked, stayVars>> /\ ScheduleInit'
  BY DEF EndPlanDay, ScheduleInit
<1>2. /\ TripTypeOK /\ SkeletonFits /\ DraftFits /\ Compiling /\ ScheduleInv
      /\ skeleton.days \in Nat /\ n \in Nat
  BY <1>1, InItinerary
<1>3. UNCHANGED <<request, routed, feedback, flights, places, skeleton, searches, draft, routes>>
  BY <1>1 DEF artifacts, asked
<1>4. StaysInv'
  BY <1>1, StaysRest DEF TripInv
<1>5. ScheduleInv'
  BY <1>1, ScheduleInitInv, PTL
<1>6. TripTypeOK' /\ Resting'
  BY <1>1, <1>2, <1>3 DEF TripTypeOK, Resting
<1>7. SkeletonFits' /\ DraftFits'
  BY <1>2, <1>3, SkeletonKept, DraftKept
<1>8. day \in CompiledDays
  BY <1>2 DEF ScheduleInv, ScheduleTypeOK, CompiledDays
<1>9. /\ Number <= skeleton.days /\ IsInjective(stops)
      /\ ToSet(stops) \subseteq ToSet(draft.days[n + 1])
  BY <1>1, <1>2 DEF Compiling, Number
<1>10. VisitsOf(cards, n + 1)
  BY <1>2, <1>9, DayVisits
<1> HIDE DEF n
<1>11. /\ compiled' \in Seq(CompiledDays) /\ Len(compiled') = n + 1
       /\ \A d \in 1..n : compiled'[d] = compiled[d]
       /\ compiled'[n + 1] = day
  BY <1>1, <1>2, <1>8, AppendProperties DEF n, Compiling
<1>12. \A d \in 1..(n + 1) : VisitsOf(compiled'[d].cards, d)
  <2>1. \A d \in 1..n : VisitsOf(compiled'[d].cards, d)
    BY <1>2, <1>11 DEF n, Compiling
  <2>2. VisitsOf(compiled'[n + 1].cards, n + 1)
    BY <1>10, <1>11
  <2> QED BY <2>1, <2>2, <1>2
<1>13. \A d \in 1..Len(compiled') : VisitsOf(compiled[d].cards, d)'
  BY <1>3, <1>11, <1>12 DEF VisitsOf
<1>14. Len(compiled') <= skeleton'.days
  BY <1>2, <1>3, <1>9, <1>11 DEF n, Number
<1>15. Compiling'
  BY <1>1, <1>11, <1>13, <1>14 DEF Compiling
<1> QED BY <1>1, <1>4, <1>5, <1>6, <1>7, <1>15 DEF TripInv, ChainInv

LEMMA FinishPlanInv ==
    ASSUME TripInv, FinishPlan
    PROVE  TripInv'
<1>1. /\ pc = "itinerary" /\ phase = "idle" /\ Number > skeleton.days
      /\ plan' = [start |-> skeleton.start, days |-> compiled, rates |-> draft.rates,
                  stays |-> skeleton.stays]
      /\ compiled' = <<>> /\ pc' = "planned"
      /\ UNCHANGED <<flights, places, skeleton, searches, draft, routes, asked, stayVars, dayVars>>
  BY DEF FinishPlan
<1>2. /\ TripTypeOK /\ SkeletonFits /\ DraftFits /\ Compiling /\ ScheduleInv
      /\ skeleton.days \in Nat /\ Len(compiled) \in Nat
  BY <1>1, InItinerary
<1>3. UNCHANGED <<request, routed, feedback, flights, places, skeleton, searches, draft, routes>>
  BY <1>1 DEF asked
<1>4. StaysInv' /\ ScheduleInv'
  BY <1>1, StaysRest, ScheduleRests DEF TripInv
<1>5. TripTypeOK' /\ Resting'
  BY <1>1, <1>2, <1>3 DEF TripTypeOK, Resting, dayVars, Settling
<1>6. SkeletonFits' /\ DraftFits'
  BY <1>2, <1>3, SkeletonKept, DraftKept
<1>7. Len(compiled) = skeleton.days
  BY <1>1, <1>2 DEF Compiling, Number
<1>8. /\ plan'.start = skeleton.start /\ plan'.days = compiled /\ plan'.rates = draft.rates
      /\ plan'.stays = skeleton.stays
  BY <1>1
<1>9. \A d \in 1..Len(plan'.days) : VisitsOf(plan.days[d].cards, d)'
  BY <1>2, <1>3, <1>8 DEF Compiling, VisitsOf
<1>10. PlanFits'
  BY <1>2, <1>3, <1>7, <1>8, <1>9 DEF PlanFits, Compiling
<1> QED BY <1>1, <1>4, <1>5, <1>6, <1>10 DEF TripInv, ChainInv

LEMMA EditPlanInv ==
    ASSUME TripInv, EditPlan
    PROVE  TripInv'
<1>1. /\ pc = "planned" /\ pc' = "draft" /\ feedback' = TRUE /\ routed' = TRUE
      /\ UNCHANGED <<request, artifacts, compiled, stayVars, dayVars>>
  BY DEF EditPlan
<1>2. StaysInv' /\ ScheduleInv'
  BY <1>1, StaysRest, ScheduleRests DEF TripInv
<1>3. TripTypeOK' /\ Resting'
  BY <1>1 DEF TripInv, TripTypeOK, artifacts, Resting, dayVars, Settling
<1>4. SkeletonFits /\ UNCHANGED <<request, flights, skeleton>>
  BY <1>1 DEF TripInv, ChainInv, Settling, artifacts
<1>5. SkeletonFits'
  BY <1>4, SkeletonKept
<1> QED BY <1>1, <1>2, <1>3, <1>5 DEF TripInv, ChainInv, Drafting

LEMMA TripInitInv == Init => TripInv
<1> SUFFICES ASSUME Init PROVE TripInv
  OBVIOUS
<1>1. StaysInv /\ ScheduleInv
  BY StaysInitInv, ScheduleInitInv DEF Init
<1>2. /\ request = None /\ flights.offers = {} /\ places = {} /\ skeleton = None /\ searches = <<>>
      /\ draft = None /\ routes = None /\ compiled = <<>> /\ pc = "idle" /\ phase = "idle"
  BY DEF Init, ScheduleInit
<1>3. routed \in BOOLEAN /\ feedback \in BOOLEAN
  BY Zenon DEF Init
<1>4. DOMAIN <<>> = {}
  OBVIOUS
<1>5. TripTypeOK
  BY <1>2, <1>3, <1>4 DEF TripTypeOK
<1> QED BY <1>1, <1>2, <1>5 DEF TripInv, Resting, ChainInv, Settling, Drafting

LEMMA TripInductive == TripInv /\ [Next]_vars => TripInv'
<1> SUFFICES ASSUME TripInv, [Next]_vars PROVE TripInv'
  OBVIOUS
<1>1. CASE Ask \/ Discover
  BY <1>1, AskInv, DiscoverInv
<1>2. CASE RefuseSkeleton \/ DraftFails \/ DraftUnchanged \/ RejectPlan
  BY <1>2, EndingsInv
<1>3. CASE BeginSkeleton \/ Allocate \/ SettleSkeleton
  BY <1>3, BeginSkeletonInv, AllocateInv, SettleSkeletonInv
<1>4. CASE SearchHotels \/ DraftSelected \/ RouteDays
  BY <1>4, SearchHotelsInv, DraftSelectedInv, RouteDaysInv
<1>5. CASE CompileFails \/ BeginPlanDay \/ ScheduleDay
  BY <1>5, CompileFailsInv, BeginPlanDayInv, ScheduleDayInv
<1>6. CASE EndPlanDay \/ FinishPlan \/ EditPlan
  BY <1>6, EndPlanDayInv, FinishPlanInv, EditPlanInv
<1>7. CASE UNCHANGED vars
  <2>1. UNCHANGED <<request, flights, places, skeleton, searches, draft, routes, plan, routed,
                    feedback, compiled, pc, stayVars, dayVars>>
    BY <1>7 DEF vars
  <2>2. UNCHANGED <<route, start, days, back, stays, cursor, alloc, stops, phase>>
    BY <2>1 DEF stayVars, dayVars
  <2>3. StaysInv' /\ ScheduleInv'
    BY <2>1, StaysRest, ScheduleRests DEF TripInv
  <2>4. TripTypeOK' /\ Resting'
    BY <2>1, <2>2 DEF TripInv, TripTypeOK, Resting
  <2>5. pc \in Settling => SkeletonFits'
    BY <2>1, SkeletonKept DEF TripInv, ChainInv
  <2>6. pc \in Drafting => DraftFits'
    BY <2>1, DraftKept DEF TripInv, ChainInv
  <2>7. ASSUME pc = "allocating" PROVE Begun'
    <3>1. Begun
      BY <2>7 DEF TripInv, ChainInv
    <3>2. /\ SkeletonPossible' = SkeletonPossible /\ OrderedCities' = OrderedCities
          /\ TripStart' = TripStart /\ TripDays' = TripDays /\ SelectedFlight' = SelectedFlight
      BY <2>1 DEF SkeletonPossible, DatesKnown, SelectedFlight, FlightCandidates, OrderedCities,
                  TripStart, TripDays, ExactDays
    <3> QED BY <3>1, <3>2, <2>2 DEF Begun
  <2>8. ASSUME pc = "itinerary" PROVE Compiling'
    <3>1. Compiling
      BY <2>8, InItinerary
    <3>2. \A d \in 1..Len(compiled') : VisitsOf(compiled[d].cards, d)'
      BY <2>1, <3>1 DEF Compiling, VisitsOf
    <3>3. Number' = Number /\ CompileRaises' = CompileRaises
      BY <2>1 DEF Number, CompileRaises, TripDayNumbers, Measured, RouteMatches
    <3> QED BY <2>1, <2>2, <3>1, <3>2, <3>3 DEF Compiling
  <2>9. ASSUME pc = "planned" PROVE PlanFits'
    <3>1. PlanFits
      BY <2>9 DEF TripInv, ChainInv
    <3>2. \A d \in 1..Len(plan'.days) : VisitsOf(plan.days[d].cards, d)'
      BY <2>1, <3>1 DEF PlanFits, VisitsOf
    <3> QED BY <2>1, <3>1, <3>2 DEF PlanFits
  <2> QED BY <2>1, <2>3, <2>4, <2>5, <2>6, <2>7, <2>8, <2>9 DEF TripInv, ChainInv
<1> QED BY <1>1, <1>2, <1>3, <1>4, <1>5, <1>6, <1>7 DEF Next

LEMMA TripInvariant == Spec => []TripInv
  BY TripInitInv, TripInductive, PTL DEF Spec

-----------------------------------------------------------------------------
\* What the invariant gives.

LEMMA StepAllocates == TripInv /\ [Next]_vars => [StaysNext]_stayVars
<1> SUFFICES ASSUME TripInv, [Next]_vars PROVE [StaysNext]_stayVars
  OBVIOUS
<1>1. CASE BeginSkeleton
  <2> DEFINE back_ == SelectedFlight # None /\ Len(OrderedCities) > 1
  <2>1. pc = "skeleton" /\ SkeletonPossible
        /\ BeginAllocation(OrderedCities, TripStart, TripDays, back_)
    BY <1>1 DEF BeginSkeleton
  <2>2. TripTypeOK /\ pc # "idle"
    BY <2>1 DEF TripInv
  <2>3. request \in Requests
    BY <2>2 DEF TripTypeOK
  <2>4. OrderedCities \in Routes /\ TripStart \in Starts /\ TripDays \in Durations
        /\ back_ \in BOOLEAN
    BY <2>1, <2>2, <2>3, SkeletonAsked
  <2> HIDE DEF back_
  <2> QED BY <2>1, <2>4 DEF StaysNext
<1>2. CASE Allocate \/ SettleSkeleton
  BY <1>2 DEF Allocate, SettleSkeleton, StaysNext
<1>3. CASE \/ Ask \/ Discover \/ RefuseSkeleton \/ SearchHotels \/ DraftFails \/ DraftUnchanged
           \/ DraftSelected \/ RouteDays \/ CompileFails \/ BeginPlanDay \/ ScheduleDay
           \/ EndPlanDay \/ FinishPlan \/ EditPlan \/ RejectPlan
  <2>1. UNCHANGED stayVars
    BY <1>3 DEF Ask, Discover, RefuseSkeleton, SearchHotels, DraftFails, DraftUnchanged,
                DraftSelected, RouteDays, CompileFails, BeginPlanDay, ScheduleDay, EndPlanDay,
                FinishPlan, EditPlan, RejectPlan
  <2> QED BY <2>1
<1>4. CASE UNCHANGED vars
  BY <1>4 DEF vars
<1> QED BY <1>1, <1>2, <1>3, <1>4 DEF Next

\* Whatever is searched, found, edited or turned down over a conversation, the
\* nights are allocated only as CityStays specifies, from cities, dates and lengths
\* it provides for; so StaysAlwaysCover is about every trip.
THEOREM TripsAllocateAsSpecified == Spec => AllocatesAsSpecified
<1>1. Init => StaysInit
  BY DEF Init
<1> QED BY <1>1, StepAllocates, TripInvariant, PTL DEF Spec, AllocatesAsSpecified, StaysSpec

\* Every day of every plan is sound, with whatever order of stops and measured
\* legs the routes of this or an earlier draft give it.
THEOREM EveryDayIsSound == Spec => []DayIsSound
<1>1. TripInv => DayIsSound
  BY DEF TripInv, ScheduleInv, DayIsSound
<1> QED BY <1>1, TripInvariant, PTL

LEMMA TripIsTyped == TripInv => TypeOK
<1> SUFFICES ASSUME TripInv PROVE TypeOK
  OBVIOUS
<1>1. TripTypeOK /\ Resting
  BY DEF TripInv
<1>2. request \in Requests \cup {None} /\ routed \in BOOLEAN /\ feedback \in BOOLEAN
      /\ pc \in {"idle", "discovering", "skeleton", "allocating", "hotels", "draft", "routing",
                 "itinerary", "planned", "ended"}
  BY <1>1 DEF TripTypeOK, Settling
<1>3. ASSUME skeleton # None PROVE DOMAIN searches \subseteq Nat /\ skeleton.days \in Nat
  BY <1>1, <1>3 DEF TripTypeOK, Skeletons
<1>4. ASSUME draft # None PROVE \A d \in DOMAIN draft.days : Range(draft.days[d]) \subseteq Places
  <2> SUFFICES ASSUME NEW d \in DOMAIN draft.days PROVE Range(draft.days[d]) \subseteq Places
    OBVIOUS
  <2> DEFINE s == draft.days[d]
  <2>1. s \in Seq(Places)
    BY <1>1, <1>4 DEF TripTypeOK
  <2> HIDE DEF s
  <2>2. Range(s) \subseteq Places
    BY <2>1, LenProperties, ElementOfSeq DEF Range
  <2> QED BY <2>2 DEF s
<1>5. Len(compiled) <= (IF skeleton = None THEN 0 ELSE skeleton.days)
  <2>1. CASE pc = "itinerary"
    BY <2>1, InItinerary, SkeletonTyped DEF Compiling
  <2>2. CASE pc # "itinerary"
    <3>1. Len(compiled) = 0
      BY <2>2, <1>1, EmptySeq DEF Resting
    <3> QED BY <3>1, <1>3
  <2> QED BY <2>1, <2>2
<1>6. phase # "idle" => pc = "itinerary"
  BY <1>1 DEF Resting
<1> QED BY <1>2, <1>3, <1>4, <1>5, <1>6 DEF TypeOK

LEMMA Planned ==
    ASSUME TripInv, pc = "planned"
    PROVE  /\ request \in Requests /\ SkeletonFits /\ DraftFits /\ PlanFits
           /\ skeleton.start \in Int /\ skeleton.days \in Nat
           /\ skeleton.stays \in Seq(StayRecords)
<1>1. TripTypeOK /\ SkeletonFits /\ DraftFits /\ PlanFits
  BY DEF TripInv, ChainInv, Settling, Drafting
<1>2. request \in Requests
  BY <1>1 DEF TripTypeOK
<1> QED BY <1>1, <1>2, SkeletonTyped

LEMMA VisitsFit == TripInv => VisitsWhereTheyAre
<1> SUFFICES ASSUME TripInv, pc = "planned",
                    NEW d \in DOMAIN plan.days, NEW i \in DOMAIN plan.days[d].cards
             PROVE  LET stop == plan.days[d].cards[i].stop IN
                    /\ stop.city \in StayCities(plan) => stop.city = CityOfDay(plan, d)
                    /\ \A e \in DOMAIN plan.days : \A j \in DOMAIN plan.days[e].cards :
                          plan.days[e].cards[j].stop = stop => e = d /\ j = i
  BY DEF VisitsWhereTheyAre
<1> DEFINE stop == plan.days[d].cards[i].stop
<1>1. /\ SkeletonFits /\ DraftFits /\ PlanFits /\ skeleton.stays \in Seq(StayRecords)
  BY Planned
<1>2. DOMAIN plan.days = 1..Len(plan.days) /\ DOMAIN plan.days = DOMAIN draft.days
  BY <1>1, LenProperties DEF PlanFits, DraftFits, TripDayNumbers
<1>3. /\ plan.start = skeleton.start /\ plan.stays = skeleton.stays
      /\ \A e \in DOMAIN plan.days : VisitsOf(plan.days[e].cards, e)
  BY <1>1, <1>2 DEF PlanFits
<1>4. stop \in ToSet(draft.days[d])
  BY <1>3 DEF VisitsOf
<1>5. CityFits(stop, d)
  BY <1>1, <1>2, <1>4 DEF DraftFits
<1>6. ASSUME stop.city \in StayCities(plan) PROVE stop.city = CityOfDay(plan, d)
  <2>1. StayCities(plan) = StayCities(skeleton) /\ CityOfDay(plan, d) = CityOfDay(skeleton, d)
    BY <1>3 DEF StayCities, CityOfDay
  <2>2. stop.city \in {"", CityOfDay(skeleton, d)}
    BY <2>1, <1>5, <1>6 DEF CityFits, CanonicalCity
  <2>3. StayCities(skeleton) \subseteq Cities
    <3>1. \A k \in DOMAIN skeleton.stays : skeleton.stays[k] \in StayRecords
      BY <1>1, LenProperties, ElementOfSeq
    <3>2. \A k \in DOMAIN skeleton.stays : skeleton.stays[k].city \in Cities
      BY <3>1 DEF StayRecords
    <3> QED BY <3>2 DEF StayCities
  <2>4. stop.city # ""
    BY <2>1, <2>3, <1>6, TripAssumption
  <2> QED BY <2>1, <2>2, <2>4
<1>7. ASSUME NEW e \in DOMAIN plan.days, NEW j \in DOMAIN plan.days[e].cards,
             plan.days[e].cards[j].stop = stop
      PROVE  e = d /\ j = i
  <2>1. stop \in ToSet(draft.days[e])
    BY <1>3, <1>7 DEF VisitsOf
  <2>2. e = d
    BY <2>1, <1>1, <1>2, <1>4 DEF DraftFits
  <2> QED BY <2>2, <1>3, <1>7 DEF VisitsOf
<1> QED BY <1>6, <1>7

\* Every day of every plan can be walked: each visit is on a day the traveller is
\* in its city, no place is visited twice, and the way back ends by nine.
THEOREM DaysAreAlwaysWalkable == Spec => []DaysAreWalkable
<1>1. TripInv => DaysAreWalkable
  BY TripIsTyped, VisitsFit DEF TripInv, ScheduleInv, DaysAreWalkable
<1> QED BY <1>1, TripInvariant, PTL

LEMMA AsAsked == TripInv => TripAsAsked
<1> SUFFICES ASSUME TripInv, pc = "planned"
             PROVE  /\ request.first # 0 => plan.start = request.first
                    /\ request.first # 0 /\ request.last # 0 =>
                          plan.start + Len(plan.days) - 1 = request.last
                    /\ request.days # 0 => Len(plan.days) = request.days
                    /\ StayCities(plan) = ToSet(request.cities)
                    /\ skeleton.flight # None =>
                          /\ skeleton.flight.from = plan.start
                          /\ skeleton.flight.until = plan.start + Len(plan.days) - 1
                          /\ plan.stays[1].city = skeleton.flight.to
                          /\ plan.stays[Len(plan.stays)].city = skeleton.flight.to
  BY DEF TripAsAsked
<1>1. /\ request \in Requests /\ SkeletonFits /\ PlanFits
  BY Planned
<1>2. /\ plan.start = TripStart /\ Len(plan.days) = TripDays /\ plan.stays = skeleton.stays
      /\ plan.start = skeleton.start /\ Len(plan.days) = skeleton.days
      /\ skeleton.flight = SelectedFlight /\ DatesKnown
      /\ StayCities(skeleton) = ToSet(request.cities)
      /\ SelectedFlight # None =>
          /\ skeleton.stays[1].city = SelectedFlight.to
          /\ skeleton.stays[Len(skeleton.stays)].city = SelectedFlight.to
          /\ SelectedFlight.from = skeleton.start
          /\ SelectedFlight.until = skeleton.start + skeleton.days - 1
  BY <1>1 DEF PlanFits, SkeletonFits, SkeletonPossible
<1>3. request.first \in Nat /\ request.last \in Nat /\ request.days \in Nat
  BY <1>1, TripAssumption
<1>4. request.first # 0 => plan.start = request.first
  BY <1>2 DEF TripStart
<1>5. request.first # 0 /\ request.last # 0 => plan.start + Len(plan.days) - 1 = request.last
  BY <1>2, <1>3 DEF TripStart, TripDays, ExactDays
<1>6. request.days # 0 => Len(plan.days) = request.days
  BY <1>2, <1>3 DEF TripDays, ExactDays, DatesKnown
<1>7. StayCities(plan) = ToSet(request.cities)
  BY <1>2 DEF StayCities
<1> QED BY <1>2, <1>4, <1>5, <1>6, <1>7

LEMMA Booked == TripInv => NightsAreBooked
<1> SUFFICES ASSUME TripInv, pc = "planned", request.hotels, NEW n \in 0..(Len(plan.days) - 2)
             PROVE  LET date == plan.start + n IN
                    /\ Cardinality(BookedFor(date)) = 1
                    /\ \A k \in BookedFor(date) :
                          plan.rates[k].city = StayOf(plan.stays, date).city
  BY DEF NightsAreBooked
<1> DEFINE date == plan.start + n
           all == skeleton.stays
<1>1. /\ SkeletonFits /\ DraftFits /\ PlanFits /\ skeleton.start \in Int
      /\ skeleton.days \in Nat /\ all \in Seq(StayRecords)
  BY Planned
<1>2. /\ plan.start = skeleton.start /\ plan.stays = all /\ Len(plan.days) = skeleton.days
      /\ DOMAIN plan.rates = DOMAIN all
      /\ \A k \in DOMAIN all : /\ plan.rates[k].city = all[k].city
                               /\ plan.rates[k].from = all[k].checkIn
                               /\ plan.rates[k].to = all[k].checkOut
  BY <1>1 DEF PlanFits, DraftFits, RateFits
<1>3. /\ date \in Int /\ skeleton.start <= date
      /\ date < skeleton.start + skeleton.days - 1
  BY <1>1, <1>2
<1>4. Consecutive(skeleton)
  BY <1>1 DEF SkeletonFits
<1> HIDE DEF date
<1>5. PICK k \in DOMAIN all : \A j \in DOMAIN all :
          all[j].checkIn <= date /\ date < all[j].checkOut <=> j = k
  BY <1>1, <1>3, <1>4, OneStayANight
<1>6. BookedFor(date) = {k}
  BY <1>2, <1>5 DEF BookedFor
<1>7. StayOf(plan.stays, date) = all[k]
  <2>1. date # all[Len(all)].checkOut
    BY <1>1, <1>3, <1>4 DEF Consecutive
  <2>2. \A stay \in {all[j] : j \in DOMAIN all} :
            stay.checkIn <= date /\ date < stay.checkOut <=> stay = all[k]
    BY <1>5
  <2>3. all[k] \in {all[j] : j \in DOMAIN all}
    OBVIOUS
  <2> HIDE DEF all
  <2>4. StayOf(all, date) = CHOOSE stay \in {all[j] : j \in DOMAIN all} :
                                stay.checkIn <= date /\ date < stay.checkOut
    BY <2>1 DEF StayOf
  <2> QED BY <2>2, <2>3, <2>4, <1>2
<1>8. Cardinality(BookedFor(date)) = 1
  BY <1>6, FS_Singleton
<1>9. \A j \in BookedFor(date) : plan.rates[j].city = StayOf(plan.stays, date).city
  BY <1>2, <1>6, <1>7
<1> QED BY <1>8, <1>9 DEF date

\* Every plan is the trip that was asked for, with a bed for every night of it,
\* whatever searches, drafts and edits came before it.
THEOREM PlansAreAsAsked == Spec => []PlanIsTheTripAsked
<1>1. TripInv => PlanIsTheTripAsked
  BY AsAsked, Booked DEF PlanIsTheTripAsked
<1> QED BY <1>1, TripInvariant, PTL

-----------------------------------------------------------------------------
(* TripBudget.                                                              *)

\* An item of the evidence: flights and hotels have no number, so that part and
\* id tell them apart.
IsItem(x) ==
    /\ x.category \in Categories
    /\ x.part \in {"flights", "hotels"} => x.index = 0

AreItems(s) == IsList(s) /\ \A i \in 1..Len(s) : IsItem(s[i])

Distinct(s) == \A i, j \in 1..Len(s) : SameItem(s[i], s[j]) => i = j

\* What is chosen counts at the price it has now.
CurrentIn(trip, items) ==
    /\ trip.flight.priced => MoneyOf(items, "flights", trip.flight.id) = {trip.flight.money}
    /\ \A i \in 1..Len(trip.stays) :
         trip.stays[i].supplied = {} =>
           \A m \in Catalog(trip, trip.stays[i].key) :
             MoneyOf(items, "hotels", trip.stays[i].key) = {m}

SameRate(a, b) == a.from = b.from /\ a.to = b.to

\* Every entry of the cache is as old as its quote or comes from a report, and
\* there is one for a pair.
SoundEntry(e, seen, tick) ==
    /\ e = [from |-> e.from, to |-> e.to, quote |-> e.quote, age |-> e.age]
    /\ e.quote \in 1..tick /\ e.age \in 0..(tick - 1)
    /\ tick - e.quote <= e.age \/ [from |-> e.from, to |-> e.to, quote |-> e.quote] \in seen

SoundCache(c, seen, tick) ==
    /\ \A e \in c : SoundEntry(e, seen, tick)
    /\ \A e, f \in c : SameRate(e, f) => e = f

SoundRates(rates, seen, tick) ==
    /\ rates \subseteq seen
    /\ \A r \in rates : r = [from |-> r.from, to |-> r.to, quote |-> r.quote]
                        /\ r.quote \in 1..tick
    /\ \A r, s \in rates : SameRate(r, s) => r = s

SoundRun(trip, run, tick) ==
    /\ run = [phase |-> run.phase, items |-> run.items, quotes |-> run.quotes,
              tries |-> run.tries]
    /\ run.phase \in Phases /\ run.tries \in 0..(Attempts - 1)
    /\ AreItems(run.items) /\ run.quotes \in Seq(Identity..tick)
    /\ run.phase \in {"asking", "done"} =>
         Distinct(run.items) /\ CurrentIn(Artefacts[trip], run.items)

IsState(x) ==
    x = [trip |-> x.trip, evidence |-> x.evidence, rates |-> x.rates, runs |-> x.runs,
         run |-> x.run]

SoundThread(t, x, seen, tick) ==
    /\ IsState(x)
    /\ x.trip \in Trips[t] /\ AreItems(x.evidence)
    /\ SoundRates(x.rates, seen, tick) /\ SoundRun(x.trip, x.run, tick)

BudgetInv ==
    /\ now \in 1..MaxNow /\ restarts \in 0..MaxRestarts
    /\ SoundCache(cache, reported, now)
    /\ thread = [t \in Threads |-> thread[t]]
    /\ \A t \in Threads : SoundThread(t, thread[t], reported, now)

-----------------------------------------------------------------------------
(* Lists. *)

LEMMA ListJoin ==
    ASSUME NEW a, NEW b, IsList(a), IsList(b)
    PROVE  /\ IsList(a \o b) /\ Len(a \o b) = Len(a) + Len(b)
           /\ \A i \in 1..Len(a) : (a \o b)[i] = a[i]
           /\ \A i \in 1..Len(b) : (a \o b)[Len(a) + i] = b[i]
           /\ \A i \in 1..Len(a \o b) :
                 i \in 1..Len(a) \/ (i - Len(a) \in 1..Len(b) /\ (a \o b)[i] = b[i - Len(a)])
<1> DEFINE T == ToSet(a) \cup ToSet(b)
<1>1. a \in Seq(ToSet(a)) /\ b \in Seq(ToSet(b))
  BY DEF IsList
<1>2. a \in Seq(T) /\ b \in Seq(T)
  <2>1. Len(a) \in Nat /\ a \in [1..Len(a) -> T]
    BY <1>1
  <2>2. Len(b) \in Nat /\ b \in [1..Len(b) -> T]
    BY <1>1
  <2> QED
    BY <2>1, <2>2
<1> HIDE DEF T
<1>3. a \o b \in Seq(T)
  BY <1>2
<1>4. IsList(a \o b)
  BY <1>3, ListTyped
<1>5. Len(a \o b) = Len(a) + Len(b) /\ Len(a) \in Nat /\ Len(b) \in Nat
  BY <1>2
<1>6. \A i \in 1..(Len(a) + Len(b)) :
         (a \o b)[i] = IF i <= Len(a) THEN a[i] ELSE b[i - Len(a)]
  BY <1>2
<1>7. \A i \in 1..Len(a) : (a \o b)[i] = a[i]
  BY <1>5, <1>6
<1>8. \A i \in 1..Len(b) : (a \o b)[Len(a) + i] = b[i]
  <2> TAKE i \in 1..Len(b)
  <2>1. Len(a) + i \in 1..(Len(a) + Len(b)) /\ ~(Len(a) + i <= Len(a)) /\ (Len(a) + i) - Len(a) = i
    BY <1>5
  <2> QED
    BY <1>6, <2>1
<1>9. \A i \in 1..Len(a \o b) :
         i \in 1..Len(a) \/ (i - Len(a) \in 1..Len(b) /\ (a \o b)[i] = b[i - Len(a)])
  BY <1>5, <1>6
<1> QED
  BY <1>4, <1>5, <1>7, <1>8, <1>9

LEMMA NotEmpty ==
    ASSUME NEW T, NEW s \in Seq(T), s # <<>>
    PROVE  Len(s) \in Nat \ {0}
  OBVIOUS

LEMMA ListOfOne ==
    ASSUME NEW x
    PROVE  IsList(<<x>>) /\ Len(<<x>>) = 1 /\ <<x>>[1] = x
<1>1. <<x>> \in Seq({x}) /\ Len(<<x>>) = 1 /\ <<x>>[1] = x
  OBVIOUS
<1> QED
  BY <1>1, ListTyped

LEMMA EmptyList == IsList(<<>>) /\ Len(<<>>) = 0
<1>1. <<>> \in Seq({}) /\ Len(<<>>) = 0
  OBVIOUS
<1> QED
  BY <1>1, ListTyped

-----------------------------------------------------------------------------
(* What is counted. *)

\* The one flight or hotel of its id gives the price of that id.
LEMMA MoneyIs ==
    ASSUME NEW s, AreItems(s), Distinct(s), NEW k \in 1..Len(s),
           s[k].part \in {"flights", "hotels"}
    PROVE  MoneyOf(s, s[k].part, s[k].id) = {s[k].money}
<1> DEFINE same == {x \in ToSet(s) : x.part = s[k].part /\ x.id = s[k].id}
<1>1. ToSet(s) = {s[i] : i \in 1..Len(s)}
  BY ListIs DEF AreItems
<1>2. ASSUME NEW x \in same PROVE x = s[k]
  <2>1. PICK i \in 1..Len(s) : x = s[i]
    BY <1>1
  <2>2. x.part = s[k].part /\ x.id = s[k].id
    OBVIOUS
  <2>3. s[i].index = 0 /\ s[k].index = 0
    BY <2>1, <2>2 DEF AreItems, IsItem
  <2>4. SameItem(s[i], s[k])
    BY <2>1, <2>2, <2>3 DEF SameItem
  <2> QED
    BY <2>1, <2>4 DEF Distinct
<1>3. s[k] \in same
  BY <1>1
<1>4. same = {s[k]}
  BY <1>2, <1>3
<1> QED
  BY <1>4 DEF MoneyOf

\* What is counted first stays, and what is new is added once.
LEMMA JoinedKeeps ==
    ASSUME NEW s, AreItems(s), Distinct(s), NEW more, AreItems(more)
    PROVE  LET all == Joined(s, more)
           IN /\ AreItems(all) /\ Distinct(all) /\ Len(s) <= Len(all)
              /\ \A i \in 1..Len(s) : all[i] = s[i]
<1> DEFINE seen(i) == \/ \E x \in ToSet(s) : SameItem(x, more[i])
                      \/ \E j \in 1..(i - 1) : SameItem(more[j], more[i])
           new == {i \in DOMAIN more : ~seen(i)}
<1>1. Joined(s, more) = s \o Picks(more, new)
  BY DEF Joined
<1>2. PICK P : P = new
  OBVIOUS
<1> DEFINE p == Picks(more, P)
           at == Ascending(P)
           all == s \o p
<1>3. /\ IsList(s) /\ IsList(more) /\ Len(s) \in Nat /\ Len(more) \in Nat
      /\ DOMAIN more = 1..Len(more) /\ ToSet(s) = {s[i] : i \in 1..Len(s)}
  BY ListIs DEF AreItems
<1>4. P \subseteq 1..Len(more)
  BY <1>3, <1>2
<1>5. \A i \in P :
         /\ i \in 1..Len(more)
         /\ \A j \in 1..Len(s) : ~SameItem(s[j], more[i])
         /\ \A j \in 1..(i - 1) : ~SameItem(more[j], more[i])
  BY <1>3, <1>2
<1> HIDE DEF new, seen
<1>6. PicksFrom(p, more, P, at)
  BY <1>3, <1>4, PicksAre
<1> HIDE DEF p, at
<1>7. /\ IsList(all) /\ Len(all) = Len(s) + Len(p)
      /\ \A i \in 1..Len(s) : all[i] = s[i]
      /\ \A i \in 1..Len(all) :
            i \in 1..Len(s) \/ (i - Len(s) \in 1..Len(p) /\ all[i] = p[i - Len(s)])
  BY <1>3, <1>6, ListJoin DEF PicksFrom
<1> HIDE DEF all
<1>8. AreItems(all)
  <2>1. ASSUME NEW i \in 1..Len(all) PROVE IsItem(all[i])
    <3>1. CASE i \in 1..Len(s)
      BY <1>7, <3>1 DEF AreItems
    <3>2. CASE i - Len(s) \in 1..Len(p) /\ all[i] = p[i - Len(s)]
      <4>1. PICK e \in P : all[i] = more[e]
        BY <1>6, <3>2 DEF PicksFrom
      <4> QED
        BY <1>5, <4>1 DEF AreItems
    <3> QED
      BY <1>7, <3>1, <3>2
  <2> QED
    BY <1>7, <2>1 DEF AreItems
<1>9. ASSUME NEW i \in 1..Len(all), NEW j \in 1..Len(all), i < j
      PROVE  ~SameItem(all[i], all[j])
  <2>1. CASE j \in 1..Len(s)
    <3>1. i \in 1..Len(s) /\ i # j
      BY <1>3, <1>9, <2>1
    <3> QED
      BY <1>7, <2>1, <3>1 DEF Distinct
  <2>2. CASE j - Len(s) \in 1..Len(p) /\ all[j] = p[j - Len(s)]
    <3>1. PICK e \in P : e = at[j - Len(s)] /\ all[j] = more[e]
      BY <1>6, <2>2 DEF PicksFrom
    <3>2. CASE i \in 1..Len(s)
      BY <1>5, <1>7, <3>1, <3>2
    <3>3. CASE i - Len(s) \in 1..Len(p) /\ all[i] = p[i - Len(s)]
      <4>1. PICK d \in P : d = at[i - Len(s)] /\ all[i] = more[d]
        BY <1>6, <3>3 DEF PicksFrom
      <4>2. i - Len(s) < j - Len(s)
        BY <1>3, <1>6, <1>7, <1>9 DEF PicksFrom
      <4>3. d < e
        BY <1>6, <2>2, <3>1, <3>3, <4>1, <4>2 DEF PicksFrom
      <4>4. d \in 1..(e - 1)
        BY <1>3, <1>5, <4>3
      <4>5. ~SameItem(more[d], more[e])
        BY <1>5, <4>4
      <4> QED
        BY <3>1, <4>1, <4>5
    <3> QED
      BY <1>7, <3>2, <3>3
  <2> QED
    BY <1>7, <2>1, <2>2
<1>10. ASSUME NEW i \in 1..Len(all), NEW j \in 1..Len(all), SameItem(all[i], all[j])
      PROVE  i = j
  <2>1. SameItem(all[j], all[i])
    BY <1>10 DEF SameItem
  <2>2. i \in Int /\ j \in Int
    OBVIOUS
  <2> QED
    BY <1>9, <1>10, <2>1, <2>2
<1>11. Distinct(all)
  BY <1>10 DEF Distinct
<1>12. Len(s) <= Len(all)
  BY <1>3, <1>6, <1>7 DEF PicksFrom
<1> QED
  BY <1>1, <1>2, <1>7, <1>8, <1>11, <1>12 DEF all, p

\* Flights come first, then stays, then what the traveller names.
LEMMA FlightIs ==
    ASSUME NEW a
    PROVE  LET f == Flight(a)
           IN /\ AreItems(f) /\ Distinct(f)
              /\ \A i \in 1..Len(f) : f[i].part = "flights"
              /\ a.flight.priced => /\ Len(f) = 1 /\ f[1].id = a.flight.id
                                     /\ f[1].money = a.flight.money
<1> DEFINE x == Item("flights", a.flight.id, "flights", a.flight.money, "total")
<1>1. /\ x.part = "flights" /\ x.id = a.flight.id /\ x.index = 0 /\ x.category = "flights"
      /\ x.money = a.flight.money
  BY DEF Item
<1>2. IsItem(x)
  BY <1>1 DEF IsItem, Categories
<1>3. Flight(a) = IF a.flight.priced THEN <<x>> ELSE <<>>
  BY DEF Flight
<1> HIDE DEF x
<1>4. CASE a.flight.priced
  <2>1. IsList(<<x>>) /\ Len(<<x>>) = 1 /\ <<x>>[1] = x
    BY ListOfOne
  <2>2. \A i \in 1..1 : i = 1
    OBVIOUS
  <2> QED
    BY <1>1, <1>2, <1>3, <1>4, <2>1, <2>2 DEF AreItems, Distinct
<1>5. CASE ~a.flight.priced
  <2>1. \A i \in 1..0 : FALSE
    OBVIOUS
  <2> QED
    BY <1>3, <1>5, <2>1, EmptyList DEF AreItems, Distinct
<1> QED
  BY <1>4, <1>5

LEMMA KnownIs ==
    ASSUME NEW a, IsTrip(a)
    PROVE  LET s == KnownCosts(a)
           IN /\ AreItems(s) /\ Distinct(s)
              /\ \A i \in 1..Len(s) : s[i].part = "traveler"
<1> DEFINE s == KnownCosts(a)
           n == Len(a.known)
<1>1. /\ n \in Nat /\ DOMAIN a.known = 1..n
      /\ \A i \in 1..n : a.known[i].category \in Categories
  BY ListIs DEF IsTrip
<1>2. s = [i \in 1..n |->
             [Item("traveler", a.known[i].category, a.known[i].category, a.known[i].money,
                   a.known[i].scope) EXCEPT !.index = i]]
  BY <1>1 DEF KnownCosts
<1> HIDE DEF s, n
<1>3. \A i \in 1..n : /\ s[i].part = "traveler" /\ s[i].index = i
                       /\ s[i].category = a.known[i].category
  BY <1>2 DEF Item
<1>4. s = [i \in 1..n |-> s[i]]
  BY <1>2
<1>5. IsList(s) /\ Len(s) = n
  BY <1>1, <1>4, ListMade
<1>6. \A i \in 1..n : IsItem(s[i])
  BY <1>1, <1>3 DEF IsItem
<1>7. \A i, j \in 1..n : SameItem(s[i], s[j]) => i = j
  BY <1>3 DEF SameItem
<1> QED
  BY <1>3, <1>5, <1>6, <1>7 DEF AreItems, Distinct, s

\* A rate has one price: that of its last option.
LEMMA CatalogIs ==
    ASSUME NEW a, NEW key, NEW m \in Catalog(a, key)
    PROVE  Catalog(a, key) = {m}
  BY DEF Catalog

\* The stays that count: one for each rate, at its price.
LEMMA StaysAre ==
    ASSUME NEW a, IsTrip(a)
    PROVE  LET s == Stays(a)
           IN /\ AreItems(s) /\ Distinct(s)
              /\ \A i \in 1..Len(s) : s[i].part = "hotels"
              /\ \A i \in 1..Len(a.stays) : \A m \in Catalog(a, a.stays[i].key) :
                    a.stays[i].supplied = {} =>
                      \E k \in 1..Len(s) : s[k].id = a.stays[i].key /\ s[k].money = m
<1> DEFINE counted(i) ==
             LET stay == a.stays[i] IN
               /\ \A j \in 1..(i - 1) : a.stays[j].key # stay.key
               /\ \E money \in Catalog(a, stay.key) : stay.supplied \in {{}, {money}}
           P == {i \in DOMAIN a.stays : counted(i)}
           at == Ascending(P)
           n == Cardinality(P)
           s == Stays(a)
<1>1. IsList(a.stays) /\ Len(a.stays) \in Nat /\ DOMAIN a.stays = 1..Len(a.stays)
  BY ListIs DEF IsTrip
<1>2. P \in SUBSET (1..Len(a.stays)) /\ P \subseteq Int
  BY <1>1
<1>3. IsFiniteSet(1..Len(a.stays))
  BY <1>1, FS_Interval
<1>4. IsFiniteSet(P)
  <2> HIDE DEF P
  <2> QED
    BY <1>2, <1>3, FS_Subset
<1>5. s = [k \in DOMAIN at |->
             LET key == a.stays[at[k]].key IN
               Item("hotels", key, "accommodation", CHOOSE m \in Catalog(a, key) : TRUE, "total")]
  BY DEF Stays
<1>6. \A i \in P :
         /\ i \in 1..Len(a.stays)
         /\ \A j \in 1..(i - 1) : a.stays[j].key # a.stays[i].key
  BY <1>1
<1>7. \A i \in 1..Len(a.stays) : \A m \in Catalog(a, a.stays[i].key) :
         /\ a.stays[i].supplied = {}
         /\ \A j \in 1..(i - 1) : a.stays[j].key # a.stays[i].key
         => i \in P
  BY <1>1
<1> HIDE DEF P
<1>8. /\ n \in Nat /\ at \in Seq(P) /\ Len(at) = n /\ DOMAIN at = 1..n
      /\ \A i, j \in 1..n : at[i] < at[j] <=> i < j
      /\ \A i \in P : \E k \in 1..n : at[k] = i
  BY <1>2, <1>4, AscendingSorts
<1> HIDE DEF at, n, s
<1>9. \A k \in 1..n : at[k] \in P
  BY <1>8
<1>10. s = [k \in 1..n |-> s[k]]
  BY <1>5, <1>8
<1>11. IsList(s) /\ Len(s) = n
  BY <1>8, <1>10, ListMade
<1>12. ASSUME NEW k \in 1..n
       PROVE  /\ s[k].part = "hotels" /\ s[k].id = a.stays[at[k]].key /\ s[k].index = 0
              /\ s[k].category = "accommodation"
              /\ s[k].money = CHOOSE m \in Catalog(a, a.stays[at[k]].key) : TRUE
  BY <1>5, <1>8 DEF Item
<1>13. \A k \in 1..n : IsItem(s[k])
  BY <1>12 DEF IsItem, Categories
<1>14. ASSUME NEW k \in 1..n, NEW l \in 1..n, k < l PROVE ~SameItem(s[k], s[l])
  <2>1. at[k] \in P /\ at[l] \in P /\ at[k] < at[l]
    BY <1>8, <1>9, <1>14
  <2>2. at[k] \in 1..(at[l] - 1)
    <3>1. at[k] \in 1..Len(a.stays) /\ at[l] \in 1..Len(a.stays)
      BY <1>6, <2>1
    <3> QED
      BY <1>1, <2>1, <3>1
  <2>3. a.stays[at[k]].key # a.stays[at[l]].key
    BY <1>6, <2>1, <2>2
  <2> QED
    BY <1>12, <2>3 DEF SameItem
<1>15. Distinct(s)
  <2>1. ASSUME NEW k \in 1..n, NEW l \in 1..n, SameItem(s[k], s[l]) PROVE k = l
    <3>1. SameItem(s[l], s[k]) /\ k \in Int /\ l \in Int
      BY <2>1 DEF SameItem
    <3> QED
      BY <1>14, <2>1, <3>1
  <2> QED
    BY <1>11, <2>1 DEF Distinct
<1>16. ASSUME NEW i \in 1..Len(a.stays), NEW m \in Catalog(a, a.stays[i].key),
              a.stays[i].supplied = {}
       PROVE  \E k \in 1..n : s[k].id = a.stays[i].key /\ s[k].money = m
  <2> DEFINE same == {j \in 1..Len(a.stays) : a.stays[j].key = a.stays[i].key}
             f == Min(same)
  <2>1. same \subseteq Nat /\ i \in same
    BY <1>1
  <2>2. f \in same /\ \A j \in same : f <= j
    <3> HIDE DEF same
    <3> QED
      BY <2>1, MinIsLeast
  <2>3. f \in 1..Len(a.stays) /\ a.stays[f].key = a.stays[i].key
    BY <2>2
  <2>4. \A j \in 1..(f - 1) : j \in 1..Len(a.stays) /\ ~(f <= j)
    BY <1>1, <2>3
  <2>5. \A j \in 1..(f - 1) : a.stays[j].key # a.stays[f].key
    BY <2>2, <2>3, <2>4
  <2>6. a.stays[f] = a.stays[i]
    BY <1>1, <2>3 DEF IsTrip
  <2>7. f \in P
    BY <1>7, <1>16, <2>3, <2>5, <2>6
  <2> HIDE DEF f, same
  <2>8. PICK k \in 1..n : at[k] = f
    BY <1>8, <2>7
  <2>9. s[k].id = a.stays[i].key
    BY <1>12, <2>6, <2>8
  <2>10. s[k].money = m
    BY <1>12, <1>16, <2>6, <2>8, CatalogIs
  <2> QED
    BY <2>9, <2>10
<1>17. AreItems(s) /\ \A k \in 1..Len(s) : s[k].part = "hotels"
  BY <1>11, <1>12, <1>13 DEF AreItems
<1> QED
  BY <1>11, <1>15, <1>16, <1>17 DEF s

LEMMA PartsApart ==
    ASSUME NEW a, NEW b, AreItems(a), AreItems(b), Distinct(a), Distinct(b),
           \A i \in 1..Len(a), j \in 1..Len(b) : a[i].part # b[j].part
    PROVE  AreItems(a \o b) /\ Distinct(a \o b)
<1> DEFINE c == a \o b
<1>1. /\ IsList(a) /\ IsList(b) /\ Len(a) \in Nat /\ Len(b) \in Nat
      /\ IsList(c) /\ Len(c) = Len(a) + Len(b)
      /\ \A i \in 1..Len(a) : c[i] = a[i]
      /\ \A i \in 1..Len(c) :
            i \in 1..Len(a) \/ (i - Len(a) \in 1..Len(b) /\ c[i] = b[i - Len(a)])
  BY ListIs, ListJoin DEF AreItems
<1> HIDE DEF c
<1>2. ASSUME NEW i \in 1..Len(c) PROVE IsItem(c[i])
  BY <1>1 DEF AreItems
<1>3. ASSUME NEW i \in 1..Len(c), NEW j \in 1..Len(c), SameItem(c[i], c[j])
      PROVE  i = j
  <2>1. c[i].part = c[j].part
    BY <1>3 DEF SameItem
  <2>2. CASE i \in 1..Len(a) /\ j \in 1..Len(a)
    BY <1>1, <1>3, <2>2 DEF Distinct
  <2>3. CASE i - Len(a) \in 1..Len(b) /\ j - Len(a) \in 1..Len(b)
             /\ c[i] = b[i - Len(a)] /\ c[j] = b[j - Len(a)]
    <3>1. i - Len(a) = j - Len(a)
      BY <1>3, <2>3 DEF Distinct
    <3> QED
      BY <1>1, <3>1
  <2>4. CASE i \in 1..Len(a) /\ j - Len(a) \in 1..Len(b) /\ c[j] = b[j - Len(a)]
    BY <1>1, <2>1, <2>4
  <2>5. CASE j \in 1..Len(a) /\ i - Len(a) \in 1..Len(b) /\ c[i] = b[i - Len(a)]
    BY <1>1, <2>1, <2>5
  <2> QED
    BY <1>1, <2>2, <2>3, <2>4, <2>5
<1> QED
  BY <1>1, <1>2, <1>3 DEF AreItems, Distinct, c

\* The evidence of a budget whatever was counted before.
LEMMA Assembles ==
    ASSUME NEW t \in Threads, NEW trip \in Trips[t], NEW more, AreItems(more)
    PROVE  LET all == Assembled(trip, more)
           IN AreItems(all) /\ Distinct(all) /\ CurrentIn(Artefacts[trip], all)
<1> DEFINE a == Artefacts[trip]
           f == Flight(a)
           s == Stays(a)
           n == KnownCosts(a)
           chosen == (f \o s) \o n
           all == Assembled(trip, more)
<1>1. IsTrip(a)
  BY BudgetAssumption
<1>2. all = Joined(chosen, more)
  <2>1. Chosen[trip] = chosen
    BY DEF Chosen
  <2> QED
    BY <2>1 DEF Assembled
<1>3. /\ AreItems(f) /\ Distinct(f) /\ \A i \in 1..Len(f) : f[i].part = "flights"
      /\ a.flight.priced => Len(f) = 1 /\ f[1].id = a.flight.id /\ f[1].money = a.flight.money
  BY FlightIs
<1>4. /\ AreItems(s) /\ Distinct(s) /\ \A i \in 1..Len(s) : s[i].part = "hotels"
      /\ \A i \in 1..Len(a.stays) : \A m \in Catalog(a, a.stays[i].key) :
            a.stays[i].supplied = {} =>
              \E k \in 1..Len(s) : s[k].id = a.stays[i].key /\ s[k].money = m
  BY <1>1, StaysAre
<1>5. AreItems(n) /\ Distinct(n) /\ \A i \in 1..Len(n) : n[i].part = "traveler"
  BY <1>1, KnownIs
<1>6. IsTrip(a) => IsList(a.stays)
  BY DEF IsTrip
<1> HIDE DEF f, s, n, a
<1>7. AreItems(f \o s) /\ Distinct(f \o s)
  BY <1>3, <1>4, PartsApart
<1>8. /\ IsList(f) /\ IsList(s) /\ IsList(n) /\ IsList(f \o s)
      /\ Len(f) \in Nat /\ Len(s) \in Nat /\ Len(n) \in Nat
  BY <1>3, <1>4, <1>5, <1>7, ListIs DEF AreItems
<1>9. /\ Len(f \o s) = Len(f) + Len(s)
      /\ \A i \in 1..Len(f) : (f \o s)[i] = f[i]
      /\ \A i \in 1..Len(s) : (f \o s)[Len(f) + i] = s[i]
      /\ \A i \in 1..Len(f \o s) :
            i \in 1..Len(f) \/ (i - Len(f) \in 1..Len(s) /\ (f \o s)[i] = s[i - Len(f)])
  BY <1>8, ListJoin
<1> DEFINE b == f \o s
<1> HIDE DEF b
<1>10. \A i \in 1..Len(b) : b[i].part \in {"flights", "hotels"}
  BY <1>3, <1>4, <1>9 DEF b
<1>11. chosen = b \o n
  BY DEF b
<1> HIDE DEF chosen
<1>12. AreItems(chosen) /\ Distinct(chosen)
  <2>1. \A i \in 1..Len(b), j \in 1..Len(n) : b[i].part # n[j].part
    BY <1>5, <1>10
  <2>2. AreItems(b) /\ Distinct(b)
    BY <1>7 DEF b
  <2> QED
    BY <1>5, <1>11, <2>1, <2>2, PartsApart
<1>13. /\ Len(chosen) = Len(b) + Len(n)
       /\ \A i \in 1..Len(b) : chosen[i] = b[i]
  <2>1. IsList(b) /\ IsList(n)
    BY <1>8 DEF b
  <2> QED
    BY <1>11, <2>1, ListJoin
<1> HIDE DEF all
<1>14. /\ AreItems(all) /\ Distinct(all) /\ Len(chosen) <= Len(all)
       /\ \A i \in 1..Len(chosen) : all[i] = chosen[i]
  BY <1>2, <1>12, JoinedKeeps
<1>15. Len(all) \in Nat /\ Len(b) = Len(f) + Len(s)
  BY <1>9, <1>14, ListIs DEF AreItems, b
<1>16. \A i \in 1..Len(b) : i \in 1..Len(all) /\ all[i] = b[i]
  BY <1>8, <1>13, <1>14, <1>15
<1>17. ASSUME a.flight.priced PROVE MoneyOf(all, "flights", a.flight.id) = {a.flight.money}
  <2>1. Len(f) = 1 /\ 1 \in 1..Len(b) /\ b[1] = f[1]
    <3>1. Len(f) = 1
      BY <1>3, <1>17, Zenon
    <3>3. 1 \in 1..Len(f)
      BY <3>1
    <3>2. b[1] = f[1]
      BY <1>9, <3>3 DEF b
    <3> QED
      BY <1>8, <1>15, <3>1, <3>2
  <2>2. 1 \in 1..Len(all) /\ all[1] = f[1] /\ f[1].part = "flights"
    BY <1>3, <1>16, <2>1
  <2> QED
    BY <1>3, <1>14, <1>17, <2>2, MoneyIs
<1>18. ASSUME NEW i \in 1..Len(a.stays), a.stays[i].supplied = {},
              NEW m \in Catalog(a, a.stays[i].key)
       PROVE  MoneyOf(all, "hotels", a.stays[i].key) = {m}
  <2>1. PICK k \in 1..Len(s) : s[k].id = a.stays[i].key /\ s[k].money = m
    BY <1>4, <1>18
  <2> DEFINE l == Len(f) + k
  <2>2. l \in 1..Len(b) /\ b[l] = s[k]
    BY <1>8, <1>9, <1>15 DEF b
  <2> HIDE DEF l
  <2>3. l \in 1..Len(all) /\ all[l] = s[k] /\ s[k].part = "hotels"
    BY <1>4, <1>16, <2>2
  <2>4. MoneyOf(all, all[l].part, all[l].id) = {all[l].money}
    BY <1>14, <2>3, MoneyIs
  <2> QED
    BY <2>1, <2>3, <2>4
<1> QED
  BY <1>14, <1>17, <1>18 DEF CurrentIn, all, a

-----------------------------------------------------------------------------
(* The cache of rates. *)

LEMMA SeenGrows ==
    ASSUME NEW seen, NEW more, seen \subseteq more, NEW tick
    PROVE  /\ \A c : SoundCache(c, seen, tick) => SoundCache(c, more, tick)
           /\ \A r : SoundRates(r, seen, tick) => SoundRates(r, more, tick)
           /\ \A t, x : SoundThread(t, x, seen, tick) => SoundThread(t, x, more, tick)
<1>1. \A c : SoundCache(c, seen, tick) => SoundCache(c, more, tick)
  BY DEF SoundCache, SoundEntry
<1>2. \A r : SoundRates(r, seen, tick) => SoundRates(r, more, tick)
  BY DEF SoundRates
<1> QED
  BY <1>1, <1>2 DEF SoundThread

LEMMA CacheShrinks ==
    ASSUME NEW c, NEW seen, NEW tick, SoundCache(c, seen, tick), NEW d, d \subseteq c
    PROVE  SoundCache(d, seen, tick)
  BY DEF SoundCache

\* What a report recorded is kept with it, and returns as new to the cache.
LEMMA RatesReturn ==
    ASSUME NEW c, NEW seen, NEW tick \in Nat \ {0}, SoundCache(c, seen, tick),
           NEW rates, SoundRates(rates, seen, tick)
    PROVE  SoundCache(RememberAll(c, rates), seen, tick)
<1> DEFINE new(r) == [from |-> r.from, to |-> r.to, quote |-> r.quote, age |-> 0]
           all == RememberAll(c, rates)
<1>1. ASSUME NEW e \in all
      PROVE  \/ e \in c /\ \A r \in rates : ~SameRate(e, r)
             \/ \E r \in rates : e = new(r)
  BY <1>1 DEF RememberAll, Entry, SameRate
<1>2. ASSUME NEW r \in rates PROVE SoundEntry(new(r), seen, tick)
  <2>1. r = [from |-> r.from, to |-> r.to, quote |-> r.quote] /\ r.quote \in 1..tick /\ r \in seen
    BY DEF SoundRates
  <2>2. [from |-> new(r).from, to |-> new(r).to, quote |-> new(r).quote] = r
    BY <2>1
  <2> QED
    BY <2>1, <2>2 DEF SoundEntry
<1>3. \A e \in all : SoundEntry(e, seen, tick)
  BY <1>1, <1>2 DEF SoundCache
<1>4. ASSUME NEW e \in all, NEW f \in all, SameRate(e, f) PROVE e = f
  <2>1. CASE e \in c /\ f \in c
    BY <1>4, <2>1 DEF SoundCache
  <2>2. CASE \E r \in rates : e = new(r)
    <3>1. PICK r \in rates : e = new(r)
      BY <2>2
    <3>2. e.from = r.from /\ e.to = r.to
      BY <3>1
    <3>3. SameRate(f, r)
      BY <1>4, <3>2 DEF SameRate
    <3>4. PICK s \in rates : f = new(s)
      BY <1>1, <3>3
    <3>5. SameRate(r, s)
      BY <3>3, <3>4 DEF SameRate
    <3>6. r = s
      BY <3>5 DEF SoundRates
    <3> QED
      BY <3>1, <3>4, <3>6
  <2>3. CASE \E r \in rates : f = new(r)
    <3>1. PICK r \in rates : f = new(r)
      BY <2>3
    <3>2. SameRate(e, r)
      BY <1>4, <3>1 DEF SameRate
    <3>3. PICK s \in rates : e = new(s)
      BY <1>1, <3>2
    <3>4. r = s
      BY <3>2, <3>3 DEF SameRate, SoundRates
    <3> QED
      BY <3>1, <3>3, <3>4
  <2> QED
    BY <1>1, <2>1, <2>2, <2>3
<1> QED
  BY <1>3, <1>4 DEF SoundCache

LEMMA RateIsNew ==
    ASSUME NEW c, NEW seen, NEW tick \in Nat \ {0}, SoundCache(c, seen, tick), NEW pair
    PROVE  SoundCache(Remember(c, pair, tick), seen, tick)
<1> DEFINE new == [from |-> pair.from, to |-> pair.to, quote |-> tick, age |-> 0]
           all == Remember(c, pair, tick)
<1>1. ASSUME NEW e \in all PROVE e = new \/ (e \in c /\ ~SameRate(e, new))
  BY <1>1 DEF Remember, Entry, SameRate
<1>2. SoundEntry(new, seen, tick)
  BY DEF SoundEntry
<1>3. \A e \in all : SoundEntry(e, seen, tick)
  BY <1>1, <1>2 DEF SoundCache
<1>4. ASSUME NEW e \in all, NEW f \in all, SameRate(e, f) PROVE e = f
  <2>1. SameRate(f, e)
    BY <1>4 DEF SameRate
  <2> QED
    BY <1>1, <1>4, <2>1 DEF SoundCache
<1> QED
  BY <1>3, <1>4 DEF SoundCache

LEMMA RatesAge ==
    ASSUME NEW c, NEW seen, NEW tick \in Nat \ {0}, SoundCache(c, seen, tick)
    PROVE  SoundCache({[e EXCEPT !.age = @ + 1] : e \in c}, seen, tick + 1)
<1> DEFINE older(e) == [e EXCEPT !.age = @ + 1]
<1>1. ASSUME NEW e \in c
      PROVE  /\ SoundEntry(older(e), seen, tick + 1)
             /\ older(e) = [from |-> e.from, to |-> e.to, quote |-> e.quote, age |-> e.age + 1]
  <2>1. /\ e = [from |-> e.from, to |-> e.to, quote |-> e.quote, age |-> e.age]
        /\ e.quote \in 1..tick /\ e.age \in 0..(tick - 1)
        /\ tick - e.quote <= e.age \/ [from |-> e.from, to |-> e.to, quote |-> e.quote] \in seen
    BY DEF SoundCache, SoundEntry
  <2>2. older(e) = [from |-> e.from, to |-> e.to, quote |-> e.quote, age |-> e.age + 1]
    BY <2>1
  <2> HIDE DEF older
  <2>3. /\ older(e).from = e.from /\ older(e).to = e.to /\ older(e).quote = e.quote
        /\ older(e).age = e.age + 1
    BY <2>2
  <2> QED
    BY <2>1, <2>2, <2>3 DEF SoundEntry
<1>2. ASSUME NEW e \in c, NEW f \in c, SameRate(older(e), older(f)) PROVE older(e) = older(f)
  <2>1. SameRate(e, f)
    BY <1>1, <1>2 DEF SameRate
  <2> QED
    BY <2>1 DEF SoundCache
<1> DEFINE all == {older(e) : e \in c}
<1>3. \A x \in all : \E e \in c : x = older(e)
  OBVIOUS
<1> HIDE DEF older
<1>4. SoundCache(all, seen, tick + 1)
  BY <1>1, <1>2, <1>3 DEF SoundCache
<1> QED
  BY <1>4 DEF older

\* What the cache can answer was quoted within the lifetime of an entry, or
\* stands in a report.
IsFresh(q, pair, seen, tick) ==
    q <= 0 \/ tick - q <= TTL \/ [from |-> pair.from, to |-> pair.to, quote |-> q] \in seen

LEMMA CacheAnswers ==
    ASSUME NEW c, NEW seen, NEW tick \in Nat \ {0}, SoundCache(c, seen, tick), NEW pair,
           IsKnown(c, pair)
    PROVE  QuoteOf(c, pair) \in Identity..tick /\ IsFresh(QuoteOf(c, pair), pair, seen, tick)
<1>1. CASE pair.from = pair.to
  BY <1>1 DEF QuoteOf, Identity, IsFresh
<1>2. CASE pair.from # pair.to
  <2>1. PICK e \in Entry(c, pair) : Fresh(e)
    BY <1>2 DEF IsKnown
  <2>2. e \in c /\ e.from = pair.from /\ e.to = pair.to
    BY <2>1 DEF Entry
  <2>3. \A f \in Entry(c, pair) : f = e
    BY <2>2 DEF Entry, SoundCache, SameRate
  <2>4. QuoteOf(c, pair) = e.quote
    BY <1>2, <2>1, <2>3 DEF QuoteOf
  <2>5. SoundEntry(e, seen, tick)
    BY <2>2 DEF SoundCache
  <2>6. e.age <= TTL /\ TTL \in Nat
    BY <2>1, BudgetAssumption DEF Fresh
  <2>7. /\ e.quote \in 1..tick /\ e.age \in 0..(tick - 1)
        /\ tick - e.quote <= e.age \/ [from |-> e.from, to |-> e.to, quote |-> e.quote] \in seen
    BY <2>5 DEF SoundEntry
  <2>8. e.quote \in Identity..tick
    BY <2>7 DEF Identity
  <2>9. tick - e.quote <= TTL \/ [from |-> pair.from, to |-> pair.to, quote |-> e.quote] \in seen
    BY <2>2, <2>6, <2>7
  <2> QED
    BY <2>4, <2>8, <2>9 DEF IsFresh
<1> QED
  BY <1>1, <1>2

-----------------------------------------------------------------------------
(* A run goes on. *)

LEMMA NeedsAre ==
    ASSUME NEW trip, NEW items, AreItems(items)
    PROVE  LET needs == Needs(trip, items)
           IN /\ IsList(needs)
              /\ \A k \in 1..Len(needs) : needs[k] = [from |-> needs[k].from, to |-> needs[k].to]
<1> DEFINE a == [i \in DOMAIN items |-> Pair(items[i].money.currency, "USD")]
           b == IF trip.target.amount # NoTarget THEN <<Pair(trip.target.currency, "USD")>> ELSE <<>>
           d == <<Pair("USD", trip.target.currency)>>
           Pairs(s) == \A k \in 1..Len(s) : s[k] = [from |-> s[k].from, to |-> s[k].to]
<1>1. \A x, y : LET p == Pair(x, y) IN p = [from |-> p.from, to |-> p.to]
  BY DEF Pair
<1>2. ASSUME NEW x, NEW y PROVE IsList(<<Pair(x, y)>>) /\ Pairs(<<Pair(x, y)>>)
  <2> DEFINE p == Pair(x, y)
  <2>1. IsList(<<p>>) /\ Len(<<p>>) = 1 /\ <<p>>[1] = p
    BY ListOfOne
  <2>2. p = [from |-> p.from, to |-> p.to]
    BY <1>1
  <2> DEFINE q == <<p>>
  <2> HIDE DEF p, q
  <2>3. \A k \in 1..1 : k = 1
    OBVIOUS
  <2>4. Len(q) = 1 /\ q[1] = p /\ IsList(q)
    BY <2>1 DEF q
  <2>5. Pairs(q)
    BY <2>2, <2>3, <2>4
  <2> QED
    BY <2>4, <2>5 DEF q, p
<1>3. IsList(a) /\ Pairs(a)
  <2>1. Len(items) \in Nat /\ DOMAIN items = 1..Len(items)
    BY ListIs DEF AreItems
  <2>2. a = [i \in 1..Len(items) |-> a[i]]
    BY <2>1
  <2>3. IsList(a) /\ Len(a) = Len(items)
    BY <2>1, <2>2, ListMade
  <2>4. \A k \in 1..Len(items) : a[k] = Pair(items[k].money.currency, "USD")
    BY <2>1
  <2> HIDE DEF a
  <2> QED
    BY <1>1, <2>3, <2>4
<1>4. IsList(b) /\ Pairs(b)
  <2>1. \A k \in 1..0 : FALSE
    OBVIOUS
  <2>2. IsList(<<>>) /\ Pairs(<<>>)
    BY <2>1, EmptyList
  <2> QED
    BY <1>2, <2>2
<1>5. IsList(d) /\ Pairs(d)
  BY <1>2
<1>6. Needs(trip, items) = (a \o b) \o d
  BY DEF Needs
<1>7. ASSUME NEW s, NEW r, IsList(s), IsList(r), Pairs(s), Pairs(r)
      PROVE  IsList(s \o r) /\ Pairs(s \o r)
  <2>1. /\ IsList(s \o r)
        /\ \A i \in 1..Len(s) : (s \o r)[i] = s[i]
        /\ \A i \in 1..Len(s \o r) :
              i \in 1..Len(s) \/ (i - Len(s) \in 1..Len(r) /\ (s \o r)[i] = r[i - Len(s)])
    BY <1>7, ListJoin
  <2> DEFINE c == s \o r
  <2> HIDE DEF c
  <2>2. ASSUME NEW k \in 1..Len(c) PROVE c[k] = [from |-> c[k].from, to |-> c[k].to]
    <3>1. CASE k \in 1..Len(s)
      BY <1>7, <2>1, <3>1 DEF c
    <3>2. CASE k - Len(s) \in 1..Len(r) /\ c[k] = r[k - Len(s)]
      BY <1>7, <3>2
    <3> QED
      BY <2>1, <3>1, <3>2 DEF c
  <2> QED
    BY <2>1, <2>2 DEF c
<1> HIDE DEF a, b, d
<1>8. IsList(a \o b) /\ Pairs(a \o b)
  BY <1>3, <1>4, <1>7
<1>9. IsList((a \o b) \o d) /\ Pairs((a \o b) \o d)
  <2> DEFINE ab == a \o b
  <2>1. IsList(ab) /\ Pairs(ab)
    BY <1>8
  <2> HIDE DEF ab
  <2>2. IsList(ab \o d) /\ Pairs(ab \o d)
    BY <1>5, <1>7, <2>1
  <2> QED
    BY <2>2 DEF ab
<1> QED
  BY <1>6, <1>9

\* The quotes of a run from those there were, as far as the cache answers.
Extends(all, quotes, needs, seen, tick) ==
    /\ all \in Seq(Identity..tick) /\ Len(quotes) <= Len(all)
    /\ \A i \in 1..Len(quotes) : all[i] = quotes[i]
    /\ \A i \in (Len(quotes) + 1)..Len(all) : IsFresh(all[i], needs[i], seen, tick)

Answers(c, quotes, needs, end) ==
    quotes \o [j \in 1..(end - Len(quotes)) |-> QuoteOf(c, needs[Len(quotes) + j])]

LEMMA QuotesExtend ==
    ASSUME NEW c, NEW seen, NEW tick \in Nat \ {0}, SoundCache(c, seen, tick),
           NEW quotes \in Seq(Identity..tick), NEW needs, NEW end \in Int,
           \A k \in (Len(quotes) + 1)..end : IsKnown(c, needs[k])
    PROVE  LET all == Answers(c, quotes, needs, end)
           IN Extends(all, quotes, needs, seen, tick) /\ end <= Len(all)
<1> DEFINE l == Len(quotes)
           n == end - l
           new == [j \in 1..n |-> QuoteOf(c, needs[l + j])]
           all == quotes \o new
<1>1. l \in Nat /\ n \in Int
  OBVIOUS
<1>2. ASSUME NEW j \in 1..n
      PROVE  /\ new[j] = QuoteOf(c, needs[l + j]) /\ new[j] \in Identity..tick
             /\ IsFresh(new[j], needs[l + j], seen, tick)
  <2>1. l + j \in (l + 1)..end
    BY <1>1
  <2>2. IsKnown(c, needs[l + j])
    BY <2>1
  <2>3. new[j] = QuoteOf(c, needs[l + j])
    OBVIOUS
  <2> HIDE DEF new
  <2> QED
    BY <2>2, <2>3, CacheAnswers
<1> HIDE DEF n
<1> DEFINE m == IF n >= 0 THEN n ELSE 0
<1>3. m \in Nat /\ 1..n = 1..m /\ n <= m
  BY <1>1
<1>4. new = [j \in 1..m |-> new[j]]
  BY <1>3
<1> HIDE DEF new, m
<1> DEFINE T == Identity..tick
<1>5. new \in [1..m -> T] /\ quotes \in Seq(T)
  BY <1>2, <1>3, <1>4
<1> HIDE DEF T
<1>6. new \in Seq(T) /\ Len(new) = m
  BY <1>3, <1>5
<1>7. all \in Seq(T) /\ Len(all) = l + m
  BY <1>5, <1>6
<1>8. \A i \in 1..l : all[i] = quotes[i]
  BY <1>5, <1>6
<1>9. \A i \in (l + 1)..Len(all) : i - l \in 1..m /\ all[i] = new[i - l] /\ l + (i - l) = i
  BY <1>1, <1>3, <1>5, <1>6, <1>7
<1>10. \A i \in (l + 1)..Len(all) : IsFresh(all[i], needs[i], seen, tick)
  <2> TAKE i \in (l + 1)..Len(all)
  <2>1. i - l \in 1..n /\ all[i] = new[i - l] /\ l + (i - l) = i
    BY <1>3, <1>9
  <2>2. IsFresh(new[i - l], needs[l + (i - l)], seen, tick)
    BY <1>2, <2>1
  <2> QED
    BY <2>1, <2>2
<1>11. l <= Len(all) /\ end <= Len(all)
  BY <1>1, <1>3, <1>7 DEF n
<1> QED
  BY <1>7, <1>8, <1>10, <1>11 DEF Extends, Answers, new, n, T

\* A report records one rate for a pair.
LEMMA RecordedSound ==
    ASSUME NEW trip, NEW items, AreItems(items), NEW tick \in Nat \ {0},
           NEW quotes \in Seq(Identity..tick), Len(Needs(trip, items)) <= Len(quotes),
           NEW seen, Recorded(Needs(trip, items), quotes) \subseteq seen
    PROVE  SoundRates(Recorded(Needs(trip, items), quotes), seen, tick)
<1> DEFINE needs == Needs(trip, items)
           last(i) == \A j \in (i + 1)..Len(needs) : needs[j] # needs[i] \/ quotes[j] = Unavailable
           recorded == {i \in DOMAIN needs : quotes[i] > 0 /\ last(i)}
           rate(i) == [from |-> needs[i].from, to |-> needs[i].to, quote |-> quotes[i]]
<1>1. /\ Len(needs) \in Nat /\ DOMAIN needs = 1..Len(needs)
      /\ \A k \in 1..Len(needs) : needs[k] = [from |-> needs[k].from, to |-> needs[k].to]
  BY NeedsAre, ListIs
<1>2. Recorded(needs, quotes) = {rate(i) : i \in recorded}
  BY DEF Recorded
<1>3. Len(quotes) \in Nat /\ \A i \in 1..Len(quotes) : quotes[i] \in Identity..tick
  BY InSeq
<1> HIDE DEF needs
<1>4. ASSUME NEW i \in recorded
      PROVE  /\ i \in 1..Len(needs) /\ quotes[i] \in 1..tick
             /\ \A j \in (i + 1)..Len(needs) : needs[j] # needs[i] \/ quotes[j] = 0
  <2>1. i \in 1..Len(needs) /\ quotes[i] > 0 /\ last(i)
    BY <1>1
  <2>2. i \in 1..Len(quotes)
    BY <1>1, <1>3, <2>1 DEF needs
  <2>3. quotes[i] \in Identity..tick
    BY <1>3, <2>2
  <2> QED
    BY <2>1, <2>3 DEF Identity, Unavailable
<1>5. ASSUME NEW i \in recorded, NEW j \in recorded, SameRate(rate(i), rate(j)) PROVE ~(i < j)
  <2>1. needs[i].from = needs[j].from /\ needs[i].to = needs[j].to
    BY <1>5 DEF SameRate
  <2>2. needs[i] = needs[j]
    BY <1>1, <1>4, <2>1
  <2>3. SUFFICES ASSUME i < j PROVE FALSE
    OBVIOUS
  <2>4. j \in (i + 1)..Len(needs)
    BY <1>1, <1>4, <2>3
  <2>5. quotes[j] = 0 /\ quotes[j] \in 1..tick
    BY <1>4, <2>2, <2>4
  <2> QED
    BY <2>5
<1>6. \A i \in recorded : /\ rate(i).quote \in 1..tick
                         /\ rate(i) = [from |-> rate(i).from, to |-> rate(i).to, quote |-> rate(i).quote]
  BY <1>4
<1>7. \A i \in recorded : i \in Int
  BY <1>1, <1>4
<1> HIDE DEF rate, recorded
<1>8. ASSUME NEW i \in recorded, NEW j \in recorded, SameRate(rate(i), rate(j)) PROVE i = j
  <2>1. SameRate(rate(j), rate(i))
    BY <1>8 DEF SameRate
  <2>2. i \in Int /\ j \in Int
    BY <1>7
  <2> QED
    BY <1>5, <1>8, <2>1, <2>2
<1>9. \A r \in Recorded(needs, quotes) : \E i \in recorded : r = rate(i)
  BY <1>2
<1> QED
  BY <1>8, <1>9, <1>6 DEF SoundRates, needs

\* The state of one conversation becomes y.
Becomes(t, y) == thread' = [u \in Threads |-> IF u = t THEN y ELSE thread[u]]

\* What a step of a conversation leaves: a sound state with fresh quotes.
Follows(t) ==
    /\ SoundCache(cache', reported', now) /\ reported \subseteq reported'
    /\ \E y : /\ Becomes(t, y) /\ SoundThread(t, y, reported', now)
              /\ \A i \in (Len(Run(t).quotes) + 1)..Len(y.run.quotes) :
                    IsFresh(y.run.quotes[i], Needs(Trip(t), y.run.items)[i], reported, now)

Revised(x, trip, n, r) == [x EXCEPT !.trip = trip, !.runs = n, !.run = r]
Spoilt(x, r, q) == [x EXCEPT !.run = r, !.rates = q]
Settled(x, r, e, q) == [x EXCEPT !.run = r, !.evidence = e, !.rates = q]

LEMMA StateSet ==
    ASSUME NEW x, IsState(x)
    PROVE  /\ \A r, e, q : Settled(x, r, e, q)
                 = [trip |-> x.trip, evidence |-> e, rates |-> q, runs |-> x.runs, run |-> r]
           /\ \A r : [x EXCEPT !.run = r]
                 = [trip |-> x.trip, evidence |-> x.evidence, rates |-> x.rates,
                    runs |-> x.runs, run |-> r]
           /\ \A r, q : Spoilt(x, r, q)
                 = [trip |-> x.trip, evidence |-> x.evidence, rates |-> q, runs |-> x.runs,
                    run |-> r]
           /\ \A trip, n, r : Revised(x, trip, n, r)
                 = [trip |-> trip, evidence |-> x.evidence, rates |-> x.rates, runs |-> n,
                    run |-> r]
<1>1. PICK a, b, d, f, g : x = [trip |-> a, evidence |-> b, rates |-> d, runs |-> f, run |-> g]
  BY DEF IsState
<1>2. x.trip = a /\ x.evidence = b /\ x.rates = d /\ x.runs = f /\ x.run = g
  BY <1>1
<1>3. ASSUME NEW r, NEW e, NEW q
      PROVE  Settled(x, r, e, q)
                 = [trip |-> x.trip, evidence |-> e, rates |-> q, runs |-> x.runs, run |-> r]
  <2> DEFINE y == [x EXCEPT !.run = r]
             z == [y EXCEPT !.evidence = e]
  <2>1. Settled(x, r, e, q) = [z EXCEPT !.rates = q]
    BY DEF Settled
  <2>2. y = [trip |-> a, evidence |-> b, rates |-> d, runs |-> f, run |-> r]
    BY <1>1
  <2> HIDE DEF y
  <2>3. z = [trip |-> a, evidence |-> e, rates |-> d, runs |-> f, run |-> r]
    BY <2>2
  <2> HIDE DEF z
  <2>4. [z EXCEPT !.rates = q] = [trip |-> a, evidence |-> e, rates |-> q, runs |-> f, run |-> r]
    BY <2>3
  <2> QED
    BY <1>2, <2>1, <2>4
<1>4. ASSUME NEW r
      PROVE  [x EXCEPT !.run = r]
                 = [trip |-> x.trip, evidence |-> x.evidence, rates |-> x.rates,
                    runs |-> x.runs, run |-> r]
  BY <1>1, <1>2
<1>5. ASSUME NEW r, NEW q
      PROVE  Spoilt(x, r, q)
                 = [trip |-> x.trip, evidence |-> x.evidence, rates |-> q, runs |-> x.runs,
                    run |-> r]
  <2> DEFINE y == [x EXCEPT !.run = r]
  <2>1. Spoilt(x, r, q) = [y EXCEPT !.rates = q]
    BY DEF Spoilt
  <2>2. y = [trip |-> a, evidence |-> b, rates |-> d, runs |-> f, run |-> r]
    BY <1>1
  <2> HIDE DEF y
  <2>3. [y EXCEPT !.rates = q] = [trip |-> a, evidence |-> b, rates |-> q, runs |-> f, run |-> r]
    BY <2>2
  <2> QED
    BY <1>2, <2>1, <2>3
<1>6. ASSUME NEW trip, NEW n, NEW r
      PROVE  Revised(x, trip, n, r)
                 = [trip |-> trip, evidence |-> x.evidence, rates |-> x.rates, runs |-> n,
                    run |-> r]
  <2> DEFINE y == [x EXCEPT !.trip = trip]
             z == [y EXCEPT !.runs = n]
  <2>1. Revised(x, trip, n, r) = [z EXCEPT !.run = r]
    BY DEF Revised
  <2>2. y = [trip |-> trip, evidence |-> b, rates |-> d, runs |-> f, run |-> g]
    BY <1>1
  <2> HIDE DEF y
  <2>3. z = [trip |-> trip, evidence |-> b, rates |-> d, runs |-> n, run |-> g]
    BY <2>2
  <2> HIDE DEF z
  <2>4. [z EXCEPT !.run = r] = [trip |-> trip, evidence |-> b, rates |-> d, runs |-> n, run |-> r]
    BY <2>3
  <2> QED
    BY <1>2, <2>1, <2>4
<1> QED
  BY <1>3, <1>4, <1>5, <1>6

LEMMA ThreadIs ==
    ASSUME BudgetInv, NEW t \in Threads
    PROVE  /\ SoundThread(t, thread[t], reported, now)
           /\ thread = [u \in Threads |-> thread[u]]
           /\ IsState(thread[t])
           /\ thread[t].trip \in Trips[t] /\ AreItems(thread[t].evidence)
           /\ SoundRates(thread[t].rates, reported, now)
           /\ SoundRun(thread[t].trip, Run(t), now)
           /\ now \in Nat \ {0} /\ SoundCache(cache, reported, now)
  BY DEF BudgetInv, SoundThread, Run, IsState

LEMMA Continues ==
    ASSUME BudgetInv, NEW t \in Threads, NEW items, AreItems(items), Distinct(items),
           CurrentIn(Trip(t), items), NEW quotes \in Seq(Identity..now),
           NEW c, SoundCache(c, reported, now), Continue(t, items, quotes, c)
    PROVE  /\ SoundCache(cache', reported', now) /\ reported \subseteq reported'
           /\ \E y : /\ Becomes(t, y) /\ SoundThread(t, y, reported', now)
                     /\ y.run.items = items
                     /\ Extends(y.run.quotes, quotes, Needs(Trip(t), items), reported, now)
<1> DEFINE Ends(needs, open, end, all) ==
             IF open = {}
             THEN /\ thread' = [thread EXCEPT
                        ![t].run = [phase |-> "done", items |-> items, quotes |-> all, tries |-> 0],
                        ![t].evidence = items, ![t].rates = Recorded(needs, all)]
                  /\ reported' = reported \cup Recorded(needs, all)
                  /\ cache' = c
             ELSE /\ thread' = [thread EXCEPT
                        ![t].run = [phase |-> "asking", items |-> items, quotes |-> all, tries |-> 0]]
                  /\ cache' = c \ Entry(c, needs[end + 1])
                  /\ UNCHANGED reported
<1>1. PICK needs \in {Needs(Trip(t), items)} :
      \E open \in {{k \in (Len(quotes) + 1)..Len(needs) : ~IsKnown(c, needs[k])}} :
      \E end \in {IF open = {} THEN Len(needs) ELSE Min(open) - 1} :
      \E all \in {Answers(c, quotes, needs, end)} : Ends(needs, open, end, all)
  BY DEF Continue, Answers
<1>2. PICK open \in {{k \in (Len(quotes) + 1)..Len(needs) : ~IsKnown(c, needs[k])}} :
      \E end \in {IF open = {} THEN Len(needs) ELSE Min(open) - 1} :
      \E all \in {Answers(c, quotes, needs, end)} : Ends(needs, open, end, all)
  BY <1>1, Zenon
<1>3. PICK end \in {IF open = {} THEN Len(needs) ELSE Min(open) - 1} :
      \E all \in {Answers(c, quotes, needs, end)} : Ends(needs, open, end, all)
  BY <1>2, Zenon
<1>4. PICK all \in {Answers(c, quotes, needs, end)} : Ends(needs, open, end, all)
  BY <1>3, Zenon
<1>5. /\ needs = Needs(Trip(t), items) /\ IsList(needs) /\ Len(needs) \in Nat
      /\ Len(quotes) \in Nat /\ now \in Nat \ {0}
  <2>1. needs = Needs(Trip(t), items)
    OBVIOUS
  <2>2. IsList(needs)
    BY <2>1, NeedsAre
  <2> QED
    BY <2>1, <2>2, ListIs, ThreadIs, InSeq
<1>6. /\ end \in Int /\ (open = {} => end = Len(needs))
      /\ \A k \in (Len(quotes) + 1)..end : IsKnown(c, needs[k])
  <2>1. CASE open = {}
    <3>1. end = Len(needs)
      BY <2>1
    <3>2. \A k \in (Len(quotes) + 1)..Len(needs) : IsKnown(c, needs[k])
      BY <2>1
    <3> QED
      BY <1>5, <3>1, <3>2, <2>1
  <2>2. CASE open # {}
    <3>1. end = Min(open) - 1
      BY <2>2
    <3>2. open \subseteq Nat
      BY <1>5
    <3>3. Min(open) \in open /\ \A k \in open : Min(open) <= k
      BY <2>2, <3>2, MinIsLeast
    <3>4. Min(open) \in (Len(quotes) + 1)..Len(needs)
      BY <3>3
    <3>5. ASSUME NEW k \in (Len(quotes) + 1)..end PROVE IsKnown(c, needs[k])
      <4>1. k \in (Len(quotes) + 1)..Len(needs) /\ k < Min(open)
        BY <1>5, <3>1, <3>4
      <4>2. k \notin open
        BY <1>5, <3>3, <3>4, <4>1
      <4> QED
        BY <4>1, <4>2
    <3> QED
      BY <1>5, <2>2, <3>1, <3>4, <3>5
  <2> QED
    BY <2>1, <2>2
<1>7. all = Answers(c, quotes, needs, end)
  OBVIOUS
<1>8. Extends(all, quotes, needs, reported, now) /\ end <= Len(all)
  BY <1>5, <1>6, <1>7, QuotesExtend
<1>9. all \in Seq(Identity..now)
  BY <1>8 DEF Extends
<1>10. 0 \in 0..(Attempts - 1)
  BY BudgetAssumption
<1> DEFINE x == thread[t]
           run(p) == [phase |-> p, items |-> items, quotes |-> all, tries |-> 0]
<1>11. \A p \in {"done", "asking"} : SoundRun(x.trip, run(p), now)
  BY <1>9, <1>10 DEF SoundRun, Phases, Trip
<1>12. CASE open = {}
  <2> DEFINE rates == Recorded(needs, all)
             y == [trip |-> x.trip, evidence |-> items, rates |-> rates, runs |-> x.runs,
                   run |-> run("done")]
  <2>1. reported' = reported \cup rates /\ cache' = c
    BY <1>4, <1>12
  <2>2. Becomes(t, y)
    <3>1. thread' = [thread EXCEPT ![t].run = run("done"), ![t].evidence = items, ![t].rates = rates]
      BY <1>4, <1>12
    <3> HIDE DEF run, rates
    <3> DEFINE r == run("done")
    <3> HIDE DEF r
    <3>2. Settled(x, r, items, rates)
            = [trip |-> x.trip, evidence |-> items, rates |-> rates, runs |-> x.runs, run |-> r]
      <4>1. IsState(x)
        BY ThreadIs
      <4> HIDE DEF x
      <4> QED
        BY <4>1, StateSet
    <3>3. thread' = [thread EXCEPT ![t] = [x EXCEPT !.run = r, !.evidence = items, !.rates = rates]]
      BY <3>1 DEF r
    <3> QED
      BY <3>2, <3>3, ThreadIs DEF Becomes, Settled, r
  <2>3. SoundRates(rates, reported', now)
    <3>1. Len(needs) <= Len(all)
      BY <1>6, <1>8, <1>12
    <3>2. rates \subseteq reported'
      BY <2>1
    <3> QED
      BY <1>5, <1>9, <3>1, <3>2, RecordedSound
  <2>4. SoundCache(cache', reported', now) /\ reported \subseteq reported'
    <3>1. reported \subseteq reported'
      BY <2>1
    <3> QED
      BY <2>1, <3>1, SeenGrows
  <2>5. SoundThread(t, y, reported', now)
    <3> HIDE DEF rates
    <3> QED
      BY <1>11, <2>3, ThreadIs DEF SoundThread, IsState
  <2>6. y.run.items = items /\ y.run.quotes = all
    OBVIOUS
  <2> HIDE DEF y
  <2> QED
    BY <1>5, <1>8, <2>2, <2>4, <2>5, <2>6
<1>13. CASE open # {}
  <2> DEFINE y == [trip |-> x.trip, evidence |-> x.evidence, rates |-> x.rates, runs |-> x.runs,
                   run |-> run("asking")]
  <2>1. reported' = reported /\ cache' = c \ Entry(c, needs[end + 1])
    BY <1>4, <1>13
  <2>2. Becomes(t, y)
    <3>1. thread' = [thread EXCEPT ![t].run = run("asking")]
      BY <1>4, <1>13
    <3> HIDE DEF run
    <3> DEFINE r == run("asking")
    <3> HIDE DEF r
    <3>2. [x EXCEPT !.run = r]
            = [trip |-> x.trip, evidence |-> x.evidence, rates |-> x.rates, runs |-> x.runs, run |-> r]
      BY ThreadIs, StateSet
    <3>3. thread' = [thread EXCEPT ![t] = [x EXCEPT !.run = r]]
      BY <3>1 DEF r
    <3> QED
      BY <3>2, <3>3, ThreadIs DEF Becomes, r
  <2>3. SoundCache(cache', reported', now)
    <3>1. cache' \subseteq c
      BY <2>1
    <3> QED
      BY <2>1, <3>1, CacheShrinks
  <2>4. SoundThread(t, y, reported', now)
    BY <1>11, <2>1, ThreadIs DEF SoundThread, IsState
  <2>5. y.run.items = items /\ y.run.quotes = all
    OBVIOUS
  <2> HIDE DEF y
  <2> QED
    BY <1>5, <1>8, <2>1, <2>2, <2>3, <2>4, <2>5
<1> QED
  BY <1>12, <1>13

LEMMA NoQuotes == \A T : <<>> \in Seq(T)
  OBVIOUS

\* A run that is not under way is sound.
Rests(p) == [phase |-> p, items |-> <<>>, quotes |-> <<>>, tries |-> 0]

LEMMA RestIsSound ==
    ASSUME NEW p \in {"idle", "due", "extracting", "broken"}, NEW trip, NEW tick
    PROVE  SoundRun(trip, Rests(p), tick)
<1>1. 0 \in 0..(Attempts - 1)
  BY BudgetAssumption
<1>2. AreItems(<<>>)
  <2>1. \A i \in 1..0 : FALSE
    OBVIOUS
  <2> QED
    BY <2>1, EmptyList DEF AreItems
<1> QED
  BY <1>1, <1>2, NoQuotes DEF SoundRun, Rests, Phases

LEMMA IdleRests == Idle = Rests("idle") /\ \A p : [Idle EXCEPT !.phase = p] = Rests(p)
  BY DEF Idle, Rests

LEMMA ItemsJoin ==
    ASSUME NEW a, NEW b, AreItems(a), AreItems(b)
    PROVE  AreItems(a \o b)
<1>1. /\ IsList(a \o b)
      /\ \A i \in 1..Len(a) : (a \o b)[i] = a[i]
      /\ \A i \in 1..Len(a \o b) :
            i \in 1..Len(a) \/ (i - Len(a) \in 1..Len(b) /\ (a \o b)[i] = b[i - Len(a)])
  BY ListJoin DEF AreItems
<1> QED
  BY <1>1 DEF AreItems

LEMMA ComputeFollows ==
    ASSUME BudgetInv, NEW t \in Threads, NEW legacy, AreItems(legacy), Compute(t, legacy)
    PROVE  Follows(t)
<1> DEFINE x == thread[t]
<1>1. PICK items \in {Assembled(x.trip, x.evidence \o legacy)} :
      \E c \in {RememberAll(cache, x.rates)} : Continue(t, items, <<>>, c)
  BY DEF Compute
<1>2. PICK c \in {RememberAll(cache, x.rates)} : Continue(t, items, <<>>, c)
  BY <1>1
<1>3. AreItems(x.evidence \o legacy)
  BY ThreadIs, ItemsJoin
<1>4. AreItems(items) /\ Distinct(items) /\ CurrentIn(Trip(t), items)
  <2>1. items = Assembled(x.trip, x.evidence \o legacy) /\ x.trip \in Trips[t]
    BY ThreadIs
  <2> QED
    BY <1>3, <2>1, Assembles DEF Trip
<1>5. SoundCache(c, reported, now)
  <2>1. c = RememberAll(cache, x.rates)
    OBVIOUS
  <2> QED
    BY <2>1, ThreadIs, RatesReturn
<1>6. PICK y : /\ SoundCache(cache', reported', now) /\ reported \subseteq reported'
               /\ Becomes(t, y) /\ SoundThread(t, y, reported', now)
               /\ y.run.items = items
               /\ Extends(y.run.quotes, <<>>, Needs(Trip(t), items), reported, now)
  <2>1. <<>> \in Seq(Identity..now)
    BY NoQuotes
  <2> QED
    BY <1>2, <1>4, <1>5, <2>1, Continues
<1>7. Len(Run(t).quotes) \in Nat
  BY ThreadIs, InSeq DEF SoundRun
<1>8. \A i \in (Len(Run(t).quotes) + 1)..Len(y.run.quotes) : i \in (Len(<<>>) + 1)..Len(y.run.quotes)
  BY <1>7, EmptyList
<1>9. \A i \in (Len(Run(t).quotes) + 1)..Len(y.run.quotes) :
         IsFresh(y.run.quotes[i], Needs(Trip(t), y.run.items)[i], reported, now)
  BY <1>6, <1>8 DEF Extends
<1> QED
  BY <1>6, <1>9 DEF Follows

\* An answer, or that there is none, is one more quote.
LEMMA AskedFollows ==
    ASSUME BudgetInv, NEW t \in Threads, Run(t).phase = "asking",
           NEW q \in Identity..now, q <= 0 \/ q = now,
           NEW c, SoundCache(c, reported, now),
           Continue(t, Run(t).items, Append(Run(t).quotes, q), c)
    PROVE  Follows(t)
<1> DEFINE old == Run(t).quotes
           items == Run(t).items
           quotes == Append(old, q)
           T == Identity..now
<1>1. old \in Seq(T)
  BY ThreadIs DEF SoundRun
<1>2. AreItems(items) /\ Distinct(items) /\ CurrentIn(Trip(t), items)
  BY ThreadIs DEF SoundRun, Trip
<1> HIDE DEF old, items, T
<1>3. q \in T
  BY DEF T
<1>4. quotes \in Seq(T) /\ Len(quotes) = Len(old) + 1 /\ quotes[Len(old) + 1] = q /\ Len(old) \in Nat
  BY <1>1, <1>3
<1> HIDE DEF quotes
<1>5. Continue(t, items, quotes, c)
  BY DEF items, quotes, old
<1>6. PICK y : /\ SoundCache(cache', reported', now) /\ reported \subseteq reported'
               /\ Becomes(t, y) /\ SoundThread(t, y, reported', now)
               /\ y.run.items = items
               /\ Extends(y.run.quotes, quotes, Needs(Trip(t), items), reported, now)
  BY <1>2, <1>4, <1>5, Continues DEF T
<1>7. ASSUME NEW i \in (Len(old) + 1)..Len(y.run.quotes)
      PROVE  IsFresh(y.run.quotes[i], Needs(Trip(t), items)[i], reported, now)
  <2>1. CASE i = Len(old) + 1
    <3>1. i \in 1..Len(quotes)
      BY <1>4, <2>1
    <3>2. y.run.quotes[i] = q
      BY <1>4, <1>6, <2>1, <3>1 DEF Extends
    <3>3. now \in Nat /\ TTL \in Nat
      BY BudgetAssumption, ThreadIs
    <3>4. q <= 0 \/ now - q <= TTL
      BY <3>3
    <3> QED
      BY <3>2, <3>4 DEF IsFresh
  <2>2. CASE i # Len(old) + 1
    <3>1. i \in (Len(quotes) + 1)..Len(y.run.quotes)
      BY <1>4, <2>2
    <3> QED
      BY <1>6, <3>1 DEF Extends
  <2> QED
    BY <2>1, <2>2
<1> QED
  BY <1>6, <1>7 DEF Follows, old

\* A step that takes no quote.
LEMMA QuietFollows ==
    ASSUME BudgetInv, NEW t \in Threads, NEW y, Becomes(t, y), UNCHANGED <<cache, reported>>,
           SoundThread(t, y, reported, now), Len(y.run.quotes) <= Len(Run(t).quotes)
    PROVE  Follows(t)
<1>1. Len(Run(t).quotes) \in Nat /\ Len(y.run.quotes) \in Nat
  BY ThreadIs, InSeq DEF SoundRun, SoundThread
<1>2. \A i \in (Len(Run(t).quotes) + 1)..Len(y.run.quotes) : FALSE
  BY <1>1
<1> QED
  BY <1>2, ThreadIs DEF Follows

LEMMA ReviseFollows ==
    ASSUME BudgetInv, NEW t \in Threads, Revise(t)
    PROVE  Follows(t)
<1> DEFINE x == thread[t]
           run == Rests("due")
<1>1. PICK trip \in Trips[t] :
      thread' = [thread EXCEPT ![t].trip = trip, ![t].runs = @ + 1,
                               ![t].run = [Idle EXCEPT !.phase = "due"]]
  BY DEF Revise
<1> DEFINE y == [trip |-> trip, evidence |-> x.evidence, rates |-> x.rates, runs |-> x.runs + 1,
                 run |-> run]
<1>2. thread' = [thread EXCEPT ![t] = Revised(x, trip, x.runs + 1, run)]
  BY <1>1, IdleRests DEF Revised
<1>3. Becomes(t, y)
  <2>1. Revised(x, trip, x.runs + 1, run) = y
    <3>1. IsState(x)
      BY ThreadIs
    <3> HIDE DEF x, run
    <3> QED
      BY <3>1, StateSet
  <2> HIDE DEF y
  <2> QED
    BY <1>2, <2>1, ThreadIs DEF Becomes
<1>4. SoundThread(t, y, reported, now)
  <2>1. SoundRun(trip, run, now)
    BY RestIsSound
  <2> HIDE DEF run
  <2> QED
    BY <2>1, ThreadIs DEF SoundThread, IsState
<1>5. Len(y.run.quotes) <= Len(Run(t).quotes)
  <2>1. Len(Run(t).quotes) \in Nat
    BY ThreadIs, InSeq DEF SoundRun
  <2>2. y.run.quotes = <<>>
    BY DEF Rests
  <2> QED
    BY <2>1, <2>2, EmptyList
<1> QED
  BY <1>3, <1>4, <1>5, QuietFollows DEF Revise

\* What is read in the messages is a flight or a hotel, at the price they state.
LEMMA FactsAre ==
    ASSUME BudgetInv, NEW t \in Threads, NEW facts, facts \subseteq LegacyFacts(t),
           NEW legacy \in SetToSeqs(facts)
    PROVE  AreItems(legacy)
<1> DEFINE texts == Trip(t).texts
           chosen == {f \in texts : <<f.part, f.id>> \in Unpriced(t)}
           fact(f) == Item(f.part, f.id, IF f.part = "hotels" THEN "accommodation" ELSE "flights",
                           f.money, "total")
<1>1. LegacyFacts(t) = {fact(f) : f \in chosen}
  BY DEF LegacyFacts
<1>2. IsFiniteSet(texts)
  BY ThreadIs, BudgetAssumption DEF Trip, IsTrip
<1>3. IsFiniteSet(chosen)
  <2>1. chosen \in SUBSET texts
    OBVIOUS
  <2> HIDE DEF chosen, texts
  <2> QED
    BY <1>2, <2>1, FS_Subset
<1>4. \A f : IsItem(fact(f))
  BY DEF Item, IsItem, Categories
<1> HIDE DEF chosen
<1>5. IsFiniteSet({fact(f) : f \in chosen})
  <2> DEFINE g == [f \in chosen |-> fact(f)]
             image == {fact(f) : f \in chosen}
  <2>1. g \in Surjection(chosen, image)
    BY DEF Surjection
  <2> HIDE DEF g, image
  <2>2. IsFiniteSet(image)
    BY <1>3, <2>1, FS_Surjection
  <2> QED
    BY <2>2 DEF image
<1>6. \A g \in LegacyFacts(t) : IsItem(g)
  BY <1>1, <1>4
<1>7. IsFiniteSet(facts)
  <2>1. facts \in SUBSET LegacyFacts(t)
    OBVIOUS
  <2>2. IsFiniteSet(LegacyFacts(t))
    BY <1>1, <1>5
  <2> QED
    BY <2>1, <2>2, FS_Subset
<1> DEFINE n == Cardinality(facts)
<1>8. n \in Nat
  BY <1>7, FS_CardinalityType
<1>9. legacy \in [1..n -> facts]
  BY DEF SetToSeqs
<1> HIDE DEF n
<1>10. legacy = [i \in 1..n |-> legacy[i]]
  BY <1>9
<1>11. IsList(legacy) /\ Len(legacy) = n
  BY <1>8, <1>10, ListMade
<1> QED
  BY <1>6, <1>9, <1>11 DEF AreItems

LEMMA StartFollows ==
    ASSUME BudgetInv, NEW t \in Threads, Start(t)
    PROVE  Follows(t)
<1>1. CASE LegacyFacts(t) = {}
  <2>1. Compute(t, <<>>)
    BY <1>1 DEF Start
  <2>2. AreItems(<<>>)
    <3>1. \A i \in 1..0 : FALSE
      OBVIOUS
    <3> QED
      BY <3>1, EmptyList DEF AreItems
  <2> QED
    BY <2>1, <2>2, ComputeFollows
<1>2. CASE LegacyFacts(t) # {}
  <2> DEFINE x == thread[t]
             run == [Run(t) EXCEPT !.phase = "extracting"]
             y == [trip |-> x.trip, evidence |-> x.evidence, rates |-> x.rates, runs |-> x.runs,
                   run |-> run]
  <2>1. thread' = [thread EXCEPT ![t].run.phase = "extracting"] /\ UNCHANGED <<cache, reported>>
    BY <1>2 DEF Start
  <2>2. thread' = [thread EXCEPT ![t] = [x EXCEPT !.run = run]]
    BY <2>1 DEF Run
  <2>3. run = [phase |-> "extracting", items |-> Run(t).items, quotes |-> Run(t).quotes,
               tries |-> Run(t).tries]
    BY ThreadIs DEF SoundRun
  <2> HIDE DEF run
  <2>4. SoundRun(x.trip, run, now)
    BY <2>3, ThreadIs DEF SoundRun, Phases
  <2>5. [x EXCEPT !.run = run] = y
    <3>1. IsState(x)
      BY ThreadIs
    <3> HIDE DEF x
    <3> QED
      BY <3>1, StateSet
  <2>6. SoundThread(t, y, reported, now)
    BY <2>4, ThreadIs DEF SoundThread, IsState
  <2>7. y.run.quotes = Run(t).quotes
    BY <2>3
  <2> HIDE DEF y
  <2>8. Becomes(t, y)
    BY <2>2, <2>5, ThreadIs DEF Becomes
  <2>9. Len(y.run.quotes) <= Len(Run(t).quotes)
    BY <2>7, ThreadIs, InSeq DEF SoundRun
  <2> QED
    BY <2>1, <2>6, <2>8, <2>9, QuietFollows
<1> QED
  BY <1>1, <1>2

LEMMA LostFollows ==
    ASSUME BudgetInv, NEW t \in Threads, Lost(t)
    PROVE  Follows(t)
<1> DEFINE x == thread[t]
           n == Run(t).tries + 1
           run == [Run(t) EXCEPT !.tries = n]
           y == [trip |-> x.trip, evidence |-> x.evidence, rates |-> x.rates, runs |-> x.runs,
                 run |-> run]
<1>1. thread' = [thread EXCEPT ![t].run.tries = @ + 1] /\ UNCHANGED <<cache, reported>>
  BY DEF Lost
<1>2. thread' = [thread EXCEPT ![t] = [x EXCEPT !.run = run]]
  BY <1>1 DEF Run
<1>3. run = [phase |-> Run(t).phase, items |-> Run(t).items, quotes |-> Run(t).quotes, tries |-> n]
  BY ThreadIs DEF SoundRun
<1>4. n \in 0..(Attempts - 1)
  BY ThreadIs, BudgetAssumption DEF SoundRun, Lost
<1> HIDE DEF run, n
<1>5. SoundRun(x.trip, run, now)
  BY <1>3, <1>4, ThreadIs DEF SoundRun
<1>6. [x EXCEPT !.run = run] = y
  <2>1. IsState(x)
    BY ThreadIs
  <2> HIDE DEF x
  <2> QED
    BY <2>1, StateSet
<1>7. SoundThread(t, y, reported, now)
  BY <1>5, ThreadIs DEF SoundThread, IsState
<1>8. y.run.quotes = Run(t).quotes
  BY <1>3
<1> HIDE DEF y
<1>9. Becomes(t, y)
  BY <1>2, <1>6, ThreadIs DEF Becomes
<1>10. Len(y.run.quotes) <= Len(Run(t).quotes)
  BY <1>8, ThreadIs, InSeq DEF SoundRun
<1> QED
  BY <1>1, <1>7, <1>9, <1>10, QuietFollows

LEMMA MalformedFollows ==
    ASSUME BudgetInv, NEW t \in Threads, Malformed(t)
    PROVE  Follows(t)
<1> DEFINE x == thread[t]
           run == Rests("broken")
           y == [trip |-> x.trip, evidence |-> x.evidence, rates |-> {}, runs |-> x.runs,
                 run |-> run]
<1>1. /\ thread' = [thread EXCEPT ![t].run = [Idle EXCEPT !.phase = "broken"], ![t].rates = {}]
      /\ UNCHANGED <<cache, reported>>
  BY DEF Malformed
<1>2. thread' = [thread EXCEPT ![t] = Spoilt(x, run, {})]
  BY <1>1, IdleRests DEF Spoilt
<1>3. Becomes(t, y)
  <2>1. Spoilt(x, run, {}) = y
    <3>1. IsState(x)
      BY ThreadIs
    <3> HIDE DEF x, run
    <3> QED
      BY <3>1, StateSet
  <2> HIDE DEF y
  <2> QED
    BY <1>2, <2>1, ThreadIs DEF Becomes
<1>4. SoundThread(t, y, reported, now)
  <2>1. SoundRun(x.trip, run, now) /\ SoundRates({}, reported, now)
    BY RestIsSound DEF SoundRates
  <2> HIDE DEF run
  <2> QED
    BY <2>1, ThreadIs DEF SoundThread, IsState
<1>5. Len(y.run.quotes) <= Len(Run(t).quotes)
  <2>1. Len(Run(t).quotes) \in Nat
    BY ThreadIs, InSeq DEF SoundRun
  <2>2. y.run.quotes = <<>>
    BY DEF Rests
  <2> QED
    BY <2>1, <2>2, EmptyList
<1> HIDE DEF y
<1> QED
  BY <1>1, <1>3, <1>4, <1>5, QuietFollows

\* Every step of a conversation.
LEMMA StepFollows ==
    ASSUME BudgetInv, NEW t \in Threads, Revise(t) \/ Step(t)
    PROVE  Follows(t)
<1>1. CASE Revise(t)
  BY <1>1, ReviseFollows
<1>2. CASE Lost(t)
  BY <1>2, LostFollows
<1>3. CASE Malformed(t)
  BY <1>3, MalformedFollows
<1>4. CASE Start(t)
  BY <1>4, StartFollows
<1>5. CASE Extract(t)
  <2>1. PICK facts \in SUBSET LegacyFacts(t) : \E legacy \in SetToSeqs(facts) : Compute(t, legacy)
    BY <1>5 DEF Extract
  <2>2. PICK legacy \in SetToSeqs(facts) : Compute(t, legacy)
    BY <2>1
  <2>3. AreItems(legacy)
    BY FactsAre
  <2> QED
    BY <2>2, <2>3, ComputeFollows
<1>6. CASE Answered(t)
  <2>1. PICK c \in {Remember(cache, Asked(t), now)} :
        Continue(t, Run(t).items, Append(Run(t).quotes, now), c)
    BY <1>6 DEF Answered
  <2>2. SoundCache(c, reported, now)
    <3>1. c = Remember(cache, Asked(t), now)
      OBVIOUS
    <3> QED
      BY <3>1, ThreadIs, RateIsNew
  <2>3. now \in Identity..now
    BY ThreadIs DEF Identity
  <2>4. Run(t).phase = "asking"
    BY <1>6 DEF Answered
  <2> QED
    BY <2>1, <2>2, <2>3, <2>4, AskedFollows
<1>7. CASE NoRate(t)
  <2>1. /\ Run(t).phase = "asking"
        /\ Continue(t, Run(t).items, Append(Run(t).quotes, Unavailable), cache)
    BY <1>7 DEF NoRate
  <2>2. Unavailable \in Identity..now /\ Unavailable <= 0
    BY ThreadIs DEF Identity, Unavailable
  <2>3. SoundCache(cache, reported, now)
    BY ThreadIs
  <2> QED
    BY <2>1, <2>2, <2>3, AskedFollows
<1> QED
  BY <1>1, <1>2, <1>3, <1>4, <1>5, <1>6, <1>7 DEF Step

\* Time passes for the entries and for what is quoted.
LEMMA TickGrows ==
    ASSUME NEW tick \in Nat \ {0}, NEW seen, NEW t, NEW x, SoundThread(t, x, seen, tick)
    PROVE  SoundThread(t, x, seen, tick + 1)
<1>1. SoundRates(x.rates, seen, tick + 1)
  <2>1. \A q \in 1..tick : q \in 1..(tick + 1)
    OBVIOUS
  <2> QED
    BY <2>1 DEF SoundThread, SoundRates
<1>2. SoundRun(x.trip, x.run, tick + 1)
  <2> DEFINE quotes == x.run.quotes
             T == Identity..tick
             U == Identity..(tick + 1)
  <2>1. \A q \in T : q \in U
    BY DEF Identity
  <2>2. quotes \in Seq(T)
    BY DEF SoundThread, SoundRun
  <2> HIDE DEF T, U
  <2>3. Len(quotes) \in Nat /\ quotes \in [1..Len(quotes) -> U]
    BY <2>1, <2>2
  <2>4. quotes \in Seq(U)
    BY <2>3
  <2> QED
    BY <2>4 DEF SoundThread, SoundRun, U
<1> QED
  BY <1>1, <1>2 DEF SoundThread

LEMMA BudgetInitInv == BudgetInit => BudgetInv
<1> SUFFICES ASSUME BudgetInit PROVE BudgetInv
  OBVIOUS
<1>1. now \in 1..MaxNow /\ restarts \in 0..MaxRestarts
  <2>1. Len(Rate) \in Nat /\ Len(Rate) # 0
    BY BudgetAssumption, NotEmpty
  <2> QED
    BY <2>1, BudgetAssumption DEF BudgetInit, MaxNow
<1>2. SoundCache(cache, reported, now)
  BY DEF BudgetInit, SoundCache
<1>3. ASSUME NEW t \in Threads PROVE SoundThread(t, thread[t], reported, now)
  <2> DEFINE first == CHOOSE trip \in Trips[t] : TRUE
             idle == Rests("idle")
  <2>1. first \in Trips[t]
    BY BudgetAssumption
  <2>2. thread[t] = [trip |-> first, evidence |-> <<>>, rates |-> {}, runs |-> 0, run |-> idle]
    BY IdleRests DEF BudgetInit
  <2>3. SoundRun(first, idle, now)
    BY RestIsSound
  <2>4. AreItems(<<>>)
    <3>1. \A i \in 1..0 : FALSE
      OBVIOUS
    <3> QED
      BY <3>1, EmptyList DEF AreItems
  <2>5. SoundRates({}, reported, now)
    BY DEF SoundRates
  <2> HIDE DEF first, idle
  <2> QED
    BY <2>1, <2>2, <2>3, <2>4, <2>5 DEF SoundThread, IsState
<1>4. thread = [t \in Threads |-> thread[t]]
  BY DEF BudgetInit
<1> QED
  BY <1>1, <1>2, <1>3, <1>4 DEF BudgetInv

\* A rate that is taken is fresh.
TakesFreshRates ==
    \A t \in Threads :
      LET new == Run(t)'.quotes IN
        \A i \in (Len(Run(t).quotes) + 1)..Len(new) :
          new[i] <= 0 \/ now - new[i] <= TTL
          \/ LET pair == Needs(Trip(t), Run(t)'.items)[i] IN
               [from |-> pair.from, to |-> pair.to, quote |-> new[i]] \in reported

LEMMA NothingTaken ==
    ASSUME BudgetInv, NEW t \in Threads, Len(Run(t)'.quotes) \in Nat,
           Len(Run(t)'.quotes) <= Len(Run(t).quotes)
    PROVE  \A i \in (Len(Run(t).quotes) + 1)..Len(Run(t)'.quotes) : FALSE
<1>1. Len(Run(t).quotes) \in Nat
  BY ThreadIs, InSeq DEF SoundRun
<1> QED
  BY <1>1

LEMMA BudgetInductive ==
    BudgetInv /\ [BudgetNext]_budgetVars => BudgetInv' /\ TakesFreshRates
<1> SUFFICES ASSUME BudgetInv, [BudgetNext]_budgetVars PROVE BudgetInv' /\ TakesFreshRates
  OBVIOUS
<1>1. now \in Nat \ {0} /\ SoundCache(cache, reported, now) /\ MaxNow \in Nat
      /\ thread = [t \in Threads |-> thread[t]]
  <2>1. Len(Rate) \in Nat
    BY BudgetAssumption
  <2> QED
    BY <2>1 DEF BudgetInv, MaxNow
<1>2. ASSUME thread' = thread PROVE TakesFreshRates
  <2>1. \A t \in Threads : Run(t)' = Run(t)
    BY <1>2 DEF Run
  <2>2. \A t \in Threads : Len(Run(t).quotes) \in Nat
    BY ThreadIs, InSeq DEF SoundRun
  <2>3. \A t \in Threads :
           \A i \in (Len(Run(t).quotes) + 1)..Len(Run(t)'.quotes) : FALSE
    BY <2>1, <2>2
  <2> QED
    BY <2>3 DEF TakesFreshRates
<1>3. CASE Tick
  <2>1. /\ now < MaxNow /\ now' = now + 1 /\ cache' = {[e EXCEPT !.age = @ + 1] : e \in cache}
        /\ reported' = reported /\ restarts' = restarts /\ thread' = thread
    BY <1>3 DEF Tick
  <2>2. SoundCache(cache', reported', now')
    <3> DEFINE older == {[e EXCEPT !.age = @ + 1] : e \in cache}
    <3>1. SoundCache(older, reported, now + 1)
      BY <1>1, RatesAge
    <3>2. cache' = older
      BY <2>1
    <3> HIDE DEF older
    <3> QED
      BY <2>1, <3>1, <3>2
  <2>3. \A t \in Threads : SoundThread(t, thread'[t], reported', now')
    BY <1>1, <2>1, TickGrows, ThreadIs
  <2>4. now' \in 1..MaxNow /\ restarts' \in 0..MaxRestarts
    BY <1>1, <2>1 DEF BudgetInv
  <2>5. MaxNow' = MaxNow
    BY DEF MaxNow
  <2> QED
    BY <1>1, <1>2, <2>1, <2>2, <2>3, <2>4, <2>5 DEF BudgetInv
<1>4. CASE Restart
  <2>1. /\ restarts < MaxRestarts /\ restarts' = restarts + 1 /\ cache' = {}
        /\ now' = now /\ reported' = reported
        /\ thread' = [t \in Threads |->
                        IF Run(t).phase \in {"extracting", "asking"}
                        THEN [thread[t] EXCEPT !.run = Rests("due")]
                        ELSE thread[t]]
    BY <1>4, IdleRests DEF Restart
  <2>2. ASSUME NEW t \in Threads
        PROVE  /\ SoundThread(t, thread'[t], reported', now')
               /\ Len(thread'[t].run.quotes) \in Nat
               /\ Len(thread'[t].run.quotes) <= Len(Run(t).quotes)
    <3> DEFINE x == thread[t]
               run == Rests("due")
               y == [x EXCEPT !.run = run]
    <3>1. IsState(x) /\ Len(Run(t).quotes) \in Nat
      BY ThreadIs, InSeq DEF SoundRun
    <3>2. CASE Run(t).phase \in {"extracting", "asking"}
      <4>1. thread'[t] = y
        BY <2>1, <3>2
      <4>2. y = [trip |-> x.trip, evidence |-> x.evidence, rates |-> x.rates, runs |-> x.runs,
                 run |-> run]
        <5> HIDE DEF x, run
        <5> QED
          BY <3>1, StateSet
      <4>3. SoundRun(x.trip, run, now) /\ run.quotes = <<>>
        BY RestIsSound DEF Rests
      <4> HIDE DEF run, y
      <4>4. SoundThread(t, y, reported, now)
        BY <4>2, <4>3, ThreadIs DEF SoundThread, IsState
      <4>5. y.run.quotes = <<>>
        BY <4>2, <4>3
      <4>6. SoundThread(t, thread'[t], reported', now')
        BY <2>1, <4>1, <4>4
      <4>7. thread'[t].run.quotes = <<>>
        BY <4>1, <4>5
      <4> QED
        BY <3>1, <4>6, <4>7, EmptyList
    <3>3. CASE Run(t).phase \notin {"extracting", "asking"}
      <4>1. thread'[t] = x
        BY <2>1, <3>3
      <4>2. SoundThread(t, thread'[t], reported', now')
        BY <2>1, <4>1, ThreadIs
      <4>3. thread'[t].run.quotes = Run(t).quotes
        BY <4>1 DEF Run
      <4> QED
        BY <3>1, <4>2, <4>3
    <3> QED
      BY <3>2, <3>3
  <2>3. SoundCache(cache', reported', now')
    BY <2>1 DEF SoundCache
  <2>4. TakesFreshRates
    <3>1. \A t \in Threads :
             \A i \in (Len(Run(t).quotes) + 1)..Len(Run(t)'.quotes) : FALSE
      BY <2>2, NothingTaken DEF Run
    <3> QED
      BY <3>1 DEF TakesFreshRates
  <2>5. thread' = [t \in Threads |-> thread'[t]]
    BY <2>1
  <2>6. now' \in 1..MaxNow /\ restarts' \in 0..MaxRestarts
    BY <2>1, BudgetAssumption DEF BudgetInv
  <2>7. MaxNow' = MaxNow
    BY DEF MaxNow
  <2> QED
    BY <2>2, <2>3, <2>4, <2>5, <2>6, <2>7 DEF BudgetInv
<1>5. ASSUME NEW t \in Threads, Revise(t) \/ Step(t) PROVE BudgetInv' /\ TakesFreshRates
  <2>1. now' = now /\ restarts' = restarts
    BY <1>5 DEF Revise, Step, Lost, Malformed, Start, Extract, Answered, NoRate
  <2>2. Follows(t)
    BY <1>5, StepFollows
  <2>3. SoundCache(cache', reported', now) /\ reported \subseteq reported'
    BY <2>2 DEF Follows
  <2>4. PICK y : /\ Becomes(t, y) /\ SoundThread(t, y, reported', now)
                 /\ \A i \in (Len(Run(t).quotes) + 1)..Len(y.run.quotes) :
                       IsFresh(y.run.quotes[i], Needs(Trip(t), y.run.items)[i], reported, now)
    BY <2>2 DEF Follows
  <2>5. /\ thread'[t] = y /\ \A u \in Threads \ {t} : thread'[u] = thread[u]
        /\ thread' = [u \in Threads |-> thread'[u]]
    BY <2>4 DEF Becomes
  <2>6. ASSUME NEW u \in Threads PROVE SoundThread(u, thread'[u], reported', now)
    <3>1. CASE u = t
      BY <2>4, <2>5, <3>1
    <3>2. CASE u # t
      BY <2>3, <2>5, <3>2, SeenGrows, ThreadIs
    <3> QED
      BY <3>1, <3>2
  <2>7. ASSUME NEW u \in Threads, NEW i \in (Len(Run(u).quotes) + 1)..Len(Run(u)'.quotes)
        PROVE  IsFresh(Run(u)'.quotes[i], Needs(Trip(u), Run(u)'.items)[i], reported, now)
    <3>1. CASE u = t
      BY <2>4, <2>5, <3>1 DEF Run
    <3>2. CASE u # t
      <4>1. Run(u)' = Run(u)
        BY <2>5, <3>2 DEF Run
      <4>2. Len(Run(u).quotes) \in Nat
        BY ThreadIs, InSeq DEF SoundRun
      <4> QED
        BY <4>1, <4>2
    <3> QED
      BY <3>1, <3>2
  <2>8. TakesFreshRates
    BY <2>7 DEF TakesFreshRates, IsFresh
  <2>9. MaxNow' = MaxNow
    BY DEF MaxNow
  <2> QED
    BY <2>1, <2>3, <2>5, <2>6, <2>8, <2>9 DEF BudgetInv
<1>6. CASE UNCHANGED budgetVars
  BY <1>2, <1>6 DEF budgetVars, BudgetInv, MaxNow
<1> QED
  BY <1>3, <1>4, <1>5, <1>6 DEF BudgetNext

LEMMA BudgetInvariant == BudgetSpec => []BudgetInv
<1>1. BudgetInv /\ [BudgetNext]_budgetVars => BudgetInv'
  BY BudgetInductive
<1> QED
  BY BudgetInitInv, <1>1, PTL DEF BudgetSpec

\* A rate a run takes was quoted within the lifetime of the cache or stands in a
\* report, and is of its pair.
THEOREM RatesAreAlwaysFresh == BudgetSpec => RatesAreFresh
<1>1. BudgetInv /\ [BudgetNext]_budgetVars => [TakesFreshRates]_budgetVars
  BY BudgetInductive
<1>2. RatesAreFresh <=> [][TakesFreshRates]_budgetVars
  BY DEF RatesAreFresh, TakesFreshRates
<1> QED
  BY BudgetInvariant, <1>1, <1>2, PTL DEF BudgetSpec

-----------------------------------------------------------------------------
(* What the evidence says. *)

\* Days that are divided over n cities, the first r of which have one more.
HasShares(f, n, q, r) == \A i \in 1..n : f[i] = q + IF i <= r THEN 1 ELSE 0

LEMMA SharedDays ==
    ASSUME NEW n \in Nat, NEW q \in Nat, NEW r \in Nat, NEW f, HasShares(f, n, q, r)
    PROVE  SumFunctionOnSet(f, 1..n) = n * q + IF n <= r THEN n ELSE r
<1> USE DEF HasShares
<1> DEFINE Sum(k) == SumFunctionOnSet(f, 1..k)
           Is(k) == Sum(k) = k * q + IF k <= r THEN k ELSE r
           bad == {k \in 0..n : ~Is(k)}
<1>1. Is(0)
  <2>1. 1..0 = {}
    OBVIOUS
  <2>2. Sum(0) = 0
    BY <2>1, SumEmpty
  <2> HIDE DEF Sum
  <2> QED
    BY <2>2
<1>2. ASSUME NEW k \in Nat, k + 1 <= n, Is(k) PROVE Is(k + 1)
  <2>1. IsFiniteSet(1..(k + 1)) /\ k + 1 \in 1..(k + 1)
    BY FS_Interval
  <2>2. \A i \in 1..(k + 1) : f[i] \in Nat
    BY <1>2
  <2>3. (1..(k + 1)) \ {k + 1} = 1..k
    OBVIOUS
  <2>4. Sum(k + 1) = f[k + 1] + Sum(k)
    <3> DEFINE S == 1..(k + 1)
    <3>1. SumFunctionOnSet(f, S) = f[k + 1] + SumFunctionOnSet(f, S \ {k + 1})
      <4> HIDE DEF S
      <4>1. IsFiniteSet(S) /\ k + 1 \in S /\ \A i \in S : f[i] \in Nat
        BY <2>1, <2>2 DEF S
      <4> QED
        BY <4>1, SumTake
    <3> QED
      BY <2>3, <3>1
  <2>5. f[k + 1] = q + IF k + 1 <= r THEN 1 ELSE 0
    BY <1>2
  <2>6. (k + 1) * q = k * q + q /\ k * q \in Nat
    OBVIOUS
  <2> HIDE DEF Sum
  <2> QED
    BY <1>2, <2>4, <2>5, <2>6
<1>3. SUFFICES Is(n)
  OBVIOUS
<1> HIDE DEF Is
<1>4. SUFFICES ASSUME bad # {} PROVE FALSE
  OBVIOUS
<1>5. bad \in SUBSET Nat
  OBVIOUS
<1> HIDE DEF bad
<1>6. PICK least \in bad : \A k \in bad : least <= k
  BY <1>4, <1>5, NatMinimum
<1>7. least \in Nat /\ least # 0 /\ least <= n /\ ~Is(least)
  BY <1>1, <1>6 DEF bad
<1>8. least - 1 \in Nat /\ (least - 1) + 1 = least /\ least - 1 \notin bad
  BY <1>6, <1>7
<1>9. Is(least - 1)
  BY <1>7, <1>8 DEF bad
<1>10. Is((least - 1) + 1)
  BY <1>2, <1>7, <1>8, <1>9
<1> QED
  BY <1>7, <1>8, <1>10

\* The days in the cities of a trip are its days.
LEMMA CityDaysSum ==
    ASSUME NEW a, IsTrip(a)
    PROVE  SumFunction(CityDays(a)) = a.days
<1>1. CASE a.nights # <<>>
  <2> DEFINE f == a.nights
             n == Len(f)
             g == [f EXCEPT ![n] = @ + 1]
             S == 1..n
  <2>1. f \in Seq(Nat) /\ n \in Nat \ {0} /\ a.days = SumFunction(f) + 1
    BY <1>1, NotEmpty DEF IsTrip
  <2>2. CityDays(a) = g
    BY <1>1 DEF CityDays
  <2>3. DOMAIN f = S /\ DOMAIN g = S /\ n \in S /\ IsFiniteSet(S)
    <3>1. DOMAIN f = 1..n /\ DOMAIN g = DOMAIN f
      BY <2>1
    <3>2. n \in 1..n /\ IsFiniteSet(1..n)
      <4> HIDE DEF n
      <4> QED
        BY <2>1, FS_Interval
    <3> QED
      BY <3>1, <3>2
  <2>4. (\A i \in S : f[i] \in Nat) /\ (\A i \in S \ {n} : g[i] = f[i]) /\ g[n] = f[n] + 1
    BY <2>1, <2>3
  <2> HIDE DEF f, g, n, S
  <2>5. SumFunctionOnSet(g, S) = SumFunctionOnSet(f, S) + 1
    BY <2>3, <2>4, SumRaised
  <2> QED
    BY <2>1, <2>2, <2>3, <2>5 DEF SumFunction
<1>2. CASE a.nights = <<>>
  <2> DEFINE n == Len(a.cities)
             q == a.days \div n
             r == a.days % n
             f == [i \in 1..n |-> q + IF i <= r THEN 1 ELSE 0]
  <2>1. a.days \in Nat /\ IsList(a.cities) /\ a.cities # <<>>
    BY <1>2 DEF IsTrip
  <2>2. n \in Nat \ {0}
    BY <2>1, NotEmpty DEF IsList
  <2>3. CityDays(a) = f /\ DOMAIN f = 1..n
    BY <1>2 DEF CityDays
  <2>4. /\ q \in Int /\ r \in Nat /\ r < n /\ a.days = n * q + r
    <3> HIDE DEF n
    <3> QED
      BY <2>1, <2>2
  <2>5. q \in Nat
    <3>1. SUFFICES ASSUME q <= -1 PROVE FALSE
      BY <2>4
    <3> HIDE DEF q, r, n
    <3>2. n * q <= n * (-1)
      BY <2>2, <2>4, <3>1
    <3> QED
      BY <2>1, <2>2, <2>4, <3>2
  <2>6. HasShares(f, n, q, r)
    BY DEF HasShares
  <2> HIDE DEF f, q, r, n
  <2>7. SumFunctionOnSet(f, 1..n) = n * q + IF n <= r THEN n ELSE r
    BY <2>2, <2>4, <2>5, <2>6, SharedDays
  <2>8. SumFunctionOnSet(f, 1..n) = a.days
    <3>1. ~(n <= r)
      BY <2>2, <2>4
    <3> QED
      BY <2>4, <2>7, <3>1
  <2> QED
    BY <2>3, <2>8 DEF SumFunction
<1> QED
  BY <1>1, <1>2

LEMMA DoneIs ==
    ASSUME BudgetInv, NEW t \in Threads
    PROVE  /\ IsTrip(Trip(t)) /\ AreItems(Run(t).items)
           /\ Len(Run(t).items) \in Nat /\ DOMAIN Run(t).items = 1..Len(Run(t).items)
           /\ ToSet(Run(t).items) = {Run(t).items[i] : i \in 1..Len(Run(t).items)}
           /\ t \in Done => Distinct(Run(t).items) /\ CurrentIn(Trip(t), Run(t).items)
<1>1. IsTrip(Trip(t))
  BY ThreadIs, BudgetAssumption DEF Trip
<1>2. AreItems(Run(t).items)
  BY ThreadIs DEF SoundRun
<1>3. t \in Done => Distinct(Run(t).items) /\ CurrentIn(Trip(t), Run(t).items)
  BY ThreadIs DEF SoundRun, Done, Trip
<1> QED
  BY <1>1, <1>2, <1>3, ListIs DEF AreItems

LEMMA BudgetIsTyped == BudgetInv => BudgetTypeOK
<1> SUFFICES ASSUME BudgetInv PROVE BudgetTypeOK
  OBVIOUS
<1>1. now \in 1..MaxNow /\ restarts \in 0..MaxRestarts /\ MaxNow \in Nat
  <2>1. Len(Rate) \in Nat
    BY BudgetAssumption
  <2> QED
    BY <2>1 DEF BudgetInv, MaxNow
<1>2. ASSUME NEW e \in cache
      PROVE  e.quote \in 1..now /\ e.age \in 0..MaxNow /\ Cardinality(Entry(cache, e)) = 1
  <2>1. SoundCache(cache, reported, now)
    BY DEF BudgetInv
  <2>2. e.quote \in 1..now /\ e.age \in 0..(now - 1)
    BY <2>1 DEF SoundCache, SoundEntry
  <2>3. Entry(cache, e) = {e}
    BY <2>1 DEF SoundCache, SameRate, Entry
  <2>4. Cardinality({e}) = 1
    BY FS_Singleton
  <2>5. \A age \in 0..(now - 1) : age \in 0..MaxNow
    BY <1>1
  <2> QED
    BY <2>2, <2>3, <2>4, <2>5
<1>3. ASSUME NEW t \in Threads
      PROVE  /\ thread[t].trip \in Trips[t] /\ Run(t).phase \in Phases
             /\ Run(t).tries \in 0..(Attempts - 1) /\ Verdict(t) \in Verdicts
             /\ \A x \in ToSet(Run(t).items) : x.category \in Categories
             /\ \A q \in ToSet(Run(t).quotes) : q \in Identity..now
  <2>1. /\ thread[t].trip \in Trips[t] /\ Run(t).phase \in Phases
        /\ Run(t).tries \in 0..(Attempts - 1) /\ Run(t).quotes \in Seq(Identity..now)
    BY ThreadIs DEF SoundRun
  <2>2. Verdict(t) \in Verdicts
    BY Zenon DEF Verdict, Verdicts
  <2>3. \A x \in ToSet(Run(t).items) : x.category \in Categories
    BY DoneIs DEF AreItems, IsItem
  <2>4. \A q \in ToSet(Run(t).quotes) : q \in Identity..now
    <3> DEFINE T == Identity..now
               quotes == Run(t).quotes
    <3>1. quotes \in Seq(T)
      BY <2>1
    <3> HIDE DEF T, quotes
    <3>2. \A i \in DOMAIN quotes : quotes[i] \in T
      BY <3>1
    <3>3. \A q \in ToSet(quotes) : q \in T
      BY <3>2 DEF ToSet
    <3> QED
      BY <3>3 DEF T, quotes
  <2> QED
    BY <2>1, <2>2, <2>3, <2>4
<1> QED
  BY <1>1, <1>2, <1>3 DEF BudgetTypeOK

LEMMA EvidenceHolds == BudgetInv => EvidenceIsSound
<1> SUFFICES ASSUME BudgetInv PROVE EvidenceIsSound
  OBVIOUS
<1>1. CountedOnce
  BY DoneIs DEF CountedOnce, Distinct, Done
<1>2. CurrentPriceCounts
  <2> SUFFICES ASSUME NEW t \in Done
               PROVE  /\ Trip(t).flight.priced =>
                           MoneyOf(Run(t).items, "flights", Trip(t).flight.id) = {Trip(t).flight.money}
                      /\ \A stay \in ToSet(Trip(t).stays) :
                           stay.supplied = {} =>
                             \A m \in Catalog(Trip(t), stay.key) :
                               MoneyOf(Run(t).items, "hotels", stay.key) = {m}
    BY DEF CurrentPriceCounts
  <2>1. CurrentIn(Trip(t), Run(t).items) /\ IsList(Trip(t).stays)
    BY DoneIs DEF Done, IsTrip
  <2>2. ToSet(Trip(t).stays) = {Trip(t).stays[i] : i \in 1..Len(Trip(t).stays)}
    BY <2>1, ListIs
  <2> QED
    BY <2>1, <2>2 DEF CurrentIn
<1>3. EveryDayIsCosted
  <2> SUFFICES ASSUME NEW t \in Done, NEW c \in Daily
               PROVE  LET estimates == Estimates(Trip(t), Run(t).items) IN
                        IF \E x \in ToSet(Run(t).items) : x.category = c
                        THEN c \notin DOMAIN estimates
                        ELSE c \in DOMAIN estimates /\ SumFunction(estimates[c]) = Trip(t).days
    BY DEF EveryDayIsCosted
  <2> DEFINE estimates == Estimates(Trip(t), Run(t).items)
             uncovered == Uncovered(Run(t).items)
  <2>1. SumFunction(CityDays(Trip(t))) = Trip(t).days
    BY DoneIs, CityDaysSum DEF Done
  <2>2. DOMAIN estimates = uncovered /\ \A d \in uncovered : estimates[d] = CityDays(Trip(t))
    BY DEF Estimates
  <2>3. c \in uncovered <=> ~ \E x \in ToSet(Run(t).items) : x.category = c
    BY DEF Uncovered
  <2> QED
    BY <2>1, <2>2, <2>3
<1> QED
  BY <1>1, <1>2, <1>3, BudgetIsTyped DEF EvidenceIsSound

LEMMA VerdictHolds == BudgetInv => VerdictIsEarned
<1> SUFFICES ASSUME BudgetInv, NEW t \in Done, Verdict(t) \in {"within", "over"}
             PROVE  /\ \A i \in 1..(Len(Run(t).items) + 1) : Run(t).quotes[i] # Unavailable
                    /\ \A c \in Trip(t).expected :
                         \E x \in ToSet(Run(t).items) : x.category = c
  BY DEF VerdictIsEarned
<1> DEFINE n == Len(Run(t).items)
<1>1. Missing(t) = {} /\ TargetQuote(t) # Unavailable
  BY Zenon DEF Verdict
<1>2. /\ n \in Nat /\ DOMAIN Run(t).items = 1..n
      /\ ToSet(Run(t).items) = {Run(t).items[i] : i \in 1..n}
  BY DoneIs DEF Done
<1>3. ASSUME NEW i \in 1..n PROVE Run(t).quotes[i] # Unavailable
  <2>1. i \in Converted(t)
    <3> SUFFICES ASSUME i \notin Converted(t) PROVE FALSE
      OBVIOUS
    <3>1. i \in DOMAIN Run(t).items \ Converted(t)
      BY <1>2
    <3>2. Run(t).items[i].category \in
            {Run(t).items[k].category : k \in DOMAIN Run(t).items \ Converted(t)}
      BY <3>1
    <3> QED
      BY <1>1, <3>2, Zenon DEF Missing
  <2> QED
    BY <2>1 DEF Converted
<1>4. Run(t).quotes[n + 1] # Unavailable
  BY <1>1 DEF TargetQuote
<1>5. \A i \in 1..(n + 1) : i \in 1..n \/ i = n + 1
  BY <1>2
<1>6. ASSUME NEW c \in Trip(t).expected
      PROVE  \E x \in ToSet(Run(t).items) : x.category = c
  <2>1. c \in {Run(t).items[i].category : i \in Converted(t)}
    BY <1>1 DEF Missing
  <2>2. PICK i \in Converted(t) : c = Run(t).items[i].category
    BY <2>1
  <2>3. i \in 1..n
    BY <1>2 DEF Converted
  <2> QED
    BY <1>2, <2>2, <2>3
<1> QED
  BY <1>3, <1>4, <1>5, <1>6

\* The price evidence of every report is sound: nothing counts twice, what is
\* chosen now counts at its present price, and each day without a price is
\* estimated.
THEOREM EvidenceIsAlwaysSound == BudgetSpec => []EvidenceIsSound
  BY BudgetInvariant, EvidenceHolds, PTL

\* A total is within or over the target only when all of it was converted.
THEOREM VerdictsAreAlwaysEarned == BudgetSpec => []VerdictIsEarned
  BY BudgetInvariant, VerdictHolds, PTL
=============================================================================
