-------------------------------- MODULE TripBudget -------------------------------
(***************************************************************************)
(* The budget node: the prices of a trip and of the budgets before it are  *)
(* gathered once each, what has no price is estimated by day and city, all *)
(* is converted at rates that every conversation of a process shares, and  *)
(* the total is judged against the traveller's target. A run gives way to  *)
(* others only where it awaits the model or an exchange rate, so what the  *)
(* cache can answer is converted in one step. Amounts are whole; rounding  *)
(* to cents is left out.                                                   *)
(***************************************************************************)
EXTENDS Integers, FiniteSets, SequencesExt, Ranks

CONSTANTS
    Threads,   \* conversations
    Trips,     \* by conversation, the trips it may be about when the node runs
    Artefacts, \* by trip, the request, skeleton, draft and messages it has
    Rate,      \* by tick, what one unit of a foreign currency is worth in dollars
    TTL,       \* ticks a rate stays in the cache
    Attempts,  \* requests for one rate
    MaxRuns,      \* bound: budgets, by conversation
    MaxRestarts   \* bound: restarts of the process

VARIABLES
    now,       \* tick of the clock
    cache,     \* ExchangeRateProvider._cache: entries [from, to, quote, age]
    reported,  \* history: the rates of all reports
    restarts,  \* history: restarts so far
    thread     \* by conversation, its trip, what earlier budgets left, its run

budgetVars == <<now, cache, reported, restarts, thread>>

MaxNow == Len(Rate)

Daily == {"transport", "meals", "activities", "misc"}
Categories == Daily \cup {"flights", "accommodation"}

\* A skeleton has a night less than the trip has days (StaysCoverTrip); a request
\* without a city is for one that is unknown, one without dates for a day.  A rate
\* in the draft has the price of the catalogue, so that two stays at one rate
\* have one price.
IsTrip(trip) ==
    /\ IsList(trip.options) /\ IsList(trip.stays) /\ IsList(trip.known)
    /\ \A i \in DOMAIN trip.known : trip.known[i].category \in Categories
    /\ \A i, j \in DOMAIN trip.stays :
          trip.stays[i].key = trip.stays[j].key => trip.stays[i] = trip.stays[j]
    /\ IsFiniteSet(trip.texts)
    /\ trip.nights \in Seq(Nat) /\ trip.days \in Nat
    /\ IF trip.nights # <<>>
       THEN trip.days = SumFunction(trip.nights) + 1
       ELSE IsList(trip.cities) /\ trip.cities # <<>>

ASSUME BudgetAssumption ==
    /\ Threads # {} /\ TTL \in Nat /\ Attempts \in Nat \ {0}
    /\ Rate \in Seq(Nat) /\ Rate # <<>>
    /\ \A t \in Threads : /\ Trips[t] # {} /\ MaxRuns[t] \in Nat
                          /\ \A trip \in Trips[t] : IsTrip(Artefacts[trip])
    /\ MaxRestarts \in Nat

Phases == {"idle", "due", "extracting", "asking", "done", "broken"}
Verdicts == {"none", "no_target", "unknown", "within", "over"}

\* A quote is the tick at which the provider made it; amounts in dollars need
\* none, and where the provider could not be had there is none.
Identity == -1
Unavailable == 0

\* The amount of a target nobody stated; a target of nothing is one.
NoTarget == -1

Idle == [phase |-> "idle", items |-> <<>>, quotes |-> <<>>, tries |-> 0]

BudgetInit ==
    /\ now = 1 /\ cache = {} /\ reported = {} /\ restarts = 0
    /\ thread = [t \in Threads |-> [trip |-> CHOOSE trip \in Trips[t] : TRUE, evidence |-> <<>>,
                                    rates |-> {}, runs |-> 0, run |-> Idle]]

Run(t) == thread[t].run
Trip(t) == Artefacts[thread[t].trip]

-----------------------------------------------------------------------------
(* assemble_price_evidence *)

Item(part, id, category, money, scope) ==
    [part |-> part, id |-> id, index |-> 0, category |-> category, money |-> money,
     scope |-> scope]

Flight(trip) ==
    IF trip.flight.priced
    THEN <<Item("flights", trip.flight.id, "flights", trip.flight.money, "total")>>
    ELSE <<>>

\* hotel_price_catalog: the last option of a rate stands.
Catalog(trip, key) ==
    LET places == {i \in DOMAIN trip.options : trip.options[i].key = key} IN
      IF places = {} THEN {} ELSE {trip.options[Max(places)].money}

\* A stay counts once and at the price of its provider, unless the draft
\* carries another price.
Stays(trip) ==
    LET counted(i) ==
          LET stay == trip.stays[i] IN
            /\ \A j \in 1..(i - 1) : trip.stays[j].key # stay.key
            /\ \E money \in Catalog(trip, stay.key) : stay.supplied \in {{}, {money}}
        places == Ascending({i \in DOMAIN trip.stays : counted(i)})
    IN [k \in DOMAIN places |->
          LET key == trip.stays[places[k]].key IN
            Item("hotels", key, "accommodation", CHOOSE m \in Catalog(trip, key) : TRUE,
                 "total")]

\* traveler:{index}:{category}
KnownCosts(trip) ==
    [i \in DOMAIN trip.known |->
       [Item("traveler", trip.known[i].category, trip.known[i].category,
             trip.known[i].money, trip.known[i].scope) EXCEPT !.index = i]]

\* What is chosen in each trip and has a price.
Chosen ==
    [trip \in UNION {Trips[t] : t \in Threads} |->
       LET a == Artefacts[trip] IN Flight(a) \o Stays(a) \o KnownCosts(a)]

SameItem(a, b) == a.part = b.part /\ a.id = b.id /\ a.index = b.index

Joined(items, additional) ==
    LET seen(i) == \/ \E x \in ToSet(items) : SameItem(x, additional[i])
                   \/ \E j \in 1..(i - 1) : SameItem(additional[j], additional[i])
    IN items \o Picks(additional, {i \in DOMAIN additional : ~seen(i)})

\* Mutant: what was counted before comes before what is chosen now.
AssembledOldFirst(trip, additional) == Joined(additional, Chosen[trip])

Assembled(trip, additional) == Joined(Chosen[trip], additional)

\* _extract_legacy_selected_prices: what is chosen and has no price.
Selected(trip) ==
    {<<"flights", trip.flight.id>>} \cup {<<"hotels", s.key>> : s \in ToSet(trip.stays)}

Unpriced(t) ==
    Selected(Trip(t)) \
      {<<x.part, x.id>> : x \in ToSet(Assembled(thread[t].trip, thread[t].evidence))}

\* Amounts the messages state next to a chosen id that has no price.
LegacyFacts(t) ==
    {Item(f.part, f.id, IF f.part = "hotels" THEN "accommodation" ELSE "flights", f.money,
          "total") :
       f \in {f \in Trip(t).texts : <<f.part, f.id>> \in Unpriced(t)}}

-----------------------------------------------------------------------------
(* regional_estimates *)

CityDays(trip) ==
    IF trip.nights # <<>> THEN [trip.nights EXCEPT ![Len(trip.nights)] = @ + 1]
    ELSE LET n == Len(trip.cities) IN
           [i \in 1..n |-> trip.days \div n + IF i <= trip.days % n THEN 1 ELSE 0]

Uncovered(items) == Daily \ {x.category : x \in ToSet(items)}

\* A dollar a day and traveller, by category: the days in each city.
Estimates(trip, items) == [c \in Uncovered(items) |-> CityDays(trip)]

-----------------------------------------------------------------------------
(* ExchangeRateProvider *)

Entry(c, pair) == {e \in c : e.from = pair.from /\ e.to = pair.to}

Remember(c, pair, quote) ==
    (c \ Entry(c, pair)) \cup {[from |-> pair.from, to |-> pair.to, quote |-> quote, age |-> 0]}

\* Mutant: an entry never expires.
FreshForever(e) == TRUE

Fresh(e) == e.age <= TTL

IsKnown(c, pair) == pair.from = pair.to \/ \E e \in Entry(c, pair) : Fresh(e)
QuoteOf(c, pair) ==
    IF pair.from = pair.to THEN Identity ELSE (CHOOSE e \in Entry(c, pair) : TRUE).quote

RememberAll(c, rates) ==
    {e \in c : \A r \in rates : e \notin Entry(c, r)}
    \cup {[from |-> r.from, to |-> r.to, quote |-> r.quote, age |-> 0] : r \in rates}

-----------------------------------------------------------------------------
(* BudgetPipeline.run *)

Pair(from, to) == [from |-> from, to |-> to]

\* What is converted, in this order: the items, the target, the display.
Needs(trip, items) ==
    [i \in DOMAIN items |-> Pair(items[i].money.currency, "USD")]
    \o (IF trip.target.amount # NoTarget THEN <<Pair(trip.target.currency, "USD")>> ELSE <<>>)
    \o <<Pair("USD", trip.target.currency)>>

\* The rates a report records: the last of each pair.
Recorded(needs, quotes) ==
    LET last(i) == \A j \in (i + 1)..Len(needs) : needs[j] # needs[i] \/ quotes[j] = Unavailable
    IN {[from |-> needs[i].from, to |-> needs[i].to, quote |-> quotes[i]] :
          i \in {i \in DOMAIN needs : quotes[i] > 0 /\ last(i)}}

\* On from the quotes there are: all the cache can answer, then either the end
\* or a request for the first rate it cannot. An entry that expired is dropped.
Continue(t, items, quotes, c) ==
    \E needs \in {Needs(Trip(t), items)} :
    \E open \in {{k \in (Len(quotes) + 1)..Len(needs) : ~IsKnown(c, needs[k])}} :
    \E end \in {IF open = {} THEN Len(needs) ELSE Min(open) - 1} :
    \E all \in {quotes \o [j \in 1..(end - Len(quotes)) |-> QuoteOf(c, needs[Len(quotes) + j])]} :
      IF open = {}
      THEN /\ thread' = [thread EXCEPT
                 ![t].run = [phase |-> "done", items |-> items, quotes |-> all, tries |-> 0],
                 ![t].evidence = items, ![t].rates = Recorded(needs, all)]
           /\ reported' = reported \cup Recorded(needs, all)
           /\ cache' = c
      ELSE /\ thread' = [thread EXCEPT
                 ![t].run = [phase |-> "asking", items |-> items, quotes |-> all, tries |-> 0]]
           /\ cache' = c \ Entry(c, needs[end + 1])
           /\ UNCHANGED reported

Compute(t, legacy) ==
    \E items \in {Assembled(thread[t].trip, thread[t].evidence \o legacy)} :
    \E c \in {RememberAll(cache, thread[t].rates)} : Continue(t, items, <<>>, c)

\* The graph reaches the node again with the artefacts of this or another trip.
Revise(t) ==
    /\ Run(t).phase \in {"idle", "done"} /\ thread[t].runs < MaxRuns[t]
    /\ \E trip \in Trips[t] :
         thread' = [thread EXCEPT ![t].trip = trip, ![t].runs = @ + 1,
                                  ![t].run = [Idle EXCEPT !.phase = "due"]]
    /\ UNCHANGED <<now, cache, reported, restarts>>

\* Prices the messages may still hold are asked of the model first.
Start(t) ==
    /\ Run(t).phase = "due"
    /\ IF LegacyFacts(t) # {}
       THEN /\ thread' = [thread EXCEPT ![t].run.phase = "extracting"]
            /\ UNCHANGED <<cache, reported>>
       ELSE Compute(t, <<>>)
    /\ UNCHANGED <<now, restarts>>

\* The model names some of them, in any order, or fails and names none.
Extract(t) ==
    /\ Run(t).phase = "extracting"
    /\ \E facts \in SUBSET LegacyFacts(t) : \E legacy \in SetToSeqs(facts) : Compute(t, legacy)
    /\ UNCHANGED <<now, restarts>>

Asked(t) == Needs(Trip(t), Run(t).items)[Len(Run(t).quotes) + 1]

Answered(t) ==
    /\ Run(t).phase = "asking"
    /\ \E c \in {Remember(cache, Asked(t), now)} :
         Continue(t, Run(t).items, Append(Run(t).quotes, now), c)
    /\ UNCHANGED <<now, restarts>>

\* Refused, or lost for the last time: ExchangeRateUnavailable. The next item of
\* this currency asks again.
NoRate(t) ==
    /\ Run(t).phase = "asking"
    /\ Continue(t, Run(t).items, Append(Run(t).quotes, Unavailable), cache)
    /\ UNCHANGED <<now, restarts>>

\* Mutant: a lost request is sent again whatever was lost before.
LostForever(t) ==
    /\ Run(t).phase = "asking"
    /\ thread' = [thread EXCEPT ![t].run.tries = (@ + 1) % Attempts]
    /\ UNCHANGED <<now, cache, reported, restarts>>

Lost(t) ==
    /\ Run(t).phase = "asking" /\ Run(t).tries + 1 < Attempts
    /\ thread' = [thread EXCEPT ![t].run.tries = @ + 1]
    /\ UNCHANGED <<now, cache, reported, restarts>>

\* An answer of another shape raises what nothing expects: the node stores None
\* for the report, and every later run of this conversation raises on it.
Malformed(t) ==
    /\ Run(t).phase = "asking"
    /\ thread' = [thread EXCEPT ![t].run = [Idle EXCEPT !.phase = "broken"], ![t].rates = {}]
    /\ UNCHANGED <<now, cache, reported, restarts>>

Tick ==
    /\ now < MaxNow
    /\ now' = now + 1
    /\ cache' = {[e EXCEPT !.age = @ + 1] : e \in cache}
    /\ UNCHANGED <<reported, restarts, thread>>

\* The process starts anew without its cache and takes up the nodes it was in.
Restart ==
    /\ restarts < MaxRestarts
    /\ restarts' = restarts + 1 /\ cache' = {}
    /\ thread' = [t \in Threads |->
                    IF Run(t).phase \in {"extracting", "asking"}
                    THEN [thread[t] EXCEPT !.run = [Idle EXCEPT !.phase = "due"]]
                    ELSE thread[t]]
    /\ UNCHANGED <<now, reported>>

Step(t) == Lost(t) \/ Malformed(t) \/ Start(t) \/ Extract(t) \/ Answered(t) \/ NoRate(t)
BudgetNext == Tick \/ Restart \/ \E t \in Threads : Revise(t) \/ Step(t)

BudgetSpec == BudgetInit /\ [][BudgetNext]_budgetVars
FairBudgetSpec == BudgetSpec /\ \A t \in Threads : WF_budgetVars(Step(t))

-----------------------------------------------------------------------------
(* The report. *)

\* _scope_multiplier
Times(trip, scope) ==
    CASE scope = "total" -> 1
      [] scope = "per_person" -> trip.travelers
      [] scope = "per_person_day" -> trip.travelers * trip.days

InDollars(quote) == IF quote = Identity THEN 1 ELSE Rate[quote]

Converted(t) == {i \in DOMAIN Run(t).items : Run(t).quotes[i] # Unavailable}

\* Mutant: a category counts as priced when one item of it is.
MissingIfNone(t) ==
    Trip(t).expected \ {Run(t).items[i].category : i \in Converted(t)}

Missing(t) ==
    (Trip(t).expected \ {Run(t).items[i].category : i \in Converted(t)})
    \cup {Run(t).items[i].category : i \in DOMAIN Run(t).items \ Converted(t)}

Total(t) ==
    LET trip == Trip(t)
        items == Run(t).items
        subtotal ==
          MapThenSumSet(LAMBDA i : items[i].money.amount * Times(trip, items[i].scope)
                                   * InDollars(Run(t).quotes[i]), Converted(t))
          + MapThenSumSet(LAMBDA c : SumFunction(Estimates(trip, items)[c]) * trip.travelers,
                          Uncovered(items))
    IN subtotal + (subtotal * trip.contingency) \div 100

TargetQuote(t) == Run(t).quotes[Len(Run(t).items) + 1]

Verdict(t) ==
    LET target == Trip(t).target IN
      IF Run(t).phase # "done" THEN "none"
      ELSE IF target.amount = NoTarget THEN "no_target"
      ELSE IF Missing(t) # {} \/ TargetQuote(t) = Unavailable THEN "unknown"
      ELSE IF Total(t) <= target.amount * InDollars(TargetQuote(t)) THEN "within" ELSE "over"

-----------------------------------------------------------------------------
(* Properties. *)

\* Every record has its shape, no request is sent once too often, and the cache
\* has one entry for a pair.
BudgetTypeOK ==
    /\ now \in 1..MaxNow /\ restarts \in 0..MaxRestarts
    /\ \A e \in cache : /\ e.quote \in 1..now /\ e.age \in 0..MaxNow
                        /\ Cardinality(Entry(cache, e)) = 1
    /\ \A t \in Threads :
         /\ thread[t].trip \in Trips[t] /\ Run(t).phase \in Phases
         /\ Run(t).tries \in 0..(Attempts - 1) /\ Verdict(t) \in Verdicts
         /\ \A x \in ToSet(Run(t).items) : x.category \in Categories
         /\ \A q \in ToSet(Run(t).quotes) : q \in Identity..now

Done == {t \in Threads : Run(t).phase = "done"}

\* However many budgets a conversation had and whatever their evidence held, no
\* flight, rate or cost is counted twice (assemble_price_evidence).
CountedOnce ==
    \A t \in Done : \A i, j \in DOMAIN Run(t).items :
      SameItem(Run(t).items[i], Run(t).items[j]) => i = j

MoneyOf(items, part, id) ==
    {x.money : x \in {x \in ToSet(items) : x.part = part /\ x.id = id}}

\* What is chosen now counts at the price it has now, not at the one an earlier
\* budget of the conversation had or the model read.
CurrentPriceCounts ==
    \A t \in Done :
      LET trip == Trip(t)
          items == Run(t).items
      IN /\ trip.flight.priced =>
               MoneyOf(items, "flights", trip.flight.id) = {trip.flight.money}
         /\ \A stay \in ToSet(trip.stays) :
              stay.supplied = {} => \A m \in Catalog(trip, stay.key) :
                                      MoneyOf(items, "hotels", stay.key) = {m}

\* A daily category without a price is estimated for every day of the trip, one
\* with a price for none, however the days are divided over the cities.
EveryDayIsCosted ==
    \A t \in Done : \A c \in Daily :
      LET estimates == Estimates(Trip(t), Run(t).items) IN
        IF \E x \in ToSet(Run(t).items) : x.category = c THEN c \notin DOMAIN estimates
        ELSE c \in DOMAIN estimates /\ SumFunction(estimates[c]) = Trip(t).days

\* A total is called within or over the target only when every item and the
\* target were converted, and a flight and a stay that were asked for are in it.
VerdictIsEarned ==
    \A t \in Done : Verdict(t) \in {"within", "over"} =>
      /\ \A i \in 1..(Len(Run(t).items) + 1) : Run(t).quotes[i] # Unavailable
      /\ \A c \in Trip(t).expected : \E x \in ToSet(Run(t).items) : x.category = c

\* A rate a run takes was quoted within the lifetime of the cache, by whichever
\* conversation, or stands in a report that was resumed; and it is of that pair.
RatesAreFresh ==
    [][\A t \in Threads :
         LET new == Run(t)'.quotes IN
           \A i \in (Len(Run(t).quotes) + 1)..Len(new) :
             new[i] <= 0 \/ now - new[i] <= TTL
             \/ LET pair == Needs(Trip(t), Run(t)'.items)[i] IN
                  [from |-> pair.from, to |-> pair.to, quote |-> new[i]] \in reported]_budgetVars

\* A budget that is due ends with a report or fails, whatever the provider does.
BudgetEnds ==
    \A t \in Threads :
      Run(t).phase = "due" ~> Run(t).phase \in {"done", "broken"}

\* The price evidence of a report: nothing twice, what is chosen now at the price
\* it has now, an estimate for every day without a price.  It may also hold, at
\* its old price, what an earlier budget counted and nobody chooses any more.
EvidenceIsSound == BudgetTypeOK /\ CountedOnce /\ CurrentPriceCounts /\ EveryDayIsCosted

=============================================================================
