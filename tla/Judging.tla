--------------------------------- MODULE Judging --------------------------------
(***************************************************************************)
(* The layers of the evaluation harness (edd) that ask a model to judge:   *)
(* scores of single answers (layer 2), a tournament of two models (layer   *)
(* 3) and the calibration of the judge against labels given by people      *)
(* (layer 4). The judge is outside; what it may say is a mood.             *)
(***************************************************************************)
EXTENDS Decisions

(* One call of the judge: a verdict, or an error that is worth a retry, or *)
(* one that is not.                                                        *)

Said(score, winner) == [state |-> "said", score |-> score, winner |-> winner]
Transient == [state |-> "transient", score |-> 0, winner |-> "tie"]
Broken == [state |-> "broken", score |-> 0, winner |-> "tie"]

Thrice(call) == <<call, call, call>>

Moods == {"fair", "harsh", "stuck", "flaky", "down", "broken", "first", "second", "timid"}

\* What a judge of each mood answers, attempt by attempt, to one answer ...
Opinion(mood, t) ==
    CASE mood = "harsh" -> Thrice(Said(IF t.worth = 0 THEN 0 ELSE t.worth - 1, "tie"))
      [] mood = "stuck" -> Thrice(Said(3, "tie"))
      [] mood = "flaky" -> <<Transient, Transient, Said(t.worth, "tie")>>
      [] mood = "down" -> Thrice(Transient)
      [] mood = "broken" -> <<Broken, Said(t.worth, "tie"), Said(t.worth, "tie")>>
      [] OTHER -> Thrice(Said(t.worth, "tie"))

\* ... and to two answers in two slots: it may see which is better, or have
\* an eye only for the slot.
Better(a, b) == IF a.worth > b.worth THEN "A" ELSE IF b.worth > a.worth THEN "B" ELSE "tie"

Slots(mood, a, b) ==
    CASE mood = "first" -> Thrice(Said(0, "A"))
      [] mood = "second" -> Thrice(Said(0, "B"))
      [] mood = "timid" -> Thrice(Said(0, IF a.worth > b.worth THEN "A" ELSE "tie"))
      [] mood = "down" -> Thrice(Transient)
      [] mood = "broken" -> Thrice(Broken)
      [] mood = "flaky" -> <<Transient, Transient, Said(0, Better(a, b))>>
      [] OTHER -> Thrice(Said(0, Better(a, b)))

-----------------------------------------------------------------------------
(* rubrics *)

MaxAttempts == 3

IsTransient(call) == call.state = "transient"

\* The first attempt that is not worth a retry, or else the last.
RunJudge(attempts) ==
    LET last == {i \in 1..MaxAttempts : ~IsTransient(attempts[i])} \cup {MaxAttempts}
    IN  attempts[CHOOSE i \in last : \A j \in last : i <= j]

NoScore == [scored |-> FALSE, score |-> 0]
Score(n) == [scored |-> TRUE, score |-> n]

Scored(call) == IF call.state = "said" THEN Score(call.score) ELSE NoScore

\* No evidence, nothing to check; no answer, no help.
Faithfulness(mood, t) ==
    IF t.outputs = {} \/ ~t.answer THEN NoScore ELSE Scored(RunJudge(Opinion(mood, t)))

Helpfulness(mood, t) ==
    IF ~t.answer THEN Score(0) ELSE Scored(RunJudge(Opinion(mood, t)))

NoWinner == [winner |-> "none", consistent |-> TRUE, kind |-> "none"]

Deswap(w) == CASE w = "A" -> "B" [] w = "B" -> "A" [] OTHER -> w

\* Mutant of ComparePairwise: the verdict of the first order stands.
ComparePairwiseOnce(mood, a, b) ==
    LET forward == RunJudge(Slots(mood, a, b))
    IN  IF \E t \in {a, b} : t.error # "none" \/ ~t.answer THEN NoWinner
        ELSE IF forward.state # "said" THEN NoWinner
        ELSE [winner |-> forward.winner, consistent |-> TRUE, kind |-> "none"]

\* The winner is the one preferred in either slot.
ComparePairwise(mood, a, b) ==
    LET forward == RunJudge(Slots(mood, a, b))
        reverse == RunJudge(Slots(mood, b, a))
        w1 == forward.winner
        w2 == Deswap(reverse.winner)
    IN  IF \E t \in {a, b} : t.error # "none" \/ ~t.answer THEN NoWinner
        ELSE IF forward.state # "said" \/ reverse.state # "said" THEN NoWinner
        ELSE IF w1 = w2 THEN [winner |-> w1, consistent |-> TRUE, kind |-> "none"]
        ELSE [winner |-> "tie", consistent |-> FALSE,
              kind |-> IF "tie" \in {w1, w2} THEN "tie_boundary" ELSE "winner_reversal"]

-----------------------------------------------------------------------------
(* l2_judge_run *)

\* How many runs were given a score, and the sum of the scores.
Rubric(verdicts) ==
    LET counted == {i \in DOMAIN verdicts : verdicts[i].scored}
    IN  [scored |-> Cardinality(counted), sum |-> SumFunction([i \in counted |-> verdicts[i].score])]

\* Of a batch whose outcomes are given the runs in `judged` are judged.
Layer2(mood, batch, outcomes, judged) ==
    [layer |-> "l2", outcomes |-> Tally(outcomes),
     faithfulness |-> Rubric([i \in judged |-> Faithfulness(mood, batch[i])]),
     helpfulness |-> Rubric([i \in judged |-> Helpfulness(mood, batch[i])])]

Judged(outcomes) == {i \in DOMAIN outcomes : outcomes[i] \notin Ineligible}

FlightsLayer2(mood, batch) ==
    LET outcomes == [i \in DOMAIN batch |-> FlightsOutcome(batch[i])]
    IN  Layer2(mood, batch, outcomes, Judged(outcomes))

\* A run that erred is passed over before its verdicts are read.
HotelsLayer2(mood, batch) ==
    LET outcomes == [i \in DOMAIN batch |-> HotelsOutcome(batch[i])]
    IN  Layer2(mood, batch, outcomes, Judged(outcomes) \cap Completed(batch))

ActivitiesLayer2(mood, batch) ==
    LET outcomes == [i \in DOMAIN batch |-> ActivitiesOutcome(batch[i])]
    IN  Layer2(mood, batch, outcomes, Judged(outcomes))

RestaurantsLayer2(mood, batch) ==
    LET outcomes == [i \in DOMAIN batch |-> RestaurantsOutcome(batch[i])]
    IN  Layer2(mood, batch, outcomes, Judged(outcomes))

\* The verdicts on every case are part of the report.
EachCase(mood, batch, outcomes) ==
    [i \in DOMAIN batch |->
       IF i \in Judged(outcomes)
       THEN <<outcomes[i], Faithfulness(mood, batch[i]), Helpfulness(mood, batch[i])>>
       ELSE <<outcomes[i]>>]

TransportationLayer2(mood, batch) ==
    LET outcomes == [i \in DOMAIN batch |-> TransportationOutcome(batch[i])]
    IN  <<Layer2(mood, batch, outcomes, Judged(outcomes)), EachCase(mood, batch, outcomes)>>

ReadinessLayer2(mood, batch) ==
    LET outcomes == [i \in DOMAIN batch |-> ReadinessOutcome(batch[i])]
    IN  <<Layer2(mood, batch, outcomes, Judged(outcomes)), EachCase(mood, batch, outcomes)>>

\* Budget and itinerary judge every run and only print.
Printed(mood, batch) ==
    [i \in DOMAIN batch |-> <<Faithfulness(mood, batch[i]), Helpfulness(mood, batch[i])>>]

BudgetLayer2(mood, batch) == Printed(mood, batch)

ItineraryLayer2(mood, batch) == Printed(mood, batch)

-----------------------------------------------------------------------------
(* l3_pairwise and l3_pairwise_run *)

\* A battle is skipped when the outcome of either run rules it out.
Battle(outcomes, ruled, mood, a, b) ==
    IF outcomes \cap ruled # {} THEN NoWinner ELSE ComparePairwise(mood, a, b)

FlightsBattle(mood, a, b) ==
    Battle({FlightsOutcome(a), FlightsOutcome(b)}, Ineligible, mood, a, b)

HotelsBattle(mood, a, b) ==
    Battle({HotelsOutcome(a), HotelsOutcome(b)}, {"blocked_external"}, mood, a, b)

ActivitiesBattle(mood, a, b) ==
    Battle({ActivitiesOutcome(a), ActivitiesOutcome(b)}, Ineligible, mood, a, b)

RestaurantsBattle(mood, a, b) ==
    Battle({RestaurantsOutcome(a), RestaurantsOutcome(b)}, Ineligible, mood, a, b)

TransportationBattle(mood, a, b) ==
    Battle({TransportationOutcome(a), TransportationOutcome(b)}, Ineligible, mood, a, b)

ReadinessBattle(mood, a, b) ==
    Battle({ReadinessOutcome(a), ReadinessOutcome(b)}, Ineligible, mood, a, b)

BudgetBattle(mood, a, b) ==
    Battle({BudgetOutcome(a), BudgetOutcome(b)}, Ineligible, mood, a, b)

ItineraryBattle(mood, a, b) ==
    Battle({ItineraryOutcome(a), ItineraryOutcome(b)}, Ineligible, mood, a, b)

\* A matchup of two arms: wins of each, ties, the verdicts that turned with
\* the order among them, and the battles that were skipped.
Layer3(verdicts) ==
    LET of(w) == Cardinality({i \in DOMAIN verdicts : verdicts[i].winner = w})
        turned(k) == Cardinality({i \in DOMAIN verdicts : verdicts[i].kind = k})
    IN  [layer |-> "l3", first |-> of("A"), second |-> of("B"), ties |-> of("tie"),
         skipped |-> of("none"), reversals |-> turned("winner_reversal"),
         boundaries |-> turned("tie_boundary")]

FlightsLayer3(mood, one, two) ==
    Layer3([i \in DOMAIN one |-> FlightsBattle(mood, one[i], two[i])])

HotelsLayer3(mood, one, two) ==
    Layer3([i \in DOMAIN one |-> HotelsBattle(mood, one[i], two[i])])

ActivitiesLayer3(mood, one, two) ==
    Layer3([i \in DOMAIN one |-> ActivitiesBattle(mood, one[i], two[i])])

RestaurantsLayer3(mood, one, two) ==
    Layer3([i \in DOMAIN one |-> RestaurantsBattle(mood, one[i], two[i])])

TransportationLayer3(mood, one, two) ==
    Layer3([i \in DOMAIN one |-> TransportationBattle(mood, one[i], two[i])])

ReadinessLayer3(mood, one, two) ==
    Layer3([i \in DOMAIN one |-> ReadinessBattle(mood, one[i], two[i])])

BudgetLayer3(mood, one, two) == [i \in DOMAIN one |-> BudgetBattle(mood, one[i], two[i])]

ItineraryLayer3(mood, one, two) == [i \in DOMAIN one |-> ItineraryBattle(mood, one[i], two[i])]

-----------------------------------------------------------------------------
(* calibration: the judge's scores of answers that people have labelled with *)
(* their worth. Rational figures are kept as integers over the same base.    *)

Square(n) == n * n

\* One minus kappa is observed over expected disagreement.
Observed(human, judge) == SumFunction([i \in DOMAIN human |-> Square(human[i] - judge[i])])

Expected(human, judge) ==
    SumFunction([i \in DOMAIN human |->
                   SumFunction([k \in DOMAIN judge |-> Square(human[i] - judge[k])])])

KappaDefined(human, judge) == Expected(human, judge) # 0

\* Kappa of at least six tenths.
KappaHigh(human, judge) ==
    /\ KappaDefined(human, judge)
    /\ 5 * Len(human) * Observed(human, judge) <= 2 * Expected(human, judge)

Bias(human, judge) == SumFunction([i \in DOMAIN human |-> judge[i] - human[i]])

Magnitude(n) == IF n < 0 THEN -n ELSE n

Trusted(human, judge) ==
    KappaHigh(human, judge) /\ 2 * Magnitude(Bias(human, judge)) < Len(human)

Calibration(mood, labelled) ==
    LET scored == Picks(labelled, {i \in DOMAIN labelled : Faithfulness(mood, labelled[i]).scored})
        human == [i \in DOMAIN scored |-> scored[i].worth]
        judge == [i \in DOMAIN scored |-> Faithfulness(mood, scored[i]).score]
        within(d) == Cardinality({i \in DOMAIN human : Magnitude(judge[i] - human[i]) <= d})
    IN  [layer |-> "l4", n |-> Len(scored),
         cases |-> [i \in DOMAIN labelled |-> Faithfulness(mood, labelled[i])],
         exact |-> within(0), within1 |-> within(1),
         distance |-> SumFunction([i \in DOMAIN human |-> Magnitude(judge[i] - human[i])]),
         bias |-> Bias(human, judge),
         trusted |-> Trusted(human, judge)]
=============================================================================
