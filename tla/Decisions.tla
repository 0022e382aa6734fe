-------------------------------- MODULE Decisions -------------------------------
(***************************************************************************)
(* The first layer of the evaluation harness (edd): what the harness keeps *)
(* of a run of an agent, the outcome each specialist's runner reads from   *)
(* it, and the checks of the agent's decision, that is of the searches it  *)
(* made. What a search's arguments are is abstracted to the place of the   *)
(* request they name and to the wishes of the traveller they carry.        *)
(***************************************************************************)
EXTENDS Ranks, Sequences, Functions

Specialists == {"flights", "hotels", "activities", "restaurants", "transportation", "readiness",
                "budget", "itinerary"}

\* Runners that read a snapshot kept by hand and never call a provider.
CacheOnly == {"budget", "itinerary"}

-----------------------------------------------------------------------------
(* What the harness keeps. A call of a tool: whether it is the search of the *)
(* specialist or that search around a point (near), the place of the request *)
(* it names, the wishes it carries, and whether it is well formed and sets   *)
(* a filter nobody asked for.                                                *)

Tools == {"search", "near", "plan", "recheck"}
Outputs == {"found", "empty", "refused", "other"}
Errors == {"none", "provider", "timeout", "other"}
Outcomes == {"completed", "no_inventory", "no_route", "no_evidence", "needs_clarification",
             "failed", "blocked_external", "infra_error"}
Ineligible == {"blocked_external", "infra_error"}

\* A run that raised or timed out leaves its error and nothing else. The
\* worth of an answer is what a person would score it, out of three.
Nothing == [error |-> "other", calls |-> <<>>, outputs |-> {}, owed |-> FALSE, answer |-> FALSE,
            worth |-> 0]

Kept(run) == IF run.error = "none" THEN run ELSE [Nothing EXCEPT !.error = run.error]

\* The readiness pipeline has no tool calls: its plan and the queries its
\* provider was asked are written down as calls, the sources as one output.
Searches(calls) == Picks(calls, {i \in DOMAIN calls : calls[i].tool \in {"search", "near"}})
Plans(calls) == Picks(calls, {i \in DOMAIN calls : calls[i].tool = "plan"})

KeptReadiness(run) ==
    IF run.error # "none" THEN [Nothing EXCEPT !.error = run.error]
    ELSE [run EXCEPT
            !.calls = <<[tool |-> "plan", on |-> "none", right |-> {}, legal |-> TRUE,
                         extra |-> FALSE]>> \o Searches(run.calls),
            !.outputs = IF Searches(run.calls) = <<>> THEN {}
                        ELSE IF "found" \in run.outputs THEN {"found"} ELSE {"empty"}]

-----------------------------------------------------------------------------
(* classify_*_outcome *)

Answered(t) == IF t.answer THEN "completed" ELSE "failed"

Erred(t, external) == IF t.error \in external THEN "blocked_external" ELSE "infra_error"

FlightsOutcome(t) ==
    IF t.error # "none" THEN Erred(t, {"provider"})
    ELSE IF t.outputs = {} THEN "failed"
    ELSE IF "refused" \in t.outputs THEN "blocked_external"
    ELSE IF "empty" \in t.outputs THEN "no_inventory"
    ELSE IF "found" \in t.outputs THEN Answered(t) ELSE "failed"

HotelsOutcome(t) ==
    IF t.error # "none" THEN "infra_error"
    ELSE IF t.outputs = {} THEN "failed"
    ELSE IF "refused" \in t.outputs THEN "blocked_external"
    ELSE IF "empty" \in t.outputs THEN "no_inventory"
    ELSE Answered(t)

\* Places found by one search make up for a search that was refused.
ActivitiesOutcome(t) ==
    IF t.error # "none" THEN Erred(t, {"provider"})
    ELSE IF "found" \in t.outputs THEN Answered(t)
    ELSE IF "refused" \in t.outputs THEN "blocked_external"
    ELSE IF t.outputs = {"empty"} THEN "no_inventory" ELSE "failed"

RestaurantsOutcome(t) ==
    IF t.error # "none" THEN Erred(t, {"provider"})
    ELSE IF "found" \in t.outputs THEN Answered(t)
    ELSE IF "refused" \in t.outputs THEN "blocked_external"
    ELSE IF t.outputs = {"empty"} THEN "no_inventory" ELSE "failed"

TransportationOutcome(t) ==
    IF t.error # "none" THEN Erred(t, {"provider"})
    ELSE IF "refused" \in t.outputs THEN "blocked_external"
    ELSE IF "found" \in t.outputs THEN Answered(t)
    ELSE IF t.outputs = {"empty"} THEN "no_route" ELSE "failed"

ReadinessOutcome(t) ==
    IF t.error # "none" THEN Erred(t, {"provider", "timeout"})
    ELSE IF Searches(t.calls) = <<>> THEN (IF t.answer THEN "needs_clarification" ELSE "failed")
    ELSE IF t.outputs = {} THEN "failed"
    ELSE IF "found" \notin t.outputs THEN "no_evidence"
    ELSE Answered(t)

BudgetOutcome(t) ==
    IF t.error # "none" THEN Erred(t, {"provider", "timeout"}) ELSE Answered(t)

ItineraryOutcome(t) ==
    IF t.error # "none" THEN Erred(t, {"provider", "timeout"}) ELSE Answered(t)

-----------------------------------------------------------------------------
(* l1_evaluate: the checks that a decision failed. A case is a request: the  *)
(* places it names, the wishes it states, how many searches it needs at      *)
(* least and may make at most.                                               *)

Fails(check, ok) == IF ok THEN {} ELSE {check}

Distinct(calls) == Cardinality(ToSet(calls))

\* Only the first search is read.
FlightsFailed(t, case) ==
    LET calls == Searches(t.calls)
        first == IF calls = <<>> THEN {} ELSE {Head(calls)} IN
      Fails("called", first # {})
        \cup Fails("place", first # {} /\ \A c \in first : c.on \in case.places)
        \cup {w \in case.wishes : \A c \in first : w \notin c.right}

\* Every search is read, so that no later one hides behind the first; a rate
\* that has to be checked again has to be sent to CheckRate.
HotelsFailed(t, case) ==
    LET made == ToSet(Searches(t.calls)) IN
      Fails("called", made # {})
        \cup Fails("place", made # {} /\ \A c \in made : c.on \in case.places)
        \cup {w \in case.wishes : made = {} \/ \E c \in made : w \notin c.right}
        \cup Fails("unrequested", made # {} /\ \A c \in made : ~c.extra)
        \cup Fails("recheck", t.owed => \E c \in ToSet(t.calls) : c.tool = "recheck")

\* The wishes that no search carries. One about a distance has to be carried
\* by a search around a point.
Forgotten(wishes, made) ==
    {w \in wishes : ~\E c \in made : w \in c.right /\ (w = "radius" => c.tool = "near")}

\* The wishes may be carried by different searches.
ActivitiesFailed(t, case) ==
    LET calls == Searches(t.calls)
        near == {c \in ToSet(calls) : c.tool = "near"} IN
      Fails("called", calls # <<>>)
        \cup Fails("fewer", Distinct(calls) >= case.least)
        \cup Fails("place", case.places \subseteq {c.on : c \in ToSet(calls)})
        \cup Forgotten(case.wishes, ToSet(calls))
        \cup Fails("illegal", \A c \in near : c.legal)
        \cup Fails("lodging", \A c \in near : ~c.extra)

RestaurantsFailed(t, case) ==
    LET calls == Searches(t.calls)
        near == {c \in ToSet(calls) : c.tool = "near"} IN
      Fails("called", calls # <<>>)
        \cup Fails("fewer", Distinct(calls) >= case.least)
        \cup Fails("place", calls # <<>> /\ \A c \in ToSet(calls) : c.on \in case.places)
        \cup Forgotten(case.wishes, ToSet(calls))
        \cup Fails("illegal", \A c \in near : c.legal)

\* A place is a route here, and its wishes bind every search of that route.
TransportationFailed(t, case) ==
    LET calls == Searches(t.calls)
        made == ToSet(calls)
        of(p) == {c \in made : c.on = p} IN
      Fails("called", made # {})
        \cup Fails("fewer", Distinct(calls) >= case.least)
        \cup Fails("place", \A p \in case.places : of(p) # {})
        \cup Fails("unrequested", made # {} /\ \A c \in made : c.on \in case.places /\ ~c.extra)
        \cup Fails("illegal", made # {} /\ \A c \in made : c.legal)
        \cup {w \in case.wishes :
                \E p \in case.places : of(p) = {} \/ \E c \in of(p) : w \notin c.right}

ReadinessFailed(t, case) ==
    LET calls == Searches(t.calls)
        made == ToSet(calls) IN
      Fails("plan", Len(Plans(t.calls)) = 1)
        \cup Fails("fewer", Len(calls) \in case.least..case.most)
        \cup Fails("place", case.places \subseteq {c.on : c \in made})
        \cup {w \in case.wishes : \A c \in made : w \notin c.right}
        \cup Fails("duplicate", Distinct(calls) = Len(calls))
        \cup Fails("unrequested", \A c \in made : ~c.extra)
        \cup Fails("illegal", \A c \in made : c.legal)

-----------------------------------------------------------------------------
(* l1_run: the report of a batch, one run for each case. *)

Tally(outcomes) ==
    {[outcome |-> o, cases |-> Cardinality({i \in DOMAIN outcomes : outcomes[i] = o})] :
       o \in Range(outcomes)}

\* Of the runs that are scored (the domain of failed) the checks each failed.
Layer1(outcomes, failed) ==
    [layer |-> "l1", outcomes |-> Tally(outcomes), scored |-> Cardinality(DOMAIN failed),
     checks |-> {[check |-> k, failed |-> Cardinality({i \in DOMAIN failed : k \in failed[i]})] :
                   k \in UNION Range(failed)},
     right |-> Cardinality({i \in DOMAIN failed : failed[i] = {}})]

Completed(batch) == {i \in DOMAIN batch : batch[i].error = "none"}

FlightsLayer1(batch, cases) ==
    LET outcomes == [i \in DOMAIN batch |-> FlightsOutcome(batch[i])]
        scored == {i \in DOMAIN batch : outcomes[i] \notin Ineligible}
    IN  Layer1(outcomes, [i \in scored |-> FlightsFailed(batch[i], cases[i])])

HotelsLayer1(batch, cases) ==
    Layer1([i \in DOMAIN batch |-> HotelsOutcome(batch[i])],
           [i \in Completed(batch) |-> HotelsFailed(batch[i], cases[i])])

ActivitiesLayer1(batch, cases) ==
    Layer1([i \in DOMAIN batch |-> ActivitiesOutcome(batch[i])],
           [i \in Completed(batch) |-> ActivitiesFailed(batch[i], cases[i])])

RestaurantsLayer1(batch, cases) ==
    Layer1([i \in DOMAIN batch |-> RestaurantsOutcome(batch[i])],
           [i \in Completed(batch) |-> RestaurantsFailed(batch[i], cases[i])])

TransportationLayer1(batch, cases) ==
    Layer1([i \in DOMAIN batch |-> TransportationOutcome(batch[i])],
           [i \in Completed(batch) |-> TransportationFailed(batch[i], cases[i])])

ReadinessLayer1(batch, cases) ==
    Layer1([i \in DOMAIN batch |-> ReadinessOutcome(batch[i])],
           [i \in Completed(batch) |-> ReadinessFailed(batch[i], cases[i])])
=============================================================================
