--------------------------- MODULE MCTravelGraph ----------------------------
(* Small conversations for TLC over TravelGraph.                            *)
EXTENDS TravelGraph

TripA(caps) == [trip |-> "a", stays |-> 2, caps |-> caps, full |-> FALSE,
                topics |-> {}, target |-> "low"]
TripB(caps) == [TripA(caps) EXCEPT !.trip = "b", !.stays = 1]

Planned == {"hotels", "activities", "transportation", "budget", "itinerary"}

\* A planned trip, and a second one with only hotels and a plan.
PlanningRequests == {TripA(Planned), TripB({"hotels", "itinerary"})}

\* Readiness with and without details, of two trips, before discovery and before
\* a whole plan.
ReadinessRequests ==
    {[TripA({"readiness", "activities"}) EXCEPT !.topics = {"culture"}],
     [TripB({"readiness", "activities"}) EXCEPT !.topics = {"culture"}],
     [TripB({"readiness", "hotels", "budget", "itinerary"}) EXCEPT !.full = TRUE]}

AskSafety == {{"safety"}, {"culture"}}
NoTopics == {{}}
Followups == {{}, {"flights"}}

ReviewDecisions ==
    {[gate |-> "budget_review", action |-> "proceed", feedback |-> "none"],
     [gate |-> "budget_review", action |-> "adjust_target", feedback |-> "none"],
     [gate |-> "human_review", action |-> "approved", feedback |-> "none"],
     [gate |-> "human_review", action |-> "edited", feedback |-> "catalog"],
     [gate |-> "human_review", action |-> "edited", feedback |-> "canonical"],
     [gate |-> "human_review", action |-> "rejected", feedback |-> "catalog"],
     [gate |-> "legacy", action |-> "approved", feedback |-> "none"],
     [gate |-> "legacy", action |-> "rejected", feedback |-> "none"]}
LegacyApproval == {[gate |-> "legacy", action |-> "approved", feedback |-> "none"]}

\* "planning": both review gates and every decision; "readiness": the gates as
\* config.yaml sets them and messages that name topics.
Profiles ==
    [planning |->
        [requests |-> PlanningRequests, questions |-> NoTopics,
         targets |-> {"low", "high"}, picks |-> {"p", "q"}, llm |-> Followups,
         decisions |-> ReviewDecisions,
         reviews |-> {"budget_review", "human_review"}, turns |-> 2],
     readiness |->
        [requests |-> ReadinessRequests, questions |-> AskSafety,
         targets |-> {"low"}, picks |-> {"p"}, llm |-> Followups,
         decisions |-> LegacyApproval, reviews |-> {"budget_review"}, turns |-> 3]]
=============================================================================
