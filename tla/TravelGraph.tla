------------------------------ MODULE TravelGraph ------------------------------
(***************************************************************************)
(* The multi-agent travel graph of src/agent/stage4_graph.py on one thread *)
(* of the checkpointer: one action per node, each with the routing         *)
(* function that runs after it, and the calls of the API that start,       *)
(* resume or cut a run.                                                    *)
(*                                                                         *)
(* A node and its router are one step, as they are one superstep of        *)
(* LangGraph: the node's updates are saved together with the next node.    *)
(* The parallel specialists of one superstep are one step as well, since   *)
(* their updates are merged when the last of them has returned.            *)
(*                                                                         *)
(* workflow_status and hitl_action are read only by the router of the node *)
(* that has just written them, so they are arguments of the routers and    *)
(* not variables. What language models and providers return is a choice.   *)
(***************************************************************************)
EXTENDS Integers, Sequences, FiniteSets, FiniteSetsExt

CONSTANTS
    Profile,        \* by name: how a deployment is configured and a thread used
    Topics,         \* every readiness topic, "safety" among them
    None            \* an absent artefact, decision or fingerprint

Agents == {"flights", "hotels", "readiness", "restaurants", "activities",
           "transportation", "budget", "itinerary"}
Discoverers == {"flights", "restaurants", "activities"}
Components == Discoverers \cup {"hotels", "readiness", "readiness_preflight",
                                "draft_itinerary", "budget", "itinerary"}

\* Component statuses; the gates report the first of these that occurs.
StatusPriority ==
    <<"needs_user_input", "stale", "blocked_external", "no_inventory", "failed">>
Outcomes == {"completed", "needs_user_input", "failed"}
Statuses == {"absent", "completed"} \cup {StatusPriority[i] : i \in DOMAIN StatusPriority}

\* How a readiness run ends: a report with every critical topic covered, one
\* with a gap, a question to the traveller, or an exception ("failed").
ReadinessOutcomes == {"completed", "no_inventory", "needs_user_input", "failed"}
HasReport(outcome) == outcome \in {"completed", "no_inventory"}

AllRequests == UNION {Profile[p].requests : p \in DOMAIN Profile}
Trips == {r.trip : r \in AllRequests}
MaxStays == Max({r.stays : r \in AllRequests})
Gates == {"budget_review", "human_review"}

\* TripRequest, what readiness results are kept under, the skeleton of a trip.
TripRequest(targets) ==
    [trip : Trips, stays : Nat \ {0}, caps : SUBSET Agents, full : BOOLEAN,
     topics : SUBSET Topics, target : targets]
Fingerprints == [trip : Trips, topics : SUBSET Topics]
Skeletons == [trip : Trips, stays : 1..MaxStays]

\* requests: the canonical trip requests the conversation moves among;
\* questions: the readiness topics the words of a message can name;
\* targets, picks: the budget targets and the selections a draft can be;
\* llm: what the supervisor's model may route to by itself;
\* decisions: what a client may send to resume a run;
\* reviews: the gates for which is_hitl_enabled; turns: bound of chat messages.
ASSUME GraphAssumption ==
    /\ "safety" \in Topics
    /\ \A p \in DOMAIN Profile :
          /\ DOMAIN Profile[p] = {"requests", "questions", "targets", "picks", "llm",
                                 "decisions", "reviews", "turns"}
          /\ Profile[p].requests # {}
          /\ Profile[p].requests \subseteq TripRequest(Profile[p].targets)
          /\ Profile[p].questions \subseteq SUBSET Topics
          /\ Profile[p].llm \subseteq SUBSET Agents
          /\ Profile[p].reviews \subseteq Gates
          /\ Profile[p].turns \in Nat
    /\ IsFiniteSet(AllRequests)

\* Nothing that the state of a thread can hold is taken for what is absent.
ASSUME NoneAssumption ==
    /\ \A p \in DOMAIN Profile : None \notin TripRequest(Profile[p].targets)
    /\ None \notin Fingerprints /\ None \notin Skeletons
    /\ None \notin [trips : SUBSET Trips, safe : BOOLEAN]

VARIABLES
    profile,    \* the name of the deployment's configuration, which never changes
    node,       \* the node the checkpoint names next, "end" when there is none
    run,        \* "idle", "running", "interrupted" at a gate, or "cut" short
    answer,     \* the resume value no interrupt has consumed yet
    turns,      \* chat messages so far
    question,   \* the topics the words of the latest message name
    request,    \* trip_request, None before the first is understood
    revision,   \* request_revision
    pending,    \* pending_questions is not empty
    routing,    \* itinerary_components["routing"]
    accepted,   \* budget_adjustment_accepted
    feedback,   \* human_feedback: the revision it was given in, 0 when empty
    results,    \* component_results: status and the request it was found for
    stays,      \* hotel_search_results, by stay sequence
    kept,       \* the structured artefacts of itinerary_components
    edited      \* history: the draft whose change was last asked for this turn

trip == <<question, request, revision>>
data == <<results, stays, kept>>
vars == <<profile, node, run, answer, turns, trip, pending, routing, accepted,
          feedback, data, edited>>

Conf == Profile[profile]

Nodes == (Agents \ (Discoverers \cup {"hotels"})) \cup
         {"triage", "shallow_reply", "intake", "supervisor", "synthesize",
          "readiness_preflight", "safety_warning", "discovery",
          "component_gate", "trip_skeleton", "hotel_stay", "hotel_fan_in",
          "hotel_gate", "draft_itinerary", "budget_review", "human_review",
          "render_handbook"}

Fingerprint(topics) == [trip |-> request.trip, topics |-> topics]
Result(status, fingerprint) == [status |-> status, of |-> fingerprint]
Plain(status) == Result(status, Fingerprint({}))
Absent == Result("absent", None)

NoArtefacts == [preflight |-> None, readiness |-> None, skeleton |-> None,
                draft |-> None, route |-> None, budget |-> None,
                plan |-> None, handbook |-> None]

Init ==
    /\ profile \in DOMAIN Profile
    /\ node = "end" /\ run = "idle" /\ answer = None
    /\ turns = 0 /\ question = {}
    /\ request = None /\ revision = 0
    /\ pending = FALSE /\ routing = {} /\ accepted = FALSE /\ feedback = 0
    /\ results = [c \in Components |-> Absent]
    /\ stays = [i \in 1..MaxStays |-> None]
    /\ kept = NoArtefacts
    /\ edited = None

-----------------------------------------------------------------------------
(* The calls of the API.                                                    *)

At(n) == run = "running" /\ node = n

\* A node's superstep is saved: its router named n, its resume value is gone.
Goto(n) ==
    /\ node' = n
    /\ run' = IF n = "end" THEN "idle" ELSE "running"
    /\ answer' = None
    /\ turns' = turns

\* A new message restarts the graph at triage, whatever an earlier run left.
Chat ==
    /\ run # "running" /\ turns < Conf.turns
    /\ turns' = turns + 1
    /\ question' \in Conf.questions
    /\ node' = "triage" /\ run' = "running" /\ answer' = None /\ edited' = None
    /\ UNCHANGED <<request, revision, pending, routing, accepted, feedback, data>>

\* The API checks that the thread has messages and passes on any decision.
Resume ==
    /\ run \in {"interrupted", "cut"}
    /\ answer' \in Conf.decisions
    /\ run' = "running"
    /\ UNCHANGED <<node, turns, trip, pending, routing, accepted, feedback,
                   data, edited>>

\* The request times out, the process stops, or a node raises: the step that
\* was running is not saved.
Cut ==
    /\ run = "running"
    /\ run' = "cut" /\ answer' = None
    /\ UNCHANGED <<node, turns, trip, pending, routing, accepted, feedback,
                   data, edited>>

\* interrupt() in a gate that finds no resume value.
Interrupt ==
    /\ answer = None
    /\ run' = "interrupted" /\ answer' = None
    /\ UNCHANGED <<node, turns, trip, pending, routing, accepted, feedback,
                   data, edited>>

-----------------------------------------------------------------------------
(* The routers.                                                             *)

\* requested_topics and the two fingerprints readiness results are kept under.
RequestedTopics ==
    IF request.topics # {} THEN request.topics
    ELSE IF request.full THEN Topics ELSE question
SafetyFingerprint == Fingerprint(RequestedTopics \cup {"safety"})

CompletedFor(name, fingerprint) ==
    results[name].status = "completed" /\ results[name].of = fingerprint

SafetyRequired ==
    request.full \/ "safety" \in request.topics \cup question

NeedsSafetyPreflight(agents) ==
    /\ "readiness" \in agents /\ SafetyRequired
    /\ ~ \E name \in {"readiness_preflight", "readiness"} :
            CompletedFor(name, SafetyFingerprint)

\* Send() to the requested discovery specialists, or go on without them.
DiscoveryOr(next) == IF routing' \cap Discoverers # {} THEN "discovery" ELSE next

PlanOr(next) ==
    IF routing' \cap {"transportation", "itinerary"} # {} THEN "draft_itinerary"
    ELSE IF "budget" \in routing' THEN "budget" ELSE next

DependentStage ==
    IF routing' \cap {"hotels", "transportation", "itinerary"} # {}
    THEN "trip_skeleton" ELSE PlanOr("end")

HasData == \/ \E c \in Agents \cap Components : results[c] # Absent
           \/ kept.route # None

AfterTriage(route) ==
    IF route = "shallow" /\ ~pending THEN "shallow_reply" ELSE "intake"

AfterSupervisor ==
    IF routing' = {} THEN IF HasData THEN "synthesize" ELSE "end"
    ELSE IF NeedsSafetyPreflight(routing') THEN "readiness_preflight"
    ELSE IF "readiness" \in routing'
            /\ ~CompletedFor("readiness", Fingerprint(RequestedTopics))
         THEN "readiness"
    ELSE DiscoveryOr(DependentStage)

AfterPreflight ==
    IF results'["readiness_preflight"].status = "completed"
    THEN "safety_warning" ELSE "end"

\* The preflight component is there, so requested details are always researched.
AfterSafetyWarning ==
    IF results'["readiness_preflight"].status # "completed" THEN "end"
    ELSE IF request.full \/ request.topics \ {"safety"} # {} THEN "readiness"
    ELSE DiscoveryOr(DependentStage)

AfterReadiness ==
    IF results'["readiness"].status = "completed"
    THEN DiscoveryOr("component_gate") ELSE "component_gate"

AfterTripSkeleton ==
    IF "hotels" \in routing' THEN "hotel_stay" ELSE PlanOr("end")

AfterDraft ==
    IF results'["draft_itinerary"].status # "completed" THEN "end"
    ELSE IF "transportation" \in routing' THEN "transportation"
    ELSE IF "budget" \in routing' THEN "budget"
    ELSE IF "itinerary" \in routing' THEN "itinerary" ELSE "end"

AfterTransportation ==
    IF "budget" \in routing' THEN "budget"
    ELSE IF "itinerary" \in routing' THEN "itinerary" ELSE "end"

\* Mutant: every decision but a cancel computes the budget once more.
AfterBudgetReviewAgain(action) ==
    IF action = "cancel" THEN "end" ELSE "budget"

AfterBudgetReview(action) ==
    IF action = "adjust_target" THEN "budget"
    ELSE IF action # "cancel" /\ "itinerary" \in routing' THEN "itinerary"
    ELSE "end"

\* Mutant: a plan that did not compile goes to review as well.
AfterItineraryAlways == "human_review"

AfterItinerary ==
    IF results'["itinerary"].status = "completed" THEN "human_review" ELSE "end"

-----------------------------------------------------------------------------
(* Triage, intake and routing.                                              *)

Triage ==
    /\ At("triage")
    /\ \E route \in {"shallow", "deep"} : Goto(AfterTriage(route))
    /\ UNCHANGED <<trip, pending, routing, accepted, feedback, data, edited>>

\* shallow_reply_node and synthesize_node answer from what the thread holds.
Reply ==
    /\ At("shallow_reply") \/ At("synthesize")
    /\ Goto("end")
    /\ UNCHANGED <<trip, pending, routing, accepted, feedback, data, edited>>

\* The extraction fails: the request stays as it was.
IntakeFails ==
    /\ At("intake")
    /\ pending' = TRUE
    /\ Goto("end")
    /\ UNCHANGED <<trip, routing, accepted, feedback, data, edited>>

\* The message is merged into the request, which may still miss fields.
IntakeMerges ==
    /\ At("intake")
    /\ request' \in Conf.requests
    /\ revision' = revision + 1
    /\ pending' \in BOOLEAN
    /\ accepted' = FALSE
    /\ Goto(IF pending' THEN "end" ELSE "supervisor")
    /\ UNCHANGED <<question, routing, feedback, data, edited>>

\* The request's own capabilities win over what the model answers.
Supervisor ==
    /\ At("supervisor")
    /\ routing' \in IF request.caps # {} THEN {request.caps} ELSE Conf.llm
    /\ Goto(AfterSupervisor)
    /\ UNCHANGED <<trip, pending, accepted, feedback, data, edited>>

-----------------------------------------------------------------------------
(* Readiness. A report is described by the trips its sections were          *)
(* researched for and by whether its advisory evidence is complete.         *)

Report(trips, safe) == [trips |-> trips, safe |-> safe]

\* What a run that ended so leaves under one readiness key.
Readiness(key, artefact, outcome, fingerprint, report) ==
    /\ results' = [results EXCEPT ![key] =
           Result(outcome, IF outcome = "failed" THEN None ELSE fingerprint)]
    /\ kept' = [kept EXCEPT ![artefact] = IF HasReport(outcome) THEN report ELSE None]

ReadinessPreflight ==
    /\ At("readiness_preflight")
    /\ \E outcome \in ReadinessOutcomes :
          Readiness("readiness_preflight", "preflight", outcome, SafetyFingerprint,
                    Report({request.trip}, outcome = "completed"))
    /\ UNCHANGED routing
    /\ Goto(AfterPreflight)
    /\ UNCHANGED <<trip, pending, accepted, feedback, stays, edited>>

\* Exposes the preflight as the readiness result, or blocks: its fingerprint
\* is not that of the request, or its advisory is not officially verified.
SafetyWarning ==
    /\ At("safety_warning")
    /\ \E verified \in BOOLEAN :
          LET current == results["readiness_preflight"].of = SafetyFingerprint IN
          IF current /\ verified
          THEN /\ results' = [results EXCEPT !["readiness"] = results["readiness_preflight"]]
               /\ kept' = [kept EXCEPT !.readiness = kept.preflight]
          ELSE /\ results' = [results EXCEPT !["readiness_preflight"].status =
                                 IF current THEN "failed" ELSE "stale"]
               /\ UNCHANGED kept
    /\ UNCHANGED routing
    /\ Goto(AfterSafetyWarning)
    /\ UNCHANGED <<trip, pending, accepted, feedback, stays, edited>>

\* run_details rejects a preflight report of another request.
PreflightIsStale == results["readiness_preflight"].of # SafetyFingerprint

\* run_details asks for a missing passport, rejects a stale preflight, has no
\* details to search for when only safety is asked about, or researches them.
DetailOutcomes ==
    IF PreflightIsStale THEN {"needs_user_input", "stale"}
    ELSE IF RequestedTopics \subseteq {"safety"} THEN {"completed"}
    ELSE ReadinessOutcomes

\* readiness_node adds details to any preflight report the thread holds.
ResearchDetails ==
    /\ At("readiness") /\ kept.preflight # None
    /\ \E outcome \in DetailOutcomes :
          Readiness("readiness", "readiness", outcome, SafetyFingerprint,
                    Report(kept.preflight.trips \cup {request.trip}, kept.preflight.safe))
    /\ UNCHANGED routing
    /\ Goto(AfterReadiness)
    /\ UNCHANGED <<trip, pending, accepted, feedback, stays, edited>>

\* Without a preflight report it researches the requested topics themselves.
ResearchTopics ==
    /\ At("readiness") /\ kept.preflight = None
    /\ \E outcome \in ReadinessOutcomes :
          Readiness("readiness", "readiness", outcome, Fingerprint(RequestedTopics),
                    Report({request.trip},
                           outcome = "completed" /\ "safety" \in RequestedTopics))
    /\ UNCHANGED routing
    /\ Goto(AfterReadiness)
    /\ UNCHANGED <<trip, pending, accepted, feedback, stays, edited>>

-----------------------------------------------------------------------------
(* Discovery, the gates, the skeleton and the hotels of its stays.          *)

Discovery ==
    /\ At("discovery")
    /\ \E outcome \in [routing \cap Discoverers -> Outcomes] :
          results' = [c \in Components |->
              IF c \in DOMAIN outcome THEN Plain(outcome[c]) ELSE results[c]]
    /\ Goto("component_gate")
    /\ UNCHANGED <<trip, pending, routing, accepted, feedback, stays, kept, edited>>

\* Mutant: only a missing outcome blocks, not an unsuccessful one.
BlockedIfMissing(eligible) ==
    {c \in routing \cap eligible : results[c] = Absent}

Blocked(eligible) ==
    {c \in routing \cap eligible : results[c].status # "completed"}

\* component_gate_node with its eligible components, and the router after it.
Gate(eligible, next) ==
    /\ UNCHANGED routing
    /\ IF Blocked(eligible) = {}
       THEN UNCHANGED pending /\ Goto(next)
       ELSE /\ pending' = \E c \in Blocked(eligible) :
                             results[c].status = "needs_user_input"
            /\ Goto("end")
    /\ UNCHANGED <<trip, accepted, feedback, data, edited>>

ComponentGate ==
    At("component_gate") /\ Gate(Discoverers \cup {"readiness"}, DependentStage)

HotelGate == At("hotel_gate") /\ Gate({"hotels"}, PlanOr("end"))

\* The skeleton keeps the exact dates and the city stays of the request; no
\* usable dates or no matching flight is a failure that ends the turn.
TripSkeleton ==
    /\ At("trip_skeleton")
    /\ UNCHANGED routing
    /\ \/ /\ kept' = [kept EXCEPT !.skeleton =
                         [trip |-> request.trip, stays |-> request.stays]]
          /\ Goto(AfterTripSkeleton)
       \/ UNCHANGED kept /\ Goto("end")
    /\ UNCHANGED <<trip, pending, accepted, feedback, results, stays, edited>>

\* One search per stay of the skeleton; the reducer keeps the other keys.
HotelStay ==
    /\ At("hotel_stay")
    /\ \E outcome \in [1..kept.skeleton.stays -> Outcomes] :
          stays' = [i \in 1..MaxStays |->
              IF i \in DOMAIN outcome
              THEN [trip |-> kept.skeleton.trip, status |-> outcome[i]]
              ELSE stays[i]]
    /\ Goto("hotel_fan_in")
    /\ UNCHANGED <<trip, pending, routing, accepted, feedback, results, kept, edited>>

FirstOf(statuses) ==
    LET found == {i \in DOMAIN StatusPriority : StatusPriority[i] \in statuses}
    IN  IF found = {} THEN "failed" ELSE StatusPriority[Min(found)]

HotelFanIn ==
    /\ At("hotel_fan_in")
    /\ LET searches == {i \in 1..MaxStays : stays[i] # None}
           statuses == {stays[i].status : i \in searches}
       IN  results' = [results EXCEPT !["hotels"] =
               Plain(IF statuses = {"completed"} THEN "completed" ELSE FirstOf(statuses))]
    /\ Goto("hotel_gate")
    /\ UNCHANGED <<trip, pending, routing, accepted, feedback, stays, kept, edited>>

-----------------------------------------------------------------------------
(* The draft, its route, its budget and the plan.                           *)

\* Mutant: a new draft always counts as a change.
NeverSameSelection(draft, prior) == FALSE

\* The selector's signature of a draft: its rates, stops and modes.
SameSelection(draft, prior) == draft = prior

DraftFails ==
    /\ At("draft_itinerary")
    /\ results' = [results EXCEPT !["draft_itinerary"] = Plain("failed")]
    /\ kept' = [kept EXCEPT !.draft = None]
    /\ Goto("end")
    /\ UNCHANGED <<trip, pending, routing, accepted, feedback, stays, edited>>

\* A requested edit that changes nothing goes back to the traveller.
DraftUnmet ==
    /\ At("draft_itinerary")
    /\ feedback # 0 /\ kept.draft # None
    /\ \E pick \in Conf.picks :
          SameSelection([trip |-> kept.skeleton.trip, pick |-> pick], kept.draft)
    /\ results' = [results EXCEPT !["draft_itinerary"] = Plain("needs_user_input")]
    /\ pending' = TRUE
    /\ Goto("end")
    /\ UNCHANGED <<trip, routing, accepted, feedback, stays, kept, edited>>

DraftItinerary ==
    /\ At("draft_itinerary")
    /\ UNCHANGED routing
    /\ \E pick \in Conf.picks :
          LET draft == [trip |-> kept.skeleton.trip, pick |-> pick] IN
          /\ ~ (feedback # 0 /\ kept.draft # None /\ SameSelection(draft, kept.draft))
          /\ kept' = [kept EXCEPT !.draft = draft]
    /\ results' = [results EXCEPT !["draft_itinerary"] = Plain("completed")]
    /\ feedback' = 0
    /\ Goto(AfterDraft)
    /\ UNCHANGED <<trip, pending, accepted, stays, edited>>

\* Every day of the draft is routed; a failed day is a warning of the plan.
Transportation ==
    /\ At("transportation")
    /\ kept' = [kept EXCEPT !.route = kept.draft]
    /\ UNCHANGED routing
    /\ Goto(AfterTransportation)
    /\ UNCHANGED <<trip, pending, accepted, feedback, results, stays, edited>>

\* A failed run stores null under budget_structured, and reading the stored
\* rates of null raises before the pipeline is called.
StoredBudgetIsNull == results["budget"].status = "failed"

BudgetRaises ==
    /\ At("budget") /\ StoredBudgetIsNull
    /\ run' = "cut" /\ answer' = None
    /\ UNCHANGED <<node, turns, trip, pending, routing, accepted, feedback,
                   data, edited>>

\* "over": the report is reliable and exceeds the target by the threshold.
Budget ==
    /\ At("budget") /\ ~StoredBudgetIsNull
    /\ \/ /\ \E over \in BOOLEAN :
                kept' = [kept EXCEPT !.budget =
                    [trip |-> request.trip, draft |-> kept.draft,
                     target |-> request.target, over |-> over]]
          /\ results' = [results EXCEPT !["budget"] = Plain("completed")]
          /\ accepted' = FALSE
       \/ /\ kept' = [kept EXCEPT !.budget = None]
          /\ results' = [results EXCEPT !["budget"] = Plain("failed")]
          /\ UNCHANGED accepted
    /\ Goto("budget_review")
    /\ UNCHANGED <<trip, pending, routing, feedback, stays, edited>>

\* compute_artifact_fingerprint: everything a plan is compiled from.
CurrentPlan ==
    [request |-> request, revision |-> revision, skeleton |-> kept.skeleton,
     draft |-> kept.draft, route |-> kept.route, budget |-> kept.budget,
     readiness |-> IF kept.readiness # None THEN kept.readiness ELSE kept.preflight]

\* A route plan may only order the stops of the draft.
RouteFits == kept.route # None => kept.route.pick = kept.draft.pick

ItineraryCompiles ==
    /\ At("itinerary") /\ RouteFits
    /\ kept' = [kept EXCEPT !.plan = CurrentPlan]
    /\ results' = [results EXCEPT !["itinerary"] = Plain("completed")]
    /\ Goto(AfterItinerary)
    /\ UNCHANGED <<trip, pending, routing, accepted, feedback, stays, edited>>

ItineraryFails ==
    /\ At("itinerary")
    /\ kept' = [kept EXCEPT !.plan = None]
    /\ results' = [results EXCEPT !["itinerary"] = Plain("failed")]
    /\ Goto(AfterItinerary)
    /\ UNCHANGED <<trip, pending, routing, accepted, feedback, stays, edited>>

-----------------------------------------------------------------------------
(* The two review gates and the handbook.                                   *)

\* A decision meant for the other gate is not a valid budget decision.
BudgetAction(decision) ==
    IF decision.gate = "human_review" THEN "cancel"
    ELSE IF decision.gate = "budget_review" THEN decision.action
    ELSE IF decision.action = "approved" THEN "proceed" ELSE "cancel"

\* _normalize_hitl_decision reads the action and not the gate it is for.
ApprovesPlan(decision) == decision.action \in {"approved", "edited", "proceed"}

NeedsBudgetReview ==
    /\ "budget_review" \in Conf.reviews /\ kept.budget # None
    /\ kept.budget.over /\ ~accepted

BudgetReviewPasses ==
    /\ At("budget_review") /\ ~NeedsBudgetReview
    /\ UNCHANGED routing
    /\ Goto(AfterBudgetReview("proceed"))
    /\ UNCHANGED <<trip, pending, accepted, feedback, data, edited>>

BudgetReviewWaits == At("budget_review") /\ NeedsBudgetReview /\ Interrupt

BudgetReviewDecides ==
    /\ At("budget_review") /\ NeedsBudgetReview /\ answer # None
    /\ UNCHANGED routing
    /\ LET action == BudgetAction(answer) IN
          /\ accepted' = (action = "proceed")
          /\ IF action = "adjust_target"
             THEN \E target \in Conf.targets : request' = [request EXCEPT !.target = target]
             ELSE UNCHANGED request
          /\ Goto(AfterBudgetReview(action))
    /\ UNCHANGED <<question, revision, pending, feedback, data, edited>>

\* is_hitl_enabled("human_review")
ReviewPlan == "human_review" \in Conf.reviews

HumanReviewPasses ==
    /\ At("human_review") /\ ~ReviewPlan
    /\ Goto("render_handbook")
    /\ UNCHANGED <<trip, pending, routing, accepted, feedback, data, edited>>

HumanReviewWaits == At("human_review") /\ ReviewPlan /\ Interrupt

\* human_feedback keeps what the decision says; 0 stands for the empty string.
Noted(decision) == IF decision.feedback = "none" THEN 0 ELSE revision

Rejected ==
    /\ At("human_review") /\ ReviewPlan /\ answer # None
    /\ ~ApprovesPlan(answer)
    /\ feedback' = Noted(answer)
    /\ Goto("end")
    /\ UNCHANGED <<trip, pending, routing, accepted, data, edited>>

\* The edit would change a canonical input of the trip.
NeedsClarification ==
    /\ At("human_review") /\ ReviewPlan /\ answer # None
    /\ ApprovesPlan(answer) /\ answer.feedback = "canonical"
    /\ feedback' = Noted(answer) /\ pending' = TRUE
    /\ Goto("end")
    /\ UNCHANGED <<trip, routing, accepted, data, edited>>

\* The edit is of the selection: draft, route, budget and plan are done again.
Edited ==
    /\ At("human_review") /\ ReviewPlan /\ answer # None
    /\ ApprovesPlan(answer) /\ answer.feedback = "catalog"
    /\ feedback' = Noted(answer)
    /\ routing' = routing \cup {"transportation", "budget", "itinerary"}
    /\ edited' = kept.draft
    /\ Goto("draft_itinerary")
    /\ UNCHANGED <<trip, pending, accepted, data>>

Approved ==
    /\ At("human_review") /\ ReviewPlan /\ answer # None
    /\ ApprovesPlan(answer) /\ answer.feedback = "none"
    /\ Goto("render_handbook")
    /\ UNCHANGED <<trip, pending, routing, accepted, feedback, data, edited>>

\* The handbook is written from the plan, unless there is none, its sources
\* have changed since, or the files cannot be written.
RenderHandbook ==
    /\ At("render_handbook")
    /\ \E written \in BOOLEAN :
          kept' = [kept EXCEPT !.handbook =
              IF kept.plan = CurrentPlan /\ written THEN kept.plan ELSE None]
    /\ results' = [results EXCEPT !["itinerary"] =
           IF kept.plan \in {None, CurrentPlan} THEN @ ELSE Plain("stale")]
    /\ Goto("end")
    /\ UNCHANGED <<trip, pending, routing, accepted, feedback, stays, edited>>

-----------------------------------------------------------------------------

NodeStep ==
    \/ Triage \/ Reply \/ IntakeFails \/ IntakeMerges \/ Supervisor
    \/ ReadinessPreflight \/ SafetyWarning \/ ResearchDetails \/ ResearchTopics
    \/ Discovery \/ ComponentGate \/ TripSkeleton
    \/ HotelStay \/ HotelFanIn \/ HotelGate
    \/ DraftFails \/ DraftUnmet \/ DraftItinerary \/ Transportation
    \/ BudgetRaises \/ Budget
    \/ BudgetReviewPasses \/ BudgetReviewWaits \/ BudgetReviewDecides
    \/ ItineraryCompiles \/ ItineraryFails
    \/ HumanReviewPasses \/ HumanReviewWaits
    \/ Rejected \/ NeedsClarification \/ Edited \/ Approved
    \/ RenderHandbook

Next == (Chat \/ Resume \/ Cut \/ NodeStep) /\ UNCHANGED profile

Spec == Init /\ [][Next]_vars

\* A node that can run does: the event loop schedules it, and a call it waits
\* for answers or times out. Nobody has to send or resume anything.
FairSpec == Spec /\ WF_vars(NodeStep /\ UNCHANGED profile)

-----------------------------------------------------------------------------
(* Properties.                                                              *)

FingerprintOf == Fingerprints \cup {None}
Drafts == [trip : Trips, pick : Conf.picks]
Reports == [trips : SUBSET Trips, safe : BOOLEAN] \cup {None}

\* The state of the thread has the shape the nodes read it in; an interrupted
\* run is at a gate and only a running one holds a resume value.
TypeOK ==
    /\ node \in Nodes \cup {"end"}
    /\ run \in {"idle", "running", "interrupted", "cut"}
    /\ run = "idle" <=> node = "end"
    /\ run = "interrupted" => node \in Gates
    /\ profile \in DOMAIN Profile
    /\ answer \in Conf.decisions \cup {None} /\ (answer # None => run = "running")
    /\ turns \in 0..Conf.turns /\ revision \in 0..turns /\ feedback \in 0..revision
    /\ question \in Conf.questions \cup {{}}
    /\ request = None \/ request.trip \in Trips
    /\ pending \in BOOLEAN /\ accepted \in BOOLEAN
    /\ routing \subseteq Agents
    /\ DOMAIN results = Components
    /\ \A c \in Components : results[c].status \in Statuses /\ results[c].of \in FingerprintOf
    /\ \A i \in 1..MaxStays :
          stays[i] = None \/ stays[i] \in [trip : Trips, status : Outcomes]
    /\ DOMAIN kept = DOMAIN NoArtefacts
    /\ kept.preflight \in Reports /\ kept.readiness \in Reports
    /\ kept.skeleton \in Skeletons \cup {None}
    /\ kept.draft \in Drafts \cup {None} /\ kept.route \in Drafts \cup {None}
    /\ edited \in Drafts \cup {None}

\* The handbook node always finds a plan compiled from the artefacts and the
\* request of this moment: its missing-plan and stale branches are never
\* taken, whatever was cut, resumed, edited or adjusted on the way.
RenderFindsCurrentPlan == node = "render_handbook" => kept.plan = CurrentPlan

\* A selection starts only from a skeleton of the current trip and when every
\* requested search of the current trip completed (BR-INT-003's prerequisites
\* and the completion gates); no result of an earlier request stands in.
PlanningIsGated ==
    node = "draft_itinerary" =>
        /\ kept.skeleton # None /\ kept.skeleton.trip = request.trip
        /\ \A c \in routing \cap (Discoverers \cup {"hotels", "readiness"}) :
              results[c].status = "completed" /\ results[c].of.trip = request.trip

\* Once the traveller asked for a change of a draft, no handbook of this turn
\* is rendered from that same draft: "never claim unperformed changes".
EditIsPerformed ==
    node = "render_handbook" /\ edited # None => kept.draft # edited

\* The specialists that search in parallel are constrained by a readiness
\* report that was researched for the current trip alone.
ConstraintsAreThisTrip ==
    node = "discovery" /\ "readiness" \in routing =>
        kept.readiness # None /\ kept.readiness.trips = {request.trip}

\* A run that is going on ends, waits for a decision or is cut: the loops of
\* the graph (adjusted targets, edited drafts) all pass through a decision.
TurnEnds == run = "running" ~> run # "running"

\* Work of every stage is for the present trip: what is searched is constrained
\* by its readiness, and what is selected by its completed searches.
StagesAreGated == TypeOK /\ PlanningIsGated /\ ConstraintsAreThisTrip

=============================================================================
