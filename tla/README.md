# Wanderlisted: TLA+ models, checks and proofs

Wanderlisted is a multi-agent travel planner: a FastAPI service runs a LangGraph
graph of language-model agents on a conversation, keeps each conversation in a
checkpoint store, and lists conversations in a session registry shared by guests
and signed-in accounts. A web frontend streams the conversation; a harness beside
the service (`src/edd/`) scores the agents. This directory holds TLA+ modules
translated from the source, the TLC configurations that check them and the TLAPS
proofs about them.

Contents: [system](#1-the-system) · [modules](#2-modules-and-how-they-correspond-to-the-code) ·
[runs](#3-what-is-checked) · [fairness](#4-fairness-and-deadlock) ·
[proofs](#5-what-is-proved) · [divergences](#6-where-the-code-and-the-documents-disagree) ·
[not modelled](#7-what-is-not-modelled) · [plan](#8-plan)

Paths in this file are relative to `src/src/`, unless they begin with `edd/`,
`docs/`, `frontend/` or `infra/`, which are relative to `src/`.

## 1. The system

### 1.1 Components

| Component | Source | State | Operations |
|---|---|---|---|
| session registry | `api/session_registry.py`, `api/auth.py` | one record per checkpoint thread: public session id, browser, account, message count, last update | register a turn, find, list, claim, delete one, delete an account, purge inactive |
| session lifecycle API | `api/main.py`, `api/checkpointing.py` | what each request holds between two awaits | chat, stream, resume, delete, `user.deleted` webhook, purge at startup |
| account authentication | `api/clerk_auth.py` | signing keys, expiry, lock | validate a token, refresh the keys |
| rate limiter | `api/rate_limit.py` | a window per principal, in memory or in Redis | check, expire |
| web frontend | `frontend/src/stores/chat-store.ts`, `lib/api/stream.ts`, workspace components | the chat store of one tab, the streams it reads | send, stop, clear, open, delete, decide, reload |
| travel graph | `agent/stage4_graph.py`, `agent/state.py`, `agent/nodes/` | the checkpointed state of a thread: request, routing, component results, artefacts, the node that runs next | one per node with its router; two review gates; message, resume |
| request policy | `agent/policies/`, `models/trip_request.py`, `agent/nodes/intake.py` | the canonical trip request, the open offer, a stored decision | merge a patch, offer and apply a service scope, list missing fields |
| readiness pipeline | `readiness/`, `tools/tavily.py` | saved preflight and its fingerprint in the graph state; cached answers of the search transport | preflight, details, focused research |
| specialist agents and tools | `agent/agents/`, `tools/`, `agent/policies/component_outcomes.py` | none kept between calls; semaphores while they run | searches, retries, classification of the outcome |
| model concurrency | `agent/concurrency.py` | one semaphore per model tier | acquire, release |
| trip skeleton | `models/trip_skeleton.py`, `agent/nodes/trip_skeleton.py` | none: city stays | allocate nights |
| itinerary pipeline | `itinerary/` | none: draft, routes, plan and fingerprint in the graph state | catalogue, select, route, compile, verify before rendering |
| budget pipeline | `budget/`, `models/budget.py`, `models/pricing.py` | exchange rates of the process; evidence and rates in the graph state | collect, estimate, convert, total, compare |
| browser identity, webhooks | `api/auth.py`, `api/clerk_webhooks.py` | none | check a cookie's or a webhook's signature |
| evaluation harness | `edd/` | trajectory cache, preserved runs, reports, offline manifests and their index, all files | capture, score (four layers), preserve, record, compare; create and verify offline baselines |
| handbook, prompts, localization, earlier stages, online evaluators, operations | `agent/renderer.py`, `agent/prompts/`, `evaluation/`, `infra/` | files written | text, deployment |

### 1.2 How they interact

A chat request passes the rate limiter, resolves its public session id to a
checkpoint thread through the registry, registers the turn, runs the graph on
the thread and registers the turn again with the new message count. The graph
saves a checkpoint after every superstep. Registry and checkpoint store are two
stores without a common transaction; there is no lock per thread, and
`infra/main.bicep` allows three replicas, so any two handlers may interleave at
any await. A purge runs on every replica's start.

Within a thread the graph restarts at `triage` with each message, but its state
survives: component results, artefacts, feedback and a budget of an earlier
request are still there when the next one is planned, and a run may stop at any
node by a timeout (`asyncio.wait_for`), a cancelled stream or the end of the
process. Two gates (`budget_review`, `human_review`) suspend a run with
`interrupt()` until `/chat/resume` supplies a decision; `config.yaml` switches
the first on and the second off.

The nodes hand one another artefacts: intake the request, readiness its report,
the specialists their offers and places, the skeleton the nights, the selection
a draft, transportation the routes, the budget its evidence and rates, the
compiler a plan. Readiness searches, provider searches and exchange rates are
gathered side by side behind semaphores and retries; the rates are shared by
every conversation of a process.

A browser tab reads the stream of a turn, the snapshot of a conversation, the
answers to decisions and to deletions, each with callbacks that act on one store.
The harness runs the agents outside the service; its processes share files only.

### 1.3 What is hard, and what correct means

`PROJECT.json` lists the hazards at the lines where they bite. By component:

* **Registry and lifecycle.** A handler acts on a record it read minutes ago.
  Correct: a thread's browser and session never change; its account is set once;
  a checkpoint without a record arises only from a race with a deletion or from a
  purge cut short; a listed message count is backed by stored messages.
* **Signing-key cache.** A token with an unknown key empties the cache that
  other requests are reading. Correct: a key the provider publishes all along is
  never "unknown"; a failed refresh leaves the lock free and every waiter answered.
* **Rate limiter.** Windows begin with a request and end in different ways in the two
  backends. Correct: a burst over the border of two windows stays below twice the
  limit; nobody is refused but for requests that were admitted, or by a table
  that others really fill.
* **Frontend.** A callback acts on a store that may show another conversation by
  now. Correct: everything on the screen is of one conversation, the composer follows
  the one turn whose connection is open, and it is never locked for good.
* **Travel graph.** Old results and artefacts stand beside new ones. Correct:
  work starts only on completed results of the current trip; the plan that is
  rendered is the one its sources make now; a requested change is performed
  or refused; both loops of the graph end.
* **Request policy.** A decision about services is late, repeated, from another
  tab or left over. Correct: only services that were agreed to are planned; no
  position of the traveller is forgotten; a stored request can always go on.
* **Readiness.** Sources are numbered, merged and renumbered while claims refer to
  them, and the budget of searches cuts the plan. Correct: what is said to be
  covered was found, for that destination and topic and officially where it is
  critical; safety comes first; an advisory is of this trip.
* **Specialists.** A component's outcome is read from markers in texts of several
  calls, some of which fail. Correct: it is complete only if every part of the task
  found something, and blocked only if a provider failed; the offers of a
  flexible search are the best of what was made.
* **Skeleton and itinerary.** Nights with a remainder and a reserved one, dates of
  different age, opening hours over midnight, legs that were not measured, places and
  rates of earlier trips. Correct: every night is booked once in its city, the day
  can be kept up with, and the plan is the trip that was asked for.
* **Budget.** Evidence and rates outlive the budget they were collected for.
  Correct: nothing counts twice, what is chosen counts at its present price, each rate is
  fresh, and a verdict is given only on complete figures. That nothing else counts does not
  hold (section 6).
* **Evaluation harness.** Fingerprints are computed anew from files that are edited
  meanwhile, and processes race for one name. Correct: what is kept and reported is
  what was scored, by the code it is kept under; nothing preserved changes; verdicts
  do not depend on the order in which answers are shown.

## 2. Modules and how they correspond to the code

`PROJECT.json` maps every definition to the lines it translates. Each property is a
named conjunction of parts where it has several; the parts stand beside it.

| Modules | Model | Extends or composes |
|---|---|---|
| `SessionRegistry`, `SessionLifecycle`, `MCSessionLifecycle` | registry records; the handlers over registry and checkpoint store | implements `SessionOwnership` |
| `SessionOwnership` | abstract: who a conversation belongs to | |
| `JwksCache` | the signing-key cache | |
| `RateLimiter`, `MCRateLimiter` | both rate limiters | |
| `ChatStore` | one browser tab and the streams it reads | |
| `TravelGraph`, `MCTravelGraph` | the graph on one thread, with API calls, resumes and cuts | takes the outcomes of all pipelines as choices |
| `RequestPolicy`, `MCRequestPolicy` | the request agreed on over several messages | |
| `EvidenceSearch` | the search transport with cache, permits and retries | |
| `ReadinessRun`, `MCReadinessRun` | the readiness pipeline | extends `EvidenceSearch` and `Ranks` |
| `DatePairs` | the departures a flexible flight search asks for | |
| `Ranks` | sorting: the elements of a set in an order given by its pairs | |
| `ProviderCalls` | the tools and their requests | extends `DatePairs` and `Ranks` |
| `Specialists`, `MCSpecialists` | a discovery stage: models, tools, outcome | extends `ProviderCalls` |
| `CityStays` | the allocation of nights | |
| `DaySchedule` | one day on the clock | |
| `TripPlan`, `MCTripPlan` | from a request to a plan, over several requests | extends `CityStays` (and implements its specification) and `DaySchedule` |
| `TripBudget`, `MCTripBudget` | budgets of several conversations and their rates | extends `Ranks` |
| `Decisions`, `Judging` | outcomes and checks of decisions; judges, tournament, calibration | `Decisions` extends `Ranks`, `Judging` extends `Decisions` |
| `EvaluationRun` | processes that score a component | extends `Judging` |
| `OfflineBaselines` | processes that create an offline baseline | |
| `EvaluationHarness` | either the one or the other | composes `EvaluationRun` and `OfflineBaselines` |
| `MCEvaluation` | a small instance | extends `EvaluationHarness` |
| `SessionLifecycleProofs`, `ChatStoreProofs`, `EvaluationProofs` | theorems | each extends its model |
| `RequestProofs` | theorems about `RequestPolicy` and `ReadinessRun` | extends both, whose definitions therefore have different names |
| `EdgeProofs` | theorems about `JwksCache` and `RateLimiter` | extends both, whose definitions therefore have different names |
| `AgentProofs` | theorems about `TravelGraph` and `Specialists` | extends both, whose definitions therefore have different names |
| `TripPlanProofs` | theorems about `TripPlan`, with `CityStays` and `DaySchedule`, and about `TripBudget` | extends both, whose definitions therefore have different names |
| `Sums` | lemmas on the sums that the limiter, the days and the budget take, on the least of a set, on lists, and on what `Ranks` sorts | |

### SessionRegistry, SessionLifecycle

`records[t]` is the row of thread `t`, a pair of browser and session id as
`private_thread_id` hashes it. `older[t]` is the set of threads last written
before `t`: `updated_at` is kept as an order, which is all `find_accessible`
reads of it. The operations are those of the PostgreSQL registry, each one
statement and so atomic; the memory registry does the same under its lock. The
title, locale and creation time are left out. `RetentionElapses` makes saved
records inactive; a purge takes the inactive ones.

`messages[t]` is the length of the conversation in `t`'s latest checkpoint.
`req[r]` is a handler with its program counter and the values it holds across
awaits: the resolved thread, owner and count. One action is the code between two
awaits. `LoadGraph` and `SaveStep` are the graph as the two stores see it: it
loads the conversation once and saves its own copy, one message longer, so
two runs on one thread overwrite each other. `Abandon` ends a handler at any
await: timeout, exception, cancelled request or end of the process.

`disturbed[t]` is a history variable: how badly the handlers of `t` got in each
other's way since `t` was last gone. It is written by every action (`Observe`)
and read by properties only.

### JwksCache

`keys` and `fresh` are `_keys` and the test of `_expires_at`; `published` is what
the provider publishes. A request goes through `validate_token`: look up, refresh
under the lock, look up, force one more refresh by emptying the cache, look up.
`asyncio.Lock` wakes its waiters in order; the model lets any of them take a free
lock, which allows more. A newcomer takes it at once only when nobody waits, as in
`asyncio.Lock`. An HTTP response is taken (`Answer`) at one
moment and stored later, so it may be older than a rotation.
`steady[r]` is a history variable: `r`'s key has been published ever since `r` began.

### RateLimiter

`windows[p]` is the entry of principal `p`: `_windows` of the memory limiter or the key
in Redis. A check is one step with either, because the memory limiter awaits nothing
while it holds its lock and Redis runs its script atomically. `started` is
kept as an age in ticks, so that time needs no bound; an age beyond the window and
counts beyond the limit are not told apart. An entry of the memory limiter that
expired stays until the next check pops it; one of Redis may stay in the model too, where nothing
reads it. `RedisFails` is an exception of the client, with
or without the script having run; the handler answers 503. `Restart` is that of the
process with the memory limiter and that of Redis, which is deployed without a
disk (`infra/`). `charged` is a history variable: the requests that used up some of the
limit, by how many ticks ago; a restart begins it anew, since the code promises
nothing across one. Which answer was given is `verdict`, for the properties.

### ChatStore

One action per callback or action of the store: the composer (`Send`, `Stop`,
`Clear`), the history panel (`Open`, `Restore`, `Delete`, `DeleteAnswers`), the gate
card (`Submit`, `ResumeAnswers`), the callbacks of `streamChat` (`OnSession`, `OnToken`,
`OnInterrupt`, `OnError`, `OnDone`) and `Reload`. The server is `Run`, `EndRun`, `LeftSaves`,
`LeftEnds`, `LeftCancelled` and `Gone`: `Endings` are the sequences of events that
`_event_generator` sends. Text, results and gates are represented by the conversation they
belong to. A slot of `stream` is one request. Stop, Clear and Reload end only the client's side
of it (`Abandoned`): the tab reads no more, but the server goes on with the graph, may save and even
end the turn (`LeftSaves`, `LeftEnds`), and cancels it when it notices that the connection is closed
(`LeftCancelled`). The slot is busy until then, so a second turn of the same tab
may run beside the first on one thread.

`loose`, `mixed` and `crossed` are history variables: which calls were made for a view
the tab has left, whether one was applied to the present view, and whether a stream was
left behind by another view or message. The store compares neither conversations nor
requests, so such calls do mix two conversations (section 6); the
properties say that nothing else does.

### TravelGraph

One action per node, with the router that follows it: LangGraph saves a node's
updates and the next node in one superstep. The parallel specialists of a
superstep are one action (`Discovery`), and so are the parallel searches of city
stays (`HotelStay`), because their updates are merged when the last has returned.
What models and providers return is a choice in each action; the modules below model
how it comes about.

| Variable | Code |
|---|---|
| `profile` | the deployment's configuration and clients, which never change |
| `node`, `run`, `answer` | the checkpoint's next node; whether a request is running the graph; the resume value of `Command(resume=...)` |
| `question`, `request`, `revision` | the latest message, `trip_request`, `request_revision` |
| `pending`, `routing`, `accepted`, `feedback` | `pending_questions`, `itinerary_components["routing"]`, `budget_adjustment_accepted`, `human_feedback` |
| `results` | `component_results`: status and what it was found for |
| `stays` | `hotel_search_results` by `stay-N` |
| `kept` | the structured artefacts of `itinerary_components` |
| `edited` | history: the draft a change was asked for |

Abstractions. A trip request is a record of a small set: which trip it is
(destination and dates together), the number of stays, the capabilities, the
scope, the readiness topics, the target. `results[c].of` is in the code only for
readiness (`request_fingerprint`); for the other components it is there for
the properties, and no guard reads it. Fingerprints are the records they hash.
`blocked_external` and `no_inventory` are not chosen for specialists,
since every test of a specialist's status treats them as it does `failed`;
they stay in `StatusPriority`. `partial` plans are `completed`: the router
treats them alike. `workflow_status` and `hitl_action` are read only by the
router of the node that wrote them and are arguments of the routers.
Two turns at once on one thread are the subject of `SessionLifecycle`; here a
message comes when no run is going on.

### RequestPolicy

`request` is the canonical `TripRequest` with the fields that decide what is planned;
`Promoted` is its validator, which runs whenever the model is built, also on what a
checkpoint holds. `Merged` is `merge_trip_request`, `Offer` and `Accepts` the service
offer with its fingerprint, `Missing` the required fields, `Intake` the node. A patch is
what the extraction model may return for a message, from `Patches`. The tabs show the offer
of the last answer they received (`card`), may decide on it late, repeat a decision (`sent`)
or decide in words. `agreed` and `refused` are history variables: what the
traveller asked for or accepted *as it was shown*, and what he refused since.

### EvidenceSearch, ReadinessRun

`calls` are the searches of one gather in `tools/tavily.py`: each looks in the cache,
waits for a permit, posts, and sleeps before another attempt. `cache` keeps the age of an
answer in ticks. `ReadinessRun` adds the pipeline: `Plan` (research within the query
budget), `Retrieved` (pages numbered as sources, one source for a page that several searches
found), `Grounded` (what may be left of the fields the model writes, whatever it writes and
cites), `Assemble` (saved preflight and new details as one report), `Coverage` and
`Outcome`. A field of a report is the set of sources it cites: the pipeline keeps a
value only with a source. The model writes from `FieldNames` and cites at most `MaxCited` sources
for each. A request has the country the traveller starts from (`origin`) beside the passport's: the
first decides which authority's advisory is searched (`AdvisoryDomains`), the second is in
the fingerprint (`FingerprintOf`). `result` keeps the searches behind the last report, for the properties.

### DatePairs, ProviderCalls, Specialists

`DatePairs` is `_generate_round_trip_date_pairs` with Python's rounding. A tool call is a
sequence of requests to `duffel`, `hotelbeds`, `rates` (the second Hotelbeds tool) or `maps`,
each of which is posted (behind `_duffel_semaphore` for Duffel), answered, refused, lost
or tried again as its decorator says (`Retried`, `Attempts`). `Uncaught` are the exceptions no
`except` clause of the tool catches. Of the text a tool returns only what
`classify_component_result` looks for is kept: that something was found, the words for nothing,
those for a provider's failure, or neither. `Specialists` runs the executors of one component
(one for each stay for hotels): rounds of tool calls under the model's semaphore, what is
heard, the outcome, and the fan-in. What the model asks for is from `Rounds`, one or two calls at a
time; its last words are from `Words`. `sorted` is `InOrder` of `Ranks`: an element's place is the
number of those before it, which can be reasoned about without induction.

### CityStays, DaySchedule, TripPlan

`CityStays` is the loop of `allocate_city_stays`, one action per stay appended, with the
skeleton's validators; `DaySchedule` the loop that puts one day's stops on the clock, one
action per stop, with opening periods in minutes of the week. `TripPlan` is what hands the
artefacts on: `trip_skeleton_node` (which dates and gateway it takes from request and flight),
the hotel searches, the selection and its validation, `compute_day_route_data`, and the
compiler, day by day. Discovery is a choice of what was found; the flight offers of every
search of the thread stay (`flights.offers`), and only the last search decides whether the component is an
error. Offers of an earlier trip are therefore taken if they have the dates or the length asked for. The rates that can be chosen
are those of every search of the thread, the places those of the evidence that was not replaced:
both may be from an earlier trip. `AllocatesAsSpecified` is the refinement: what a trip does
with the allocation is a behaviour of `CityStays!StaysSpec`, so what is proved of that
specification holds of a trip's nights. `TripAssumption` is what a request's validators leave:
an end that is not before the start.

### TripBudget

`cache` is the process's table of exchange rates, with the age of each entry and the tick
its quote was made at; `Rate` is what the provider would quote at each tick. `thread[t]` is a
conversation: the trip its artefacts are of, `evidence` and `rates` left by its last
budget, and the run of the node. The code between two awaits is one step, so all that
the cache can answer is converted in one (`Continue`); it awaits the model (`Extract`) and
the provider (`Answered`, `NoRate`, `Lost`, `Malformed`). Amounts are whole, rounding to cents
is left out; the regional estimate is one dollar a day and traveller, since the properties
count days. A target of nothing is another value than no target (`NoTarget`). `Chosen` is what has a price in each trip, which the node reads from the artefacts, and
`Assembled` adds what earlier budgets and the messages had. `reported` is a history variable: the rates of
all reports.

### Decisions, Judging, EvaluationRun, OfflineBaselines, EvaluationHarness

`Decisions` has what the harness keeps of a run, the outcome each specialist's runner reads
from it, and the checks of its searches (layer 1): a search is abstracted to the place of the
request it names, the wishes it carries, whether it is well formed and sets a filter
nobody asked for. `Judging` has layers 2 to 4: scores with retries, a tournament of two models
played in both orders, and the calibration of the judge. The judge is outside: what it
says is one of `Moods`. `EvaluationRun` has processes that load a batch of trajectories by
fingerprint or capture it, preserve it under a baseline's name by renaming a directory, and
record one report there; a fingerprint is the revision of the sources *on disk at that moment*,
which somebody edits. `by`, `grader` and `overtaken` say, for the properties, what code a process
or file is really of, and whether the sources were edited while it ran. A killed process leaves
a torn file where a write is not atomic. `OfflineBaselines` has the processes that run the gates,
write the manifests and rewrite the index in place. The two share no files: `EvaluationHarness` has either
processes that evaluate a component or processes that create baselines. It also has the runs, labels and cases
(`Contenders`, `Labellings`, `Decided`, `Asked`) on which what judges and checks conclude is looked at.

## 3. What is checked

All runs use exhaustive breadth-first search; the last column is distinct states.

| Run | Instance | Properties | States |
|---|---|---|---|
| `session_one_thread` | one browser and session, two accounts, two handlers of any kind, at most 2 messages | `StoresAgree`, `OwnershipSpec` | 82 k |
| `session_two_browsers` | two browsers with the same session id, one account, two chats or deletions, 1 message | `TypeOK`, `IdentityNeverConflicts`, `StoresAgree` | 234 k |
| `jwks_cache` | three requests, two keys before and one after a rotation | `CacheTypeOK`, `PublishedKeyIsKnown`, `EveryRequestIsAnswered` | 227 k |
| `rate_limiter` | three principals, limit 2, window of 3 ticks, table of 2, either backend | `LimiterTypeOK`, `BurstBound`, `RefusedForCause` | 34 k |
| `chat_store` | two conversations, one of an earlier visit that waits for a decision, two requests at once, four clicks | `ViewIsConsistent`, `DeletionFollowsView`, `StreamingEnds` | 320 k |
| `travel_graph` | two deployments: two trips with both gates on, eight decisions, two messages; two trips with readiness, three messages, gates as in `config.yaml` | `StagesAreGated`, `RenderFindsCurrentPlan`, `EditIsPerformed`, `TurnEnds` | 461 k |
| `request_policy` | three services, two cities, one of them with a broad name, two tabs, four messages | `OfferIsUsable`, `OnlyAgreedServices`, `DecisionsSettle` | 143 k |
| `readiness_run` | seven requests of one or two destinations and two countries of origin, two runs, budget of two searches, two attempts, one permit, cache of two | `ReportIsGrounded`, `SafetyComesFirst`, `AdvisoryIsForThisTrip`, `RunsEnd` | 410 k |
| `provider_search` | each of five components, two stays for hotels, two permits, two attempts, windows of no to six departures sampled by at most three | `FlightsAreOffered`, `OutcomeIsTrue`, `StageEnds` | 319 k |
| `trip_plan` | two trips out of four requests, two cities, three places, flights and rates that fit or do not, one edit of each plan | `DayIsSound`, `DaysAreWalkable`, `PlanIsTheTripAsked`, `AllocatesAsSpecified` | 188 k |
| `trip_budget` | two conversations, one of which has two budgets of four possible trips, three ticks of rates that live one, two attempts, one restart | `EvidenceIsSound`, `VerdictIsEarned`, `RatesAreFresh`, `BudgetEnds` | 108 k |
| `evaluation` | each of eight components, two processes of any layer, one edit; or two creations of offline baselines of two specialists | `RecordsAreTrue`, `VerdictsAreEarned`, `BaselineIsHonest`, `HarnessEnds` | 299 k |

**Why the bounds are enough.**

* *Sessions.* The properties are about one
  thread, and what may go wrong with it takes two handlers: one that acts on an old
  reading and one that changes what was read. The slots are reused, so
  any number of handlers follow each other. A second browser is what makes a lookup
  find another thread than the first one did, and a second account is what a record
  could wrongly move to. One message separates an empty conversation from one
  that is there; two separate a count that is ahead from one that is not.
* *Cache and limiter.* One rotation is one window
  between old and new keys, and three requests let one fetch, one wait and one empty
  the cache. A limit of two and a window of three ticks put requests at the
  beginning, in the middle and at the end of a window; three principals overflow a table of two.
* *Tab.* Four clicks let callbacks of three views cross: a message, another conversation, a
  decision or a deletion there, and one more message. Two slots let one stream run on
  behind another.
* *Graph, policy, plan.* State of one request meets the next, so two trips in two messages show
  every carry-over from one trip to another; readiness needs a third message, because a
  result completed in the second may waive the preflight of the third. A decision left over
  by a message, answered shallowly, and applied by a later one takes four messages. Resumes and
  cuts are not bounded. `TripPlan`'s second trip is shorter than its first,
  or has other cities, dates or searches.
* *Searches.* Two searches are a critical one and one that is crowded out; one permit
  lets one wait for the other. Two stays let one fail; two pages under one address make a
  source be merged and renumbered. Windows are shorter than, as long as and longer than the limit.
* *Budget.* The second budget meets evidence and rates of the first; a rate that lives one tick of
  three is fresh, expired and renewed within a run.
* *Harness.* Two processes race for one file, and one edit makes all their fingerprints old. The
  functions of `Decisions` and `Judging` are checked on decisions of up to two calls, eight contenders
  and up to four labels; what they conclude does not depend on the state.

The safety properties of sessions, cache, limiter, tab, graph, specialists, request policy, trip plan,
readiness, budget and evaluation harness are proved without these bounds (section 5).

**The properties.**

* `StoresAgree` = `OrphanOnlyByRace` /\ `CountBacked`. Delete and the webhook remove checkpoints
  first and strictly, records last, so a failure in between leaves a record to retry with;
  an orphan needs another handler at the same time, or the purge, which works in the
  opposite order. `message_count` only grows and is written from what a run saved;
  it exceeds the stored conversation only after two turns at once or an
  unfinished deletion.
* `IdentityNeverConflicts`: the exception "Checkpoint thread identity is
  immutable" is never raised for a turn, because a record's thread determines its
  browser, and a turn keeps the browser of the record it resolved.
* `OwnershipSpec`: a refinement. `SessionOwnership` lets a free conversation be
  opened by a guest or an account, a guest's be saved to one account, and any
  be removed; nothing else.
* `PublishedKeyIsKnown`: no interleaving of expiry, forced refreshes and a
  failing fetch makes `validate_token` report a key that was published throughout.
  `EveryRequestIsAnswered`: nobody waits for the lock for good.
* `BurstBound`: the limiter is called "max requests per window", but windows are not
  sliding; what does hold in any `Window` consecutive ticks is less than twice the limit.
* `RefusedForCause` = `RefusedOnlyWhenSpent` /\ `FullOnlyWhenBusy`. Redis counts refused requests
  and those whose answer is lost; since only the first one sets the expiry, they prolong
  nothing. A newcomer is refused only while `max_keys` others were really admitted within
  the window.
* `ViewIsConsistent` = `TypeOK` /\ `OneConversation` /\ `FollowsItsTurn`: of the turns that are not over,
  the composer follows the only one whose connection is open, so that Stop always has something to
  abort; turns that were stopped may go on at the server. `DeletionFollowsView`: a
  deletion empties the tab exactly if it shows that conversation; `StreamingEnds`.
* `StagesAreGated` = `TypeOK` /\ `PlanningIsGated` /\ `ConstraintsAreThisTrip`. The gates look at
  statuses alone, not at fingerprints; the order of the nodes nevertheless makes sure the results
  are of the present trip, and a preflight left by another trip is never merged into the
  report that constrains discovery.
* `RenderFindsCurrentPlan`: between `itinerary` and `render_handbook` lies a gate
  with resumes, edits and cuts; the missing-plan and stale-plan branches of the
  renderer are defensive, the graph never takes them.
* `EditIsPerformed`: after "edited" no handbook of the turn is rendered from
  the draft the change was asked for, however the loop is cut and resumed.
* `TurnEnds`: adjusting a budget and editing a plan lead back in the graph, and
  each lap consumes a decision.
* `OnlyAgreedServices` (BR-INT-004): what is planned was asked for, or accepted in an offer that
  *showed* it, and was not refused since. `DecisionsSettle`: no step forgets a position, and a
  decision takes effect at most once however often it is repeated. `OfferIsUsable`: an offer that is
  shown can be answered, and a request that was ready stays ready when a checkpoint is read back.
* `ReportIsGrounded` = `TypeOK` /\ `CoveredIsFound` /\ `LinksNeverBreak`: what is said to be covered for a
  destination has a cited page that a search *for it* found, through merging, renumbering and
  assembly. `SafetyComesFirst` = `CriticalFirst` /\ `CompletedIsCovered`. `AdvisoryIsForThisTrip`:
  a report of details keeps every citation of the advisory it is merged with, and that one is of these destinations,
  passport and dates, and of the authority this request would ask, unless the origin changed: then the code keeps
  the other authority's (section 6). `RunsEnd`.
* `FlightsAreOffered` = `SampleSpansWindow` /\ `OptionsAreOffered`. `OutcomeIsTrue` = `TypeOK` /\
  `PlacesAreFound` /\ `HotelsNeedEveryStay` /\ `BlockedOnlyByTrouble`: "completed", "blocked" and the rest
  say what happened to the requests. `StageEnds`: permits and retries keep nobody waiting.
* `DayIsSound` = `TravellerKeepsUp` /\ `OpenWhenVisited` /\ `NothingIsLost`. `DaysAreWalkable`: also
  `VisitsWhereTheyAre` and `BackByNine`, the latter because each visit leaves time for every
  leg still to come. `PlanIsTheTripAsked` = `TripAsAsked` /\ `NightsAreBooked`, although rates of
  other trips and stays are on offer. `AllocatesAsSpecified`: a refinement.
* `EvidenceIsSound` = `BudgetTypeOK` /\ `CountedOnce` /\ `CurrentPriceCounts` /\ `EveryDayIsCosted`: nothing
  counts twice, what is chosen now counts at its present price, and every day is costed. It does not say that
  only what is chosen counts, which is not true of the code: what an earlier budget of the conversation counted and
  nobody chooses any more counts on, at its old price (section 6);
  `VerdictIsEarned`: "within" and "over" need every item, the target and every expected category
  converted; `RatesAreFresh`, an action property; `BudgetEnds`.
* `RecordsAreTrue`: what is kept under a fingerprint was made by that code, scores are of the
  code one started, reports score the runs they cite, the layers of a comparison are of one run,
  verified offline baselines passed their gates, an index has all its manifests; each
  except when sources were edited under a process. `VerdictsAreEarned`: winners do not depend on the
  order, a judge that always says the same is not trusted, a decision that passes every check
  made the searches the case asks for, and a recorded report is found. `BaselineIsHonest`, an action property: nothing preserved changes, and no conflict
  is raised for a repetition. `HarnessEnds`.

Each property of a run has a mutant, a plausible slip in the mapped code
under which the same run fails; the mutants are the operators marked
`Mutant:` in the modules.

## 4. Fairness and deadlock

Safety needs none. Liveness assumes only what the program's scheduling gives, never that a
user, a client, an edit or the clock does anything:

| Run | Fair | Because |
|---|---|---|
| `jwks_cache` | each request's own steps | the HTTP client times out after five seconds; the event loop |
| `travel_graph` | the nodes together | the event loop schedules a node that can run, and every call it awaits answers or is ended by the request's timeout, which is `Cut` |
| `chat_store` | each stream: it starts, ends, delivers, or is lost | a connection delivers or breaks |
| `readiness_run` | the run with its searches, or a cut | timeouts of the client, bounded attempts, the event loop |
| `provider_search` | `StageNext` as a whole: some step that can be taken is | sleeps end, requests time out, a free permit wakes a waiter |
| `trip_budget` | the steps of each conversation's run | the rate client's timeout and bounded attempts; one event loop |
| `evaluation` | each process's steps | agent runs and judge calls have a limit of time; the rest is local |

In the models a failing provider may fail at every attempt; that runs end is due to the bound
on attempts, which the mutants `WakeAnew` and `LostForever` remove.

`CHECK_DEADLOCK FALSE` stands where the system comes to rest within the bounds: with the
last message, click, run, tick or process used up an idle system has nothing to do.
In the session runs and that of the rate limiter deadlock is checked: a slot can always begin
another request.

## 5. What is proved

For every value of the constants, under the named assumptions of the models. They say what
the constants are, and nothing of how the program behaves:

* `KindsAssumption`, `MaxMessagesAssumption`, `CacheAssumption`, `TabAssumption`: the kinds of handlers there are,
  positive bounds; the `None...`, `No...` assumptions: the value that stands for nothing is no other value.
* `LimiterAssumption`: positive settings, which the code validates, and finitely many
  principals, so that a table can be counted.
* `GraphAssumption`: requests are well formed (the validators of `TripRequest`) and finitely many,
  so that the number of hotel stays in the state has a bound; one readiness topic is safety.
* `PolicyAssumption`: default services are services, and what a message says is a field's value.
* `ReadinessAssumption`: the budget of searches is a number; the destinations of a request and the pages of an
  answer are lists. `NothingAssumption`: no run is the value that stands for none.
* `PairLimitAssumption`, `TransportAssumption`, `ModelAssumption`: positive limits, permits and attempts;
  there is a run, and finitely many; answers are amounts; a model asks for tools its agent has, one or two at
  a time (the bound of the model).
* `StaysAssumption`, `ScheduleAssumption`, `TripAssumption`: durations are positive, times are
  numbers, a window of dates does not end before it starts (`DateWindow`).
* `BudgetAssumption`: a trip has days, with a skeleton one more than its nights (`StaysCoverTrip`); costs
  are of a budget category; and two stays of a draft at one rate are the same stay, since the selection
  refuses a rate key it has seen (`itinerary/pipeline.py:186`). Prices, currencies, the texts of messages
  and the order of anything are arbitrary.
* `GatedAssumption`: there is a specialist to gate. `EvaluatedAssumption`, `JobsAssumption`,
  `BoundsAssumption`: the jobs are those the runners accept, the bounds are numbers.
  `SnapshotAssumption`: the snapshots that budget and itinerary are evaluated on, which are put there by
  hand, hold no run that a provider spoiled. `TrialsAssumption`: a run has a list of calls and a worth that is
  a number, and a case names a place.

| Theorem | States | Argument |
|---|---|---|
| `SessionLifecycleProofs!TypeCorrect` | `Spec => []TypeOK` | `TypeOK` is inductive: one step per action |
| `SessionLifecycleProofs!IdentityCorrect` | `Spec => []IdentityNeverConflicts` | by strengthening |
| `SessionLifecycleProofs!OwnershipCorrect` | `Spec => OwnershipSpec` | step simulation |
| `SessionLifecycleProofs!StoresAlwaysAgree` | `Spec => []StoresAgree` | by strengthening, for each thread by how disturbed it is |
| `EdgeProofs!CacheTypeCorrect` | `CacheSpec => []CacheTypeOK` | with the lock discipline |
| `EdgeProofs!PublishedKeysAreKnown` | `CacheSpec => []PublishedKeyIsKnown` | by strengthening |
| `EdgeProofs!LimiterTypeCorrect` | `Spec => []LimiterTypeOK` | by strengthening |
| `EdgeProofs!BurstsAreBounded` | `Spec => []BurstBound` | by strengthening, with lemmas on sums |
| `EdgeProofs!RefusalsHaveCause` | `Spec => []RefusedForCause` | from the same invariant |
| `ChatStoreProofs!TabShowsOneConversation` | `Spec => []ViewIsConsistent` | by strengthening: what each call in flight was made for |
| `ChatStoreProofs!DeletionEmptiesItsView` | `Spec => DeletionFollowsView` | an action property, from the same invariant |
| `AgentProofs!StagesAreGatedHolds` | `Spec => []StagesAreGated` | by strengthening: what each stage may rely on |
| `AgentProofs!RenderFindsCurrentPlanHolds` | `Spec => []RenderFindsCurrentPlan` | from the same invariant |
| `AgentProofs!EditIsPerformedHolds` | `Spec => []EditIsPerformed` | from the same invariant |
| `AgentProofs!OutcomeIsAlwaysTrue` | `StageSpec => []OutcomeIsTrue` | by strengthening: what requests, calls and executors may be |
| `AgentProofs!FlightsAreAlwaysOffered` | `StageSpec => []FlightsAreOffered` | from the same invariant, with lemmas on rounding and sorting |
| `RequestProofs!OnlyAgreedServicesHolds` | `Spec => []OnlyAgreedServices` | by strengthening, over all offers under way |
| `RequestProofs!OfferIsUsableHolds` | `Spec => []OfferIsUsable` | from the same invariant |
| `RequestProofs!DecisionsSettleHolds` | `Spec => DecisionsSettle` | an action property, from the same invariant |
| `RequestProofs!GroundedReports` | `ReadinessSpec => []ReportIsGrounded` | by strengthening: what a run relies on, with lemmas on numbering, sorting and merging |
| `RequestProofs!SafetyFirst` | `ReadinessSpec => []SafetyComesFirst` | from the same invariant, with lemmas on the order of the plan |
| `RequestProofs!AdvisoryOfThisTrip` | `ReadinessSpec => []AdvisoryIsForThisTrip` | from the same invariant |
| `TripPlanProofs!StaysAlwaysCover` | `StaysSpec => []StaysCoverTrip` | by strengthening, with lemmas on division |
| `TripPlanProofs!DayIsAlwaysSound` | `ScheduleSpec => []DayIsSound` | by strengthening, with lemmas on opening windows |
| `TripPlanProofs!TripsAllocateAsSpecified` | `Spec => AllocatesAsSpecified` | refinement: each step of a trip is a step of `StaysSpec` or a stutter |
| `TripPlanProofs!EveryDayIsSound` | `Spec => []DayIsSound` | the invariant of a day, for every day of every trip |
| `TripPlanProofs!DaysAreAlwaysWalkable` | `Spec => []DaysAreWalkable` | along the chain of artifacts, with lemmas on sums |
| `TripPlanProofs!PlansAreAsAsked` | `Spec => []PlanIsTheTripAsked` | along the chain of artifacts |
| `TripPlanProofs!EvidenceIsAlwaysSound` | `BudgetSpec => []EvidenceIsSound` | by strengthening: what a run holds while it waits, with lemmas on sorting and sums |
| `TripPlanProofs!VerdictsAreAlwaysEarned` | `BudgetSpec => []VerdictIsEarned` | from the same invariant |
| `TripPlanProofs!RatesAreAlwaysFresh` | `BudgetSpec => RatesAreFresh` | an action property, from the same invariant: what the cache holds |
| `EvaluationProofs!IndexIsAlwaysBacked` | `BaselinesSpec => []IndexIsBacked` | by strengthening |
| `EvaluationProofs!VerificationIsEarned` | `BaselinesSpec => []VerifiedWasGated` | from the same invariant |
| `EvaluationProofs!RecordsAreAlwaysTrue` | `HarnessSpec => []RecordsAreTrue` | by strengthening: what a process relies on at each stage |
| `EvaluationProofs!RecordedIsAlwaysFound` | `HarnessSpec => []RecordedIsFound` | from the same invariant |
| `EvaluationProofs!VerdictsAreAlwaysEarned` | `HarnessSpec => []VerdictsAreEarned` | of every run, label and case, with lemmas on sums and picked sequences |
| `EvaluationProofs!BaselineIsAlwaysHonest` | `HarnessSpec => BaselineIsHonest` | an action property, from the same invariant |

*Identity.* The exception depends on what the record says when the turn
registers, not when it resolved. The strengthening says that a record of thread
`t` has exactly `t`'s browser and session, whoever wrote it, and that a turn carries
its thread's browser and session. Lookups return only records, so a turn that resolved to
another browser's record carries that browser; a record that was deleted and opened
again has the same identity, because it is a function of the thread.

*Ownership.* The refinement maps an absent record to nobody and a guest's to the
guest. Registration either creates a record or keeps an account that is already
set (`COALESCE`); a claim touches only guests' records and the claimant's own;
the rest only removes. Each action maps to opening, saving or removing
conversations, or to a stutter.

*Two stores.* `StoreInv` says for each thread what each handler may rely on, below the
level of disturbance that would excuse it: a turn on a thread has its record, and in a
calm thread what it will register is in the checkpoint (`TurnIsBacked`); a deletion will look
up the very record whose checkpoint it removed (`DeleteIsExact`), which needs that no
two records were last written each before the other (`WritesAreOrdered`); the account still has the
threads a webhook is wiping (`WipeIsExact`); what a purge has still to remove has no record
(`PurgeIsExact`). Most steps of a handler change nothing for another thread, or nothing that matters. Where
two handlers do meet on one thread, `Overlap` sees them before or after the step, the history
takes the higher level (`OverlapIsSeen`), and the obligation is gone. When a thread is gone and
settled the history starts again, and then there is nothing left to be wrong (`GoneInv`).

*Published keys.* `PublishedKeyIsKnown` is not inductive: it says what holds when a request
gives up. `CacheInv` adds what a request can count on while it waits (`KeysFound`):
from the moment it emptied the cache for its second refresh, every response under
way and every cache that is not empty was taken after it began, and holds its key.
`TriesBegun` ties the number of refreshes to the stage of a request, and `CacheTypeOK`
ties the lock to the one request that fetches.

*Rate limiter.* `LimiterTypeOK` bounds the requests admitted in one tick by the limit, which is
not inductive: the code compares the count of the window, not of the tick.
`ChargesCounted` says that what the present tick admitted is counted in a window
that is still live. Pruning keeps live windows, a tick begins with nothing
admitted, and a request is admitted only while the count is below the limit.

*Bursts and refusals.* `WindowIsBacked` ties a window to the history: a live one has counted
exactly what was charged since it was opened, beginning with the request that opened it, and what
was charged before that is less than the limit, because the first request of the window before
has left the period by the time that one expires. A principal without a live window has
been charged less than the limit. So the period holds less than the limit before the window
and at most the limit in it; a refusal for a spent limit means that the charges are there; and
every entry of a full table has a charge in the period.

*Tab.* What is on the screen is written by calls that were made earlier, so `TabInv` says of each call in
flight what it was made for: a stream that was not left behind was sent for the
conversation the tab holds, or for a new one that it is about to name, and then the tab holds none
(`CallsFollowView`); so do a decision and a deletion. `StreamsAreSound` gives the order of events in a
stream, without which text could arrive before its conversation is named. Leaving a view puts every call in
`loose`, and an answer of one of those that is applied sets `mixed`. Until a message or a view overtakes a
stream the tab reads at most one, and Stop would abort it, or its run is over (`OneStream`), because the composer
is locked until the last event is read. An abandoned request is no stream the tab reads: it writes the thread
at the server and nothing of the tab, so any number of them may go on beside the one that is followed.

*Travel graph.* The gates look at statuses, so `GraphInv` says for each node which
results are completed *and of the present trip* (`StagesAreOrdered`, `SelectionIsGated`). A
superstep replaces the results of every component it runs; what it does not run is of this trip
because intake or the stage before saw to it. A readiness result is of the trip of its report
(`ReportsAreDated`), which is what keeps another trip's preflight out of the constraints. From
the compiler to the renderer nothing writes a source of the plan without leading back to the
selection (`PlanIsCurrent`), and feedback is consumed only by a draft that differs
(`EditIsUnderWay`).

*Specialists.* The words a component's outcome is read from come long after the failures and findings
they stand for. `StageInv` ties each of them to its cause: a request that ended has an answer or a
failure (`SoundRequest`), a call's text is one its requests allow and a window's requests are
the sample of that window (`SoundCall`), and an executor has heard `external` only if it heard of trouble, and
of places only if some were found (`SoundRun`); the result of a stage is the aggregate of its executors
(`ResultIsAggregated`). It also counts the permits. The sample has as many different days as were asked for because
its stride is more than one day, so that its multiples round to different days (`RoundedGrows`), and it spans the
window because its two ends are exact (`RoundedProduct`). That the fares shown are the
cheapest, in order, follows from what sorting does to any finite set (`InOrderSorts`): every element stands once,
and before another exactly if the order says so.

*Request policy.* `OnlyAgreedServices` must hold of decisions on offers that are no longer open, so the
invariant speaks of every offer and decision on its way: each shows exactly what
its own request offers while that is open (`OffersAreShown`, `DecisionIsOfOffer`). A decision
is applied only to the request of its fingerprint, so what it selects was shown; and what was
agreed to or refused is in the request (`IsConsented`), whatever a patch says. For `OfferIsUsable`:
reading a request back twice changes no more than reading it once (`RequestIsRead`).

*Readiness.* A source is numbered three times over: when it is retrieved, apart from the preflight's numbers,
and when the two reports become one. `ReadinessInv` says that the searches are those of the plan and hold
what their topic may find (`SearchInv`), that a run that goes on has something to answer and that details have
the preflight of their own trip (`RunInv`), and that a preflight that is kept has links that hold and the
fingerprint of its request (`SavedInv`). The rest is about one step, the writing of a report. There
are always enough numbers outside those reserved (`NumbersAreNew`), so preflight, searches and forecasts
number their sources apart (`SourcesApart`); grounding, attaching a forecast, dropping what nothing cites and
merging each keep every citation on a source of the report (`GroundedLinks` to `JoinedLinks`).
So a number that is counted as proof leads back to the page a search found (`VerifiedIsFound`), and a run
is completed only with all critical topics verified (`CompletedVerifies`). That safety comes first in
the budget follows from the order of the plan: it is sorted by topic (`CandidatesInOrder`), so a
search within the budget has every critical one before it (`CriticalAhead`). An advisory that is kept has the
fingerprint of this request and so its passport, and the authority is a function of passport and origin; that all of
it is in the report of details is a fact of `Assemble` (`KeepsAdvisory`, `AssemblyKeepsAdvisory`).

*Nights.* `StaysCoverTrip` speaks of the last stay alone. The strengthening says, while stays are
appended, that each has the nights of its index, begins where the last one ended, and that the
cursor is the first day plus the nights given out: the base for each city so far and one more for
each of the first `Remainder`. With all cities appended that is the shared nights, by the division
lemma; the gateway stay adds the reserved one. `TripsAllocateAsSpecified` carries this over
to trips: no trip's skeleton is refused for its nights.

*Days.* `DayIsSound` is about every card; the strengthening adds that the clock is
the end of the last card, or nine o'clock, and that while a day is being filled nothing is left
over. `OpeningFit` is the start of a visit within an opening window: among the windows that fit one
opens first, whatever the set of periods, because none opens before midnight (`NatMinimum`); and
the earliest start includes the rest, the leg and the buffer. `BackByNine` adds the
legs: every visit ends early enough for all that are left (`LatestEndLeaves`), and the sum that is left
after a stop is the sum before it less one leg.

*Trip plan.* An artifact outlives the request it was made for, so neither property holds of the
artifacts as such. `ChainInv` says which of them are in use at each stage and that each
is made from the one before it: the skeleton from the request (`SkeletonFits`, which starts from the
proved allocation: `Begun`, `StaysInv`), the draft from the skeleton, with one rate of its own city for every
stay and each place once on a day of its city (`DraftFits`), the days compiled so far from the draft
(`Compiling`), the plan from all of them (`PlanFits`). A stage that fails ends the turn and claims
nothing; an edit goes back to the draft and keeps the skeleton. A route that is stale gives an order, but only
of the very stops of the draft's day. The traveller is in the city he lands in on the first night
because that city is moved to the front, from its place (`ToFront`), and on the last because of the
night reserved there.

*Budget.* A run assembles its items once and then waits for rates, any number of times, while others change the
cache. `BudgetInv` says of the items of a run that waits or has ended that no two are the same and that what is
chosen has its present price (`SoundRun`). Assembling earns that whatever the evidence before it
was (`Assembles`): the chosen ones come first, each once, and of the others only those that are new, in their order
(`JoinedKeeps`); that a stay counts once rests on its rate being picked at its first place (`StaysAre`). Of the cache it
says that an entry is as old as its quote or was in a report (`SoundEntry`), because a report's rates return
with a new age, and that there is one for each pair. So a step that goes on from the quotes there are takes fresh
ones only (`Continues`, `Follows`), and the report it ends with has one rate for a pair (`RecordedSound`). Every day is costed
because the days shared among the cities, quotient and remainder, add up to the trip's (`SharedDays`,
`CityDaysSum`).

*Offline baselines.* An index is backed because a process that reaches it left no gap behind it
(`MakersSound`: the manifests it went past are whole), and no step takes a whole manifest away,
whichever processes write under the same name and wherever they are killed (`ManifestsStand`). A manifest
that was opened at all records a revision whose gates passed (`ManifestsPassed`), because a process
carries the revision it gated from the gate to the file. Both theorems follow from one invariant,
for any number of processes, names, specialists and revisions.

*Evaluation runs.* A report cites runs by a fingerprint computed when it is filed, and its figures come
from batches settled long before, so the truth of reports is not inductive. `RunInv` says what a process may
rely on at each stage as long as nobody edited the sources under it (`IsUpToDate`): the fingerprint
it looked under is that of its code, and each batch it settled is of its code and is the preserved
one, if it is preserved at all (`IsSettled`). Others only add runs and reports and complete them
(`FilesStay`, `ReportsStay`), so what one process relies on stays whatever the others do
(`SoundStays`), and an edit lifts what is expected of all that run. The file a process is
about to write is of the fingerprint it is written under (`HoldsBatch`), a report in progress is there
with its figures (`IsReported`), and the processes that may still file one are counted
(`Pending`), which bounds the reports. A conflict is real because figures are a function of the
batches, the grader and the judge's mood (`SameBatchesSameMetrics`).

*Verdicts.* What judges and checks conclude is a function of runs, so these are facts about operators.
A winner stands only if it is preferred in both slots (`PairIsJudged`), which a judge with an eye for the slot, or
one that decides for the first only, never says of both. A judge whose scores are all the same disagrees with people
exactly as much as chance does: the expected disagreement is as many times the observed one as there are
labels (`StuckIsUntrusted`, by sums of equal values and of multiples), so kappa is not high, or not defined. One
who scores like people has nothing observed, and something expected once two labels differ (`SameIsTrusted`).
A check that fails nothing leaves every of its parts true, of the searches that are left of the calls
(`SearchesAre`), and the harness keeps the searches of a run or none of them (`KeptSearches`).

*Sums.* The models add with the folds of the community modules, which are defined by a recursive function
over sets. `Sums` shows that the function exists and that a sum is one element and the sum of
the others, whichever is taken first. Induction is by a least counterexample
(`NatMinimum`), since the library's induction theorems take an operator as a parameter.

Every safety invariant and action property that a run checks is a theorem. Only model-checked: liveness. Out of
the prover's reach are liveness under fairness and `ENABLED`. No module declares a `RECURSIVE` operator.

## 6. Where the code and the documents disagree

None of the runs expects a violation. The models contain the following behaviours, and the
properties above are stated so that they allow them.

**Against a document or comment.**

| Code | What happens | What is said |
|---|---|---|
| `api/session_registry.py:427` | a signed-in turn on a guest's conversation saves it to the account | ADR-0011:31 "exposes only sessions explicitly claimed" |
| `agent/stage4_graph.py:1845` | a trip planned without a budget is compiled with the earlier trip's | `docs/rules/itinerary.md:52` "Mixed-version plans are unsafe" |
| `agent/stage4_graph.py:1228` | searches of an earlier, longer trip are aggregated; one of them that failed keeps hotels incomplete | docstring at 1227 |
| `agent/stage4_graph.py:1417`, `:2213` | a readiness result completed from an incomplete preflight waives the next advisory | `docs/rules/readiness-and-safety.md:44` |
| `agent/stage4_graph.py:1733` | a failed budget stores null, and every later budget of the thread raises on it | `FEATURE.md:36` of stage 4: failures are typed outcomes |
| `agent/stage4_graph.py:828` | an edit adds stages to a routing that declined them | BR-INT-004 |
| `agent/nodes/intake.py` | feedback of a rejected plan outlives its request | its comment "HITL decisions are scoped to one execution" |
| `tools/flights_duffel.py:517`, `agent/policies/component_outcomes.py:150` | exhausted retries give a text without a marker, and the component is completed | BR-HITL-005 |
| `agent/stage4_graph.py:1729` | evidence of earlier budgets is never cleared and counts again, also of flights and rates nobody chooses any more | `docs/features/budget/FEATURE.md:28` "Unsupported/duplicate/unselected prices are excluded"; BR-SEL-001, BR-SEL-003 |
| `readiness/planning.py:102` | the fingerprint leaves out `origin_country`, which chooses the authority of the advisory (`:160`): details keep another authority's | docstring at 101 "every readiness input whose change invalidates persisted results" |
| `budget/pipeline.py` | a selected stay without a price leaves the budget complete; a pair may be quoted twice in one report, which records the last | BR-BUD-003, BR-BUD-002 |
| `itinerary/pipeline.py:708` | a stale route blocks compilation, or with the same stops gives legs from another hotel; a place of a city off the route is accepted on any day | BR-ITI-001, -003, -006 |
| `api/main.py:1141` | a turn beside a DELETE saves its next step after the deletion, and the checkpoint is there again | ADR-0011:26 |
| `edd/*/l1_evaluate.py` | outputs blocked by a provider, without an error, are scored (all but flights) | `edd/README.md`: not counted as model quality |
| flights' layer 1 | only the first search is read | hotels' layer 1: a right first call cannot hide a later one |

**Without a document.**

* *API and registry.* The purge removes records before checkpoints (`PurgeCut`);
  `delete_session` looks the session up twice and, with two browsers of one account, may
  find two records; cursor pages skip a record that is updated between them
  (`session_registry.py:270`); memory and PostgreSQL count claims differently (`:293`).
* *Gates.* `human_review_node` does not look at the gate a decision names, so a resume is consumed
  by whichever gate waits (`main.py:1343`). The update of a gate is a tuple that `chat_stream` does
  not expect: an error event precedes every review gate (`main.py:871-888`).
* *Frontend.* Stop, Clear and Reload close the connection and unlock the composer; the server cancels the
  graph later, when it notices (`main.py:914-930`), and there is no lock per thread, so the next message's run may
  overlap the one that was given up. A reload loses the gate; `remove()` compares with the session shown when it was
  called; `restoreSnapshot` aborts no stream and `applyResumeResponse` compares no conversation,
  so answers for a view that was left are applied to the present one.
* *Request.* A confirmed overnight city with a broad name is demoted again whenever the
  checkpoint is read; the fingerprint of a readiness request sorts destinations
  (`readiness/planning.py:103`) but `assembly.py:51` compares them in order, so reordered
  details always raise; a preflight of an earlier trip is rejected as stale again and again.
* *Searches.* `search_cheapest_flight_in_month` skips failures silently; the text of a window
  ignores pairs that failed; a `RequestError` escapes all Duffel tools but the window search, and
  Hotelbeds tools never reach their own handler of it; one empty search makes a whole component
  `NO_INVENTORY`; `confirm_flight_price` searches again.
* *Plan.* An end date is ignored when there is no start (`agent/nodes/trip_skeleton.py:169`): only the
  length counts, so `TripAsAsked` speaks of the end of a trip only where both dates are given. A
  flexible request may take its start from a flight outside its window, and a request its flight from a search of an
  earlier trip, if the dates or the length fit (`agent/stage4_graph.py:1094`); coverage
  `COMPLETE` of an itinerary and the return after 21:00 are unreachable; one place found by two
  components has two ids; `validate_legacy_draft` is never reached; the cheapest
  flight is chosen over mixed currencies.
* *Budget.* A stored rate that is remembered again gets a new age and may replace a fresher one of
  another conversation; an answer of another shape raises past `ExchangeRateUnavailable`.
* *Harness.* The name of a preserved directory is claimed by a rename that most file systems refuse
  with another error than the one handled, so the slower of two processes may raise; a refresh
  overwrites the cache before its conflict is raised, and later cached runs conflict; a
  report is not written atomically, and a torn one is a conflict for good; the fingerprint is
  recomputed whenever it is needed, so an edit mislabels the run in flight; reports of judged layers
  repeat only if the judge does; an offline manifest opened by another process first is an
  uncaught error, and its sources are read after the gates ran on others.

## 7. What is not modelled

* Pagination of listings, locale preference, response shaping, read-only endpoints.
* Signature checks (cookie, webhook, token): pure functions of one input.
* Prompts, formatting, renderer, localization, logging: no property is about them.
* Parsing and wording of provider answers, beyond the markers later code looks for.
* Rounding to cents, regional price tables, contingency by style: amounts are whole numbers.
* Evaluation: data sets, rubric texts, printed tables, the documentation check, the HTML console of
  `scripts/agent_harness.py`, and the scenarios by which readiness and the deterministic
  pipelines (budget, itinerary) are tried: they are inputs to code modelled here.
* Online evaluators (`evaluation/`): heuristic scores, pure functions of one text.
* Earlier stages of the agent (`agent.py`, `graph.py`): the API does not run them.
* Deployment and configuration: the number of replicas and the gates of `config.yaml` enter
  as assumptions.

## 8. Plan

1. **Done.** The modules of section 2 and the proofs of section 5.
2. `SessionListing`: cursor pages over a registry that changes between pages.

To run: `tlc -config TripPlan.cfg MCTripPlan`, `tlapm SessionLifecycleProofs.tla`.
