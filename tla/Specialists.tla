------------------------------- MODULE Specialists ------------------------------
(***************************************************************************)
(* One discovery stage: the executors of a component, which in turn ask    *)
(* the model for tool calls, run those of a round side by side and hear    *)
(* their texts, until the model concludes or something raises; what is     *)
(* made of the trajectory; and, for hotels, of the searches of all stays.  *)
(* A model asks for one of Rounds in every round, and for MaxRounds rounds *)
(* at most, both by component.                                             *)
(***************************************************************************)
EXTENDS ProviderCalls

CONSTANTS
    Explored,    \* the components that are run, each in a behaviour of its own
    ModelPermits,  \* of the semaphore of the fast tier
    Rounds,        \* by component, the one or two calls a model asks for together
    MaxRounds      \* by component, rounds of tool calls

VARIABLES
    component,  \* the component of this stage
    runs,       \* by run, the executor and the result of its task
    result      \* status of the component once it is known

stageVars == <<calls, component, runs, result>>

TaskStatuses == {"completed", "nothing", "external", "input", "failed"}
Phases == {"ready", "queued", "thinking", "acting", "ended"}
Marks == {"found", "neutral", "nothing", "external"}

\* The tools each agent is given.
Tools ==
    [flights |-> {"search", "cheapest", "window", "month", "confirm", "airports", "lookup"},
     hotels |-> {"hotels", "rates", "places"}, restaurants |-> {"nearby", "places"},
     activities |-> {"nearby", "places", "events"}, transportation |-> {"route"}]

ASSUME ModelAssumption ==
    /\ ModelPermits \in Nat \ {0}
    /\ \A k \in Explored :
          /\ k \in DOMAIN Tools /\ MaxRounds[k] \in Nat
          /\ Rounds[k] \subseteq {<<t>> : t \in Tools[k]}
                               \cup {<<t, u>> : t \in Tools[k], u \in Tools[k]}

\* The last words of the model: an answer, a question or nothing, or words
\* that say that nothing was found or that the provider could not be reached.
Words == {"answer", "question", "silence", "nothing", "external"}

Idle == [phase |-> "ready", round |-> 0, heard |-> {}, places |-> 0, trouble |-> FALSE,
         status |-> "none"]

StageInit ==
    /\ component \in Explored
    /\ runs = [r \in Runs |-> Idle]
    /\ calls = [r \in Runs |-> <<>>]
    /\ result = "none"

\* A stay each for hotels; the other components are one task.
Active == IF component = "hotels" THEN Runs ELSE {CHOOSE r \in Runs : TRUE}

-----------------------------------------------------------------------------
(* classify_component_result *)

Structured == {"activities", "restaurants"}

\* Mutant: places that were found are taken for completion before the rest is read.
ClassifiedEagerly(heard, places, words) ==
    IF "found" \in heard THEN "completed"
    ELSE IF "nothing" \in heard \cup {words} THEN "nothing"
    ELSE IF "external" \in heard \cup {words} THEN "external"
    ELSE IF heard # {} /\ words # "silence" THEN "completed"
    ELSE IF heard = {} /\ words = "question" THEN "input"
    ELSE "failed"

Classified(heard, places, words) ==
    IF "nothing" \in heard \cup {words} THEN "nothing"
    ELSE IF "external" \in heard \cup {words} THEN "external"
    ELSE IF heard # {} /\ words # "silence"
         THEN IF component \in Structured /\ places = 0 THEN "failed" ELSE "completed"
    ELSE IF heard = {} /\ words = "question" THEN "input"
    ELSE "failed"

\* By the name and the message of an exception: a timeout, a lost connection and
\* a RetryError are the provider's, some other transport errors are not.
ClassifiedError(spent) == IF spent THEN {"external"} ELSE {"external", "failed"}

-----------------------------------------------------------------------------
(* An executor. *)

\* hotel_stay_node: no code for the city, no search.
Unresolved(r) ==
    /\ component = "hotels" /\ runs[r].phase = "ready"
    /\ runs' = [runs EXCEPT ![r].phase = "ended", ![r].status = "failed"]
    /\ UNCHANGED <<calls, component, result>>

Invoke(r) ==
    /\ runs[r].phase = "ready"
    /\ runs' = [runs EXCEPT ![r].phase = "queued"]
    /\ UNCHANGED <<calls, component, result>>

Thinking == {r \in Runs : runs[r].phase = "thinking"}

\* _SemaphoreLLM.ainvoke: the permit is held for one call of the model.
Think(r) ==
    /\ runs[r].phase = "queued" /\ Cardinality(Thinking) < ModelPermits
    /\ runs' = [runs EXCEPT ![r].phase = "thinking"]
    /\ UNCHANGED <<calls, component, result>>

CallTools(r) ==
    /\ runs[r].phase = "thinking" /\ runs[r].round < MaxRounds[component]
    /\ \E tools \in Rounds[component] : \E first \in Started(tools[1]) :
         IF Len(tools) = 1 THEN calls' = [calls EXCEPT ![r] = <<first>>]
         ELSE \E second \in Started(tools[2]) :
                calls' = [calls EXCEPT ![r] = <<first, second>>]
    /\ runs' = [runs EXCEPT ![r].phase = "acting", ![r].round = @ + 1]
    /\ UNCHANGED <<component, result>>

ToolStep(r) ==
    /\ \E c \in DOMAIN calls[r] :
         \/ \E i \in DOMAIN Requests(r, c) : RequestStep(r, c, i)
         \/ Send(r, c) \/ ReportText(r, c)
    /\ UNCHANGED <<component, runs, result>>

HasTrouble(r) ==
    \E c \in DOMAIN calls[r] : \E q \in Range(Requests(r, c)) : q.end \notin {"none", "answer"}

\* All calls of the round have their text: the model reads them.
Hear(r) ==
    /\ runs[r].phase = "acting"
    /\ \A call \in Range(calls[r]) : call.text # "none"
    /\ runs' = [runs EXCEPT
         ![r].phase = "queued", ![r].heard = @ \cup {call.text : call \in Range(calls[r])},
         ![r].places = IF \E call \in Range(calls[r]) : HasPlaces(call) THEN 1 ELSE @,
         ![r].trouble = @ \/ HasTrouble(r)]
    /\ calls' = [calls EXCEPT ![r] = <<>>]
    /\ UNCHANGED <<component, result>>

\* An exception a tool does not catch ends the executor, the calls beside it too.
Raise(r) ==
    /\ runs[r].phase = "acting"
    /\ \E call \in Range(calls[r]) :
         /\ call.text = "none" /\ Uncaught(call)
         /\ \E s \in ClassifiedError(\E q \in Range(call.requests) : q.end = "spent") :
              runs' = [runs EXCEPT ![r].phase = "ended", ![r].status = s,
                                   ![r].trouble = TRUE]
    /\ calls' = [calls EXCEPT ![r] = <<>>]
    /\ UNCHANGED <<component, result>>

\* The model's service fails.
ModelFails(r) ==
    /\ runs[r].phase = "thinking"
    /\ \E s \in ClassifiedError(FALSE) :
         runs' = [runs EXCEPT ![r].phase = "ended", ![r].status = s, ![r].trouble = TRUE]
    /\ UNCHANGED <<calls, component, result>>

Conclude(r) ==
    /\ runs[r].phase = "thinking"
    /\ \E words \in Words :
         runs' = [runs EXCEPT
           ![r].phase = "ended",
           ![r].status = Classified(runs[r].heard, runs[r].places, words),
           ![r].trouble = @ \/ words = "external"]
    /\ UNCHANGED <<calls, component, result>>

-----------------------------------------------------------------------------
(* The result of the component. *)

\* hotel_fan_in_node: completed when every stay is, else the first in this order.
Aggregated(statuses) ==
    IF statuses = {"completed"} THEN "completed"
    ELSE LET order == <<"input", "external", "nothing", "failed">> IN
           order[CHOOSE i \in 1..4 : order[i] \in statuses
                                     /\ \A j \in 1..(i - 1) : order[j] \notin statuses]

FanIn ==
    /\ result = "none" /\ \A r \in Active : runs[r].phase = "ended"
    /\ result' = Aggregated({runs[r].status : r \in Active})
    /\ UNCHANGED <<calls, component, runs>>

Step(r) ==
    Unresolved(r) \/ Invoke(r) \/ Think(r) \/ CallTools(r) \/ ToolStep(r) \/ Hear(r)
    \/ Raise(r) \/ ModelFails(r) \/ Conclude(r)

StageNext == FanIn \/ \E r \in Active : Step(r)

StageSpec == StageInit /\ [][StageNext]_stageVars

\* Sleeps end, requests time out, a permit that is free is given to a waiter and
\* the model answers or fails: some step that can be taken is.
FairStageSpec == StageSpec /\ WF_stageVars(StageNext)

-----------------------------------------------------------------------------
(* Properties. *)

\* Every record has its shape, no more than five Duffel requests and fifteen
\* calls of the model are out at once, and none is sent more often than its
\* decorator allows.
StageTypeOK ==
    /\ component \in Explored
    /\ runs \in [Runs -> [phase : Phases, round : 0..MaxRounds[component], heard : SUBSET Marks,
                          places : {0, 1}, trouble : BOOLEAN,
                          status : TaskStatuses \cup {"none"}]]
    /\ result \in TaskStatuses \cup {"none"}
    /\ Cardinality(Held) <= Permits /\ Cardinality(Thinking) <= ModelPermits
    /\ \A r \in Runs : \A call \in Range(calls[r]) :
         /\ call.text \in Marks \cup {"none"}
         /\ \A q \in Range(call.requests) :
              /\ q.phase \in {"waiting", "posted", "asleep", "ended"}
              /\ q.tries < Attempts[q.to]
              /\ (q.end = "none") = (q.phase # "ended")

WindowCalls == {call \in UNION {Range(calls[r]) : r \in Runs} :
                  call.tool = "window" /\ call.requests # <<>>}

\* A search of a window asks for every departure of a small one, for the first
\* and the last one and as many as the limit of a large one, never for the same
\* twice and never for one the trip does not fit in (_generate_round_trip_date_pairs).
SampleSpansWindow ==
    \A call \in WindowCalls :
      LET w == call.window
          days == {q.day : q \in Range(call.requests)} IN
        /\ FitsWindow(w, days) /\ SpansWindow(w, days) /\ CoversWindow(w, days)
        /\ Cardinality(days) = Len(call.requests)
        /\ Len(call.requests) <= Limit(w)
        /\ TotalPairs(w) > Limit(w) => Len(call.requests) = Limit(w)

\* However the answers of a gather come in, an offer that is passed on is one
\* the provider made for that departure, they are sorted, the first is cheaper
\* than all that were answered, and no more are left out than have no room
\* (search_flights, search_cheapest_round_trip_in_window).
OptionsAreOffered ==
    \A r \in Runs : \A call \in Range(calls[r]) :
      call.tool \in {"search", "window"} /\ call.text = "found" =>
        LET options == Options(call)
            made == UNION {{[day |-> q.day, amount |-> a] : a \in Range(q.offers)} :
                             q \in Range(call.requests)} IN
          /\ Range(options) \subseteq made
          /\ \A m \in made : options[1].amount <= m.amount
          /\ \A k \in 2..Len(options) : options[k - 1].amount <= options[k].amount
          /\ call.tool = "window" /\ Len(options) < Shown =>
               {o.day : o \in Range(options)} = {m.day : m \in made}

\* Activities and restaurants are complete only with a place that a search of
\* this task found, and when no search of it came back empty or failed.
PlacesAreFound ==
    \A r \in Active :
      component \in Structured /\ runs[r].status = "completed" =>
        runs[r].places > 0 /\ runs[r].heard \cap {"nothing", "external"} = {}

\* The hotels of a trip are complete only when a search of every stay is: each
\* was asked for, answered, and none of its searches came back empty or failed.
HotelsNeedEveryStay ==
    component = "hotels" /\ result = "completed" =>
      \A r \in Runs : /\ runs[r].status = "completed" /\ runs[r].round > 0
                      /\ runs[r].heard \cap {"nothing", "external"} = {}

\* A component is called blocked by its provider only when a request of it or
\* of the model failed, or the model says so.
BlockedOnlyByTrouble ==
    result = "external" => \E r \in Active : runs[r].trouble

\* A stage ends, whatever fails: no permit is kept that another task waits for.
StageEnds == <>(result # "none")

\* A flight search that found something offers the right thing: it spans the
\* window that was asked for and passes on the best of what the provider made.
FlightsAreOffered == SampleSpansWindow /\ OptionsAreOffered

\* What a component says of its search is what happened: complete when it found
\* something for every part of the task, blocked when a provider failed.
OutcomeIsTrue == StageTypeOK /\ PlacesAreFound /\ HotelsNeedEveryStay /\ BlockedOnlyByTrouble

=============================================================================
