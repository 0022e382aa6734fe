----------------------------- MODULE ReadinessRun ------------------------------
(***************************************************************************)
(* The travel-readiness pipeline of src/readiness: a research plan within  *)
(* the query budget, forecasts, the searches of EvidenceSearch, a          *)
(* synthesis the model writes freely, grounding of its fields in the       *)
(* sources they cite, assembly with the saved safety preflight, coverage   *)
(* by destination and topic, and the outcome.                              *)
(*                                                                         *)
(* A field of a report is the set of sources it cites: the pipeline keeps  *)
(* a value only with a source, and what the value says is not modelled.    *)
(* A planning constraint is a field too: it cites its sources itself.      *)
(***************************************************************************)
EXTENDS EvidenceSearch, Ranks

CONSTANTS
    Requests,    \* trip requests: [dests, passport, origin, dates, topics]
    FieldNames,      \* the fields of FieldRule the model may write
    MaxCited,    \* bound: sources it cites for one field
    Domains,     \* build_official_source_policy: official domains by use
    MaxQueries,  \* max_queries
    MaxRuns,     \* bound: runs of the pipeline
    Nothing         \* no run, no report, no preflight

VARIABLES
    run,     \* the run in progress: its kind, request, forecasts and plan
    saved,   \* readiness_preflight: the report kept and its fingerprint
    result,  \* the last run's outcome and its searches, till the next begins
    runs     \* number of runs started

readinessVars == <<calls, cache, run, saved, result, runs>>

Kinds == {"preflight", "focused", "details"}
Critical == {"safety", "entry", "health"}    \* _CRITICAL_TOPICS
Guidance == {"culture", "practical", "packing"}

-----------------------------------------------------------------------------
\* planning.py

\* The fingerprint of a request: destinations are sorted first.  The country
\* of origin is not in it.
FingerprintOf(r, topics) ==
    [dests |-> ToSet(r.dests), passport |-> r.passport, dates |-> r.dates,
     topics |-> topics]

EntryDomains(r) == Domains.visa \cup Domains.origin[r.passport]

\* The authority of the country the traveller starts from, if the request
\* names one, else of the passport's, else the general ones.
AdvisoryDomains(r) ==
    LET authority == Domains.origin[IF r.origin # "" THEN r.origin ELSE r.passport]
    IN IF authority # {} THEN authority ELSE Domains.safety

\* The domains a search is restricted to; culture is not restricted.
Include(t, r) ==
    CASE t = "safety"  -> AdvisoryDomains(r)
      [] t = "entry"   -> EntryDomains(r)
      [] t = "culture" -> {}
      [] OTHER         -> Domains[t]

Query(d, t, r) == [dest |-> d, topic |-> t, domains |-> Include(t, r)]

\* Whether evidence topic t is searched for destination d.
Wanted(t, d, r, topics, seasonal) ==
    CASE t = "entry"   -> t \in topics /\ r.passport # "" /\ EntryDomains(r) # {}
      [] t = "weather" -> t \in topics /\ d \in seasonal
      [] t = "culture" -> topics \cap Guidance # {}
      [] OTHER         -> t \in topics

TopicOrder == <<"safety", "entry", "health", "weather", "culture">>

\* Pairs of numbers in the order of the first, and then of the second.
Before(a, b) == a[1] < b[1] \/ (a[1] = b[1] /\ a[2] < b[2])
Lexical(pairs) == InOrder(pairs, {p \in pairs \X pairs : Before(p[1], p[2])})

\* Topic by topic, and for every destination of each.
Candidates(r, topics, seasonal) ==
    LET wanted == {p \in (DOMAIN TopicOrder) \X (DOMAIN r.dests) :
                     Wanted(TopicOrder[p[1]], r.dests[p[2]], r, topics, seasonal)}
        places == Lexical(wanted)
    IN [k \in DOMAIN places |-> Query(r.dests[places[k][2]], TopicOrder[places[k][1]], r)]

\* As far as the budget.
Budgeted(queries) == SubSeq(queries, 1, Min({MaxQueries, Len(queries)}))
Plan(r, topics, seasonal) == Budgeted(Candidates(r, topics, seasonal))

-----------------------------------------------------------------------------
\* retrieval.py: the answers of the searches as numbered sources

Answered == {i \in DOMAIN calls : ~calls[i].failed}
Hits(u) == {i \in Answered : \E p \in ToSet(calls[i].pages) : p.url = u}
PageOf(u, i) == CHOOSE p \in ToSet(calls[i].pages) : p.url = u

\* A page is official for a search when its domain is one the search is
\* restricted to, or for culture one of the culture authorities.
IsOfficial(u, i) ==
    LET q == calls[i].query
        allowed == q.domains \cup (IF q.topic = "culture" THEN Domains.culture ELSE {})
    IN PageOf(u, i).domain \in allowed

\* The pages in the order they are met.
Urls ==
    LET Page(i, k) == calls[i].pages[k].url
        At == UNION {{<<i, k>> : k \in DOMAIN calls[i].pages} : i \in Answered}
        First == {a \in At : \A b \in At :
                    Before(b, a) => Page(b[1], b[2]) # Page(a[1], a[2])}
        places == Lexical(First)
    IN [n \in DOMAIN places |-> Page(places[n][1], places[n][2])]

\* The source of a page has the topic of the search that rates it highest,
\* the first of equals, and is official if any search finds it so.
SourceOf(u, id) ==
    LET best == CHOOSE i \in Hits(u) : \A j \in Hits(u) :
                  \/ PageOf(u, i).score > PageOf(u, j).score
                  \/ PageOf(u, i).score = PageOf(u, j).score /\ i <= j
    IN [id |-> id, url |-> u, domain |-> PageOf(u, best).domain,
        topic |-> calls[best].query.topic,
        official |-> \E i \in Hits(u) : IsOfficial(u, i)]

\* The numbers given to n sources, passing over the reserved ones.
Numbers(letter, n, reserved) ==
    LET free == {k \in 1 .. n + Cardinality(reserved) : <<letter, k>> \notin reserved}
        numbers == Ascending(free)
    IN [k \in 1 .. n |-> <<letter, numbers[k]>>]

Retrieved(reserved) ==
    LET ids == Numbers("S", Len(Urls), reserved)
    IN {SourceOf(Urls[n], ids[n]) : n \in DOMAIN Urls}

-----------------------------------------------------------------------------
\* weather.py: typed days with a source, or a reason for none

\* What a forecast may come to: outside the horizon, it is not asked for.
Forecasts(r) == IF r.dates = "near" THEN {"days", "no_days", "unresolved", "failed"}
                                    ELSE {"outside"}

Forecast(forecasts, what) == {d \in DOMAIN forecasts : forecasts[d] \in what}

\* Open-Meteo's answer is a source even when it holds no days.
WeatherSources(r, forecasts, reserved) ==
    LET some == Picks(r.dests, {k \in DOMAIN r.dests :
                                  r.dests[k] \in Forecast(forecasts, {"days", "no_days"})})
        ids == Numbers("W", Len(some), reserved)
    IN {[id |-> ids[k], url |-> <<"forecast", some[k]>>, domain |-> "open-meteo",
         topic |-> "weather", official |-> FALSE] : k \in DOMAIN some}

-----------------------------------------------------------------------------
\* grounding.py: a field is kept when every source it cites supports it

Rule(stage, topics, official, proves) ==
    [stage |-> stage, topics |-> topics, official |-> official, proves |-> proves]

Practice == {"culture", "practical"}

FieldRule ==
    [advisory_level   |-> Rule("preflight", {"safety"}, "flag", "safety"),
     advisory_summary |-> Rule("preflight", {"safety"}, "flag", "safety"),
     safety_tips      |-> Rule("preflight", {"safety"}, "flag", "none"),
     safety_plan      |-> Rule("preflight", {"safety"}, "flag", "none"),
     visa             |-> Rule("details", {"entry"}, "entry", "entry"),
     entry_plan       |-> Rule("details", {"entry"}, "entry", "none"),
     health           |-> Rule("details", {"health"}, "health", "health"),
     health_plan      |-> Rule("details", {"health"}, "health", "none"),
     emergency        |-> Rule("details", Practice, "emergency", "practical"),
     languages        |-> Rule("details", Practice, "any", "practical"),
     customs          |-> Rule("details", {"culture"}, "any", "culture"),
     culture_plan     |-> Rule("details", {"culture"}, "any", "none"),
     weather_summary  |-> Rule("details", {"weather"}, "any", "weather"),
     weather          |-> Rule("forecast", {"weather"}, "any", "weather"),
     packing          |-> Rule("details", {"culture", "entry", "health", "weather"},
                               "any", "packing")]

OfficialFor(f, s, r) ==
    CASE FieldRule[f].official = "any"  -> TRUE
      [] FieldRule[f].official = "flag" -> s.official
      [] FieldRule[f].official = "entry" -> s.domain \in EntryDomains(r)
      [] OTHER -> s.domain \in Domains[FieldRule[f].official]

Cited(sources, ids) == {s \in sources : s.id \in ids}

Supported(f, cited, r) ==
    /\ cited # {}
    /\ \A s \in cited : s.topic \in FieldRule[f].topics /\ OfficialFor(f, s, r)

Report(dests, sources, cites) == [dests |-> dests, sources |-> sources, cites |-> cites]

\* What grounding may leave of a stage's fields, whatever the model wrote and
\* cited: each field is dropped, or cites known sources that support it.
Grounded(stage, sources, r) ==
    LET mine == {f \in FieldNames : FieldRule[f].stage = stage}
        citable == UNION {kSubset(n, sources) : n \in 1 .. MaxCited}
        supported == {w \in mine \X citable : Supported(w[1], w[2], r)}
        written == {c \in [mine -> {{}} \cup {w[2] : w \in supported}] :
                      \A f \in mine : c[f] = {} \/ <<f, c[f]>> \in supported}
    IN {Report(r.dests, sources,
               [f \in {f \in mine : c[f] # {}} |-> {s.id : s \in c[f]}]) : c \in written}

\* The citations of two parts of a report; the first's prevail.
Prevail(cites, others) ==
    [f \in DOMAIN cites \cup DOMAIN others |->
       IF f \in DOMAIN cites THEN cites[f] ELSE others[f]]

\* _WeatherBatch.attach: the days, if any, cite every forecast's source.
Attach(report, forecasts, weather) ==
    Report(report.dests, report.sources \cup weather,
           IF Forecast(forecasts, {"days"}) = {} THEN report.cites
           ELSE Prevail([f \in {"weather"} |-> {s.id : s \in weather}], report.cites))

\* finalize_readiness_report: sources that nothing cites are dropped.
Finalize(report) ==
    Report(report.dests, Cited(report.sources, UNION Range(report.cites)), report.cites)

-----------------------------------------------------------------------------
\* assembly.py: the preflight's fields and the details' fields in one report

\* A source of both stages keeps the preflight's number and record.
Canonical(pre, s) ==
    IF \E p \in pre.sources : p.url = s.url
    THEN (CHOOSE p \in pre.sources : p.url = s.url).id ELSE s.id

Assemble(pre, det) ==
    Finalize(Report(det.dests,
                    pre.sources \cup {s \in det.sources : Canonical(pre, s) = s.id},
                    Prevail(pre.cites, [f \in DOMAIN det.cites |->
                      {Canonical(pre, s) : s \in Cited(det.sources, det.cites[f])}])))

\* _merge_sources: one number for two pages is an error.
NumbersClash(pre, det) ==
    \E p \in pre.sources, s \in det.sources : p.id = s.id /\ p.url # s.url

\* TravelReadinessReport._validate_evidence_links
LinksHold(report) ==
    /\ \A s, t \in report.sources : s.id = t.id => s = t
    /\ UNION Range(report.cites) \subseteq {s.id : s \in report.sources}

-----------------------------------------------------------------------------
\* coverage.py: what the evidence in the report covers

\* The pages that the searches for (d, t) returned, and those official there.
SearchedFor(d, t) ==
    {i \in Answered : calls[i].query.dest = d /\ calls[i].query.topic = t}
PagesFor(d, t) ==
    UNION {{p.url : p \in ToSet(calls[i].pages)} : i \in SearchedFor(d, t)}
OfficialPagesFor(d, t) ==
    UNION {{p.url : p \in {x \in ToSet(calls[i].pages) : IsOfficial(x.url, i)}} :
             i \in SearchedFor(d, t)}

\* The numbers of pages among the sources: of the report, once it is aligned.
NumbersOf(pages, sources) == {s.id : s \in {x \in sources : x.url \in pages}}

\* The pages that may cover a topic of a destination.
PagesCovering(d, t) ==
    CASE t = "weather" -> PagesFor(d, "weather") \cup {<<"forecast", d>>}
      [] t = "practical" -> PagesFor(d, "culture")
      [] t = "packing" -> {<<"forecast", d>>} \cup
           UNION {PagesFor(d, e) : e \in {"culture", "health", "entry", "weather"}}
      [] OTHER -> PagesFor(d, t)

\* _cited_ids and _has_grounded_value, of a report: an advisory needs both its
\* level and its summary.
Proofs(report, t) ==
    UNION {report.cites[f] : f \in {f \in DOMAIN report.cites : FieldRule[f].proves = t}}
HasValue(report, t) ==
    IF t = "safety" THEN {"advisory_level", "advisory_summary"} \subseteq DOMAIN report.cites
                    ELSE Proofs(report, t) # {}

\* Mutant: critical topics are covered by any source.
VerifiedByAny(d, t, report, sources) ==
    LET grounded == NumbersOf(PagesCovering(d, t), sources)
                      \cap {s.id : s \in report.sources} \cap Proofs(report, t)
    IN HasValue(report, t) /\ grounded # {}

Verified(d, t, report, sources) ==
    LET grounded == NumbersOf(PagesCovering(d, t), sources)
                      \cap {s.id : s \in report.sources} \cap Proofs(report, t)
    IN /\ HasValue(report, t) /\ grounded # {}
       /\ t \in Critical => grounded \subseteq NumbersOf(OfficialPagesFor(d, t), sources)

ProviderFailed(d, t, forecasts) ==
    \/ \E i \in DOMAIN calls : /\ calls[i].failed
                               /\ calls[i].query.dest = d /\ calls[i].query.topic = t
    \/ t = "weather" /\ d \in Forecast(forecasts, {"failed"})

Covered(d, t, report, sources, forecasts) ==
    [dest |-> d, topic |-> t, state |->
       IF Verified(d, t, report, sources) THEN "verified"
       ELSE IF ProviderFailed(d, t, forecasts) THEN "provider_failed" ELSE "missing"]

Coverage(dests, topics, report, sources, forecasts) ==
    {Covered(x[1], x[2], report, sources, forecasts) : x \in ToSet(dests) \X topics}

\* Mutant: only a provider's failure blocks.
OutcomeOfFailures(coverage) ==
    IF \E x \in coverage : x.topic \in Critical /\ x.state = "provider_failed"
    THEN "blocked_external" ELSE "completed"

Outcome(coverage) ==
    LET critical == {x.state : x \in {y \in coverage : y.topic \in Critical}}
    IN CASE "provider_failed" \in critical -> "blocked_external"
         [] "provider_failed" \notin critical /\ "missing" \in critical -> "no_inventory"
         [] OTHER -> "completed"

-----------------------------------------------------------------------------
\* pipeline.py: a run of the pipeline, from the node that starts it

ASSUME ReadinessAssumption ==
    /\ MaxQueries \in Nat /\ MaxRuns \in Nat
    /\ \A r \in Requests : IsList(r.dests)
    /\ \A t \in ToSet(TopicOrder) : \A pages \in Answers[t] : IsList(pages)

ASSUME NothingAssumption ==
    \A r \in Requests : \A dests \in {{}, ToSet(r.dests)} :
      Nothing \notin [kind : Kinds, request : {r}, forecasts : [dests -> Forecasts(r)]]

ReadinessInit ==
    /\ IdleTransport
    /\ run = Nothing /\ saved = Nothing /\ result = Nothing /\ runs = 0

\* The topics a run answers; the fingerprint of a preflight and of its details
\* covers safety too.
Asked(kind, r) ==
    CASE kind = "preflight" -> {"safety"}
      [] kind = "details"   -> r.topics \ {"safety"}
      [] OTHER              -> r.topics
Owned(kind, r) == IF kind = "focused" THEN r.topics ELSE r.topics \cup {"safety"}

\* The pages behind a result are kept with it, for the properties.
Ends(kind, r, status, report, coverage) ==
    /\ result' = [kind |-> kind, request |-> r, status |-> status,
                  report |-> report, coverage |-> coverage, calls |-> calls]
    /\ run' = Nothing /\ calls' = <<>>
    /\ saved' = IF kind # "preflight" THEN saved
                ELSE IF report = Nothing THEN Nothing
                ELSE [report |-> report, status |-> status, request |-> r,
                      fingerprint |-> FingerprintOf(r, Owned(kind, r))]

\* readiness_node takes the details of a saved preflight, else a focused run;
\* a request that asks for safety gets there after a completed preflight.
MayStart(kind, r) ==
    CASE kind = "preflight" -> TRUE
      [] kind = "focused"   -> saved = Nothing
      [] kind = "details"   -> saved # Nothing
                               /\ ("safety" \in r.topics => saved.status = "completed")

\* Mutant: a preflight is good for any later request.
StaleNever(kind, r) == FALSE

\* The saved preflight answers another request.
Stale(kind, r) ==
    kind = "details" /\ saved.fingerprint # FingerprintOf(r, Owned(kind, r))

Begin(kind, r, forecasts) ==
    LET queries == Plan(r, Asked(kind, r),
                         {d \in DOMAIN forecasts : forecasts[d] # "days"}) IN
    /\ run' = [kind |-> kind, request |-> r, forecasts |-> forecasts]
    /\ result' = Nothing
    /\ Gather(queries)

\* The early returns, the forecasts, which are gathered first, and the plan.
Start(kind, r) ==
    /\ run = Nothing /\ runs < MaxRuns /\ MayStart(kind, r)
    /\ runs' = runs + 1
    /\ UNCHANGED cache
    /\ LET topics == Asked(kind, r)
           unclear == "entry" \in (IF kind = "preflight" THEN r.topics ELSE topics)
                      /\ r.passport = ""
           weather == IF "weather" \in topics THEN ToSet(r.dests) ELSE {}
       IN IF unclear THEN Ends(kind, r, "needs_user_input", Nothing, {})
          ELSE IF Stale(kind, r) THEN Ends(kind, r, "stale", Nothing, {})
          ELSE IF topics = {}
          THEN Ends(kind, r, "completed",
                    IF kind = "details" THEN saved.report
                    ELSE Report(r.dests, {}, << >>), {})
          ELSE \E forecasts \in [weather -> Forecasts(r)] :
                 Begin(kind, r, forecasts) /\ UNCHANGED saved

\* The numbers a stage may not give, the preflight's.
Reserved(kind) == IF kind = "details" THEN {s.id : s \in saved.report.sources} ELSE {}

Stages(kind, r) ==
    CASE kind = "preflight" -> {"preflight"}
      [] kind = "details"   -> {"details"}
      [] OTHER -> (IF "safety" \in r.topics THEN {"preflight"} ELSE {})
                  \cup (IF r.topics \ {"safety"} # {} THEN {"details"} ELSE {})

\* The safety report that is there, or that the model may write.
Preflights(kind, r, sources) ==
    IF kind = "details" THEN {saved.report}
    ELSE IF "preflight" \in Stages(kind, r) THEN Grounded("preflight", sources, r)
    ELSE {Nothing}

Parts(kind, r, sources) ==
    IF "details" \in Stages(kind, r) THEN Grounded("details", sources, r) ELSE {Nothing}

Weathered(part, forecasts, weather) == Finalize(Attach(part, forecasts, weather))

Joined(kind, r, pre, part, forecasts, weather) ==
    IF "details" \notin Stages(kind, r) THEN Weathered(pre, forecasts, weather)
    ELSE IF kind # "details" /\ "preflight" \notin Stages(kind, r)
    THEN Weathered(part, forecasts, weather)
    ELSE Assemble(pre, Weathered(part, forecasts, weather))

\* The searches have ended: synthesis, grounding, assembly and coverage.  A
\* focused run has the model write both stages at once.
WriteReport ==
    /\ run # Nothing /\ AllEnded
    /\ LET kind == run.kind   r == run.request   forecasts == run.forecasts
           sources == Retrieved(Reserved(kind))
           weather == WeatherSources(r, forecasts,
                                     Reserved(kind) \cup {s.id : s \in sources})
       IN \E pre \in Preflights(kind, r, sources), part \in Parts(kind, r, sources) :
            LET report == Joined(kind, r, pre, part, forecasts, weather)
                coverage == Coverage(r.dests, Asked(kind, r), report,
                                     IF kind = "details" THEN report.sources
                                     ELSE sources \cup weather, forecasts)
            IN IF kind = "details" /\ pre.dests # r.dests
               THEN Ends(kind, r, "destinations_differ", Nothing, {})
               ELSE IF \/ ~LinksHold(report)
                       \/ kind = "details"
                          /\ NumbersClash(pre, Weathered(part, forecasts, weather))
               THEN Ends(kind, r, "links_broken", Nothing, {})
               ELSE Ends(kind, r, Outcome(coverage), report, coverage)
    /\ UNCHANGED <<cache, runs>>

\* The model's call raises: the node reports a provider's failure.
WritingFails ==
    /\ run # Nothing /\ AllEnded /\ Urls # <<>>
    /\ Ends(run.kind, run.request, "blocked_external", Nothing, {})
    /\ UNCHANGED <<cache, runs>>

\* The request is cut short, and the gather of the searches with it.
CutRun ==
    /\ run # Nothing
    /\ run' = Nothing /\ Cancelled
    /\ UNCHANGED <<cache, saved, result, runs>>

SearchStep ==
    /\ run # Nothing /\ \E i \in DOMAIN calls : Step(i)
    /\ UNCHANGED <<run, saved, result, runs>>

TimePasses == Age /\ UNCHANGED <<run, saved, result, runs>>

ReadinessNext ==
    \/ \E kind \in Kinds, r \in Requests : Start(kind, r)
    \/ SearchStep \/ WriteReport \/ WritingFails \/ CutRun \/ TimePasses

\* The event loop goes on with a run that is not cut: with its searches, none
\* of which waits for ever to be answered, and then with the rest of it.
Progress == CutRun \/ WritingFails \/ SearchStep \/ WriteReport

ReadinessSpec == ReadinessInit /\ [][ReadinessNext]_readinessVars
FairReadinessSpec == ReadinessSpec /\ WF_readinessVars(Progress)

-----------------------------------------------------------------------------
\* Properties

\* The searches in flight never exceed the permits, nor the answers kept the
\* cache's size.
ReadinessTypeOK ==
    /\ \A i \in DOMAIN calls : calls[i].phase \in Phases
                               /\ calls[i].tries \in 0 .. MaxAttempts
    /\ Len(calls) <= MaxQueries /\ Cardinality(Posted) <= Concurrency
    /\ Cardinality(DOMAIN cache) <= CacheSize
    /\ run # Nothing \/ calls = <<>>
    /\ saved # Nothing => LinksHold(saved.report)
    /\ runs \in 0 .. MaxRuns

\* Within the fixed budget, no optional search takes the place of a critical
\* one of any destination.
CriticalFirst ==
    run # Nothing =>
      LET r == run.request   topics == Asked(run.kind, r) IN
      (\E i \in DOMAIN calls : calls[i].query.topic \notin Critical) =>
        \A d \in ToSet(r.dests), t \in Critical :
          Wanted(t, d, r, topics, {}) =>
            \E i \in DOMAIN calls : calls[i].query = Query(d, t, r)

\* The page of source s was found by a search of the result for d and a topic
\* of es, and is official for that search where that is asked.
FoundFor(s, d, es, official) ==
    \E i \in DOMAIN result.calls :
      LET c == result.calls[i] IN
      /\ c.query.dest = d /\ c.query.topic \in es /\ ~c.failed
      /\ \E p \in ToSet(c.pages) : p.url = s.url
           /\ (official => p.domain \in c.query.domains)

Searched(t) == CASE t \in {"culture", "practical"} -> {"culture"}
                 [] t = "packing" -> {"culture", "health", "entry", "weather"}
                 [] OTHER -> {t}

\* A topic said to be covered for a destination has a source in the report,
\* cited for that topic, whose page was found for that destination and topic,
\* however often the sources were numbered anew; for a critical topic it is
\* an official page.
CoveredIsFound ==
    result # Nothing =>
      \A x \in result.coverage : x.state = "verified" =>
        \E s \in Cited(result.report.sources, Proofs(result.report, x.topic)) :
          \/ FoundFor(s, x.dest, Searched(x.topic), x.topic \in Critical)
          \/ x.topic \in {"weather", "packing"} /\ s.url = <<"forecast", x.dest>>

\* A run is completed only if an official page covers every critical topic it
\* was asked for, at every destination, however few searches the budget left.
CompletedIsCovered ==
    result # Nothing /\ result.status = "completed" =>
      \A d \in ToSet(result.request.dests) :
        \A t \in Asked(result.kind, result.request) \cap Critical :
          \E s \in result.report.sources : FoundFor(s, d, {t}, TRUE)

\* Two stages' sources, numbered apart and merged by page, never leave a
\* report with a number for two pages or a citation of no source.
LinksNeverBreak == result # Nothing => result.status # "links_broken"

\* A report with details says of safety what a preflight for the same
\* destinations, passport and dates found, with the same citations; unless the
\* country of origin changed in between, which the fingerprint leaves out, the
\* preflight asked the authority that this request would ask.
AdvisoryIsForThisTrip ==
    (result # Nothing /\ result.kind = "details" /\ result.report # Nothing) =>
      LET r == result.request   before == saved.request IN
      /\ ToSet(before.dests) = ToSet(r.dests)
      /\ before.passport = r.passport /\ before.dates = r.dates
      /\ before.origin = r.origin => AdvisoryDomains(before) = AdvisoryDomains(r)
      /\ \A f \in DOMAIN saved.report.cites :
           f \in DOMAIN result.report.cites
             /\ result.report.cites[f] = saved.report.cites[f]

\* A run that starts is answered, or cut: no search keeps it waiting.
RunsEnd == run # Nothing ~> run = Nothing

\* What a report says is grounded in what was found: every covered topic has its
\* page, and every citation its source.
ReportIsGrounded == ReadinessTypeOK /\ CoveredIsFound /\ LinksNeverBreak

\* The safety topics come first: in the budget of searches, and in what it takes
\* to complete a run.
SafetyComesFirst == CriticalFirst /\ CompletedIsCovered

=============================================================================
