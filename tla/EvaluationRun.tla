------------------------------ MODULE EvaluationRun -----------------------------
(***************************************************************************)
(* Runs of the evaluation harness (edd) of one component: each is a        *)
(* process that takes the trajectories it needs from the disposable cache  *)
(* or captures them, preserves them in the named baseline, scores them and *)
(* records one report there. Processes share only files, the source files  *)
(* among them, which somebody edits while they run; any may be killed.     *)
(***************************************************************************)
EXTENDS Judging

CONSTANTS
  Evaluated,    \* the components whose runs are explored
  MaxProcesses,       \* bound: processes alive at once
  MaxStarts,    \* bound: processes started in all
  MaxEdits,     \* bound: edits of the source files in all
  Batches,      \* names of what a capture may bring back, for each component
  Brought,      \* the runs of a batch, one for each case
  Cases,        \* the cases of the data set
  Labelled,     \* the labelled runs the judge is calibrated against
  Jobs          \* what may be started of each component: a layer, with refresh, baseline
                \* name and approval set or not, and the mood its judge will be in

ASSUME EvaluatedAssumption == Evaluated \subseteq Specialists
ASSUME JobsAssumption ==
    \A c \in Evaluated, j \in UNION {Jobs[d] : d \in Evaluated} :
      j \in Jobs[c] => /\ j.layer \in {"l1", "l2", "l3", "l4"} /\ j.mood \in Moods
                       /\ {j.refresh, j.named, j.approved} \subseteq BOOLEAN
                       /\ c \in CacheOnly => j.layer # "l1"
ASSUME BoundsAssumption == {MaxProcesses, MaxStarts, MaxEdits} \subseteq Nat
ASSUME BatchAssumption ==
    \A c \in Evaluated : \A b \in Batches[c] : Len(Brought[b]) = Len(Cases)

VARIABLES
  component,  \* the component under evaluation
  code,       \* the revisions on disk of what is evaluated and of what grades it
  cache,      \* disposable trajectory files, by fingerprint and model
  runs,       \* the named baseline's preserved runs, by fingerprint and model
  reports,    \* the named baseline's reports, oldest first
  proc,       \* what each process is doing
  starts      \* how many were started

vars == <<component, code, cache, runs, reports, proc, starts>>

-----------------------------------------------------------------------------
(* A fingerprint stands for the data set, the model and the revision of the *)
(* source files; the model is kept apart from it here.                      *)

Processes == 1..MaxProcesses
Models == {"terra", "luna", "sol"}
Revisions == 0..MaxEdits

\* The trajectory batch of a file, the code that produced it, and whether the
\* sources were edited while the process that produced it ran.
NoFile == [state |-> "none", batch |-> "none", by |-> 0, overtaken |-> FALSE]
Whole(kept) == [kept EXCEPT !.state = "whole"]
Torn(kept) == [kept EXCEPT !.state = "torn"]

Idle == [pc |-> "idle", layer |-> "l1", refresh |-> FALSE, named |-> FALSE, approved |-> FALSE,
         mood |-> "fair", by |-> 0, grader |-> 0, overtaken |-> FALSE, path |-> 0, got |-> NoFile,
         kept |-> <<>>, cites |-> [agent |-> 0, grader |-> 0]]

\* The models of a layer, whose data sets are run one after the other. The
\* judge of the tournament takes no part in it.
Layers == {"l1", "l2", "l3", "l4"}
Judge == "sol"
Lineup(layer) ==
    CASE layer = "l3" -> <<"terra", "luna">>
      [] layer = "l4" -> <<>>
      [] OTHER -> IF component = "readiness" THEN <<"sol">> ELSE <<"terra">>

ASSUME JudgeIsNeutral == Judge \notin {"terra", "luna"}

-----------------------------------------------------------------------------
(* What a process writes down of a batch: a function of the batch and, from  *)
(* the second layer on, of what the judge said.                              *)

KeptOf(c, run) == IF c = "readiness" THEN KeptReadiness(run) ELSE Kept(run)

Captured(c, b) == [i \in DOMAIN Brought[b] |-> KeptOf(c, Brought[b][i])]

OutcomeOf(c, t) ==
    CASE c = "flights" -> FlightsOutcome(t)
      [] c = "hotels" -> HotelsOutcome(t)
      [] c = "activities" -> ActivitiesOutcome(t)
      [] c = "restaurants" -> RestaurantsOutcome(t)
      [] c = "transportation" -> TransportationOutcome(t)
      [] c = "readiness" -> ReadinessOutcome(t)
      [] c = "budget" -> BudgetOutcome(t)
      [] c = "itinerary" -> ItineraryOutcome(t)

EligibleBatches ==
    [c \in Evaluated |->
       {b \in Batches[c] : \A i \in DOMAIN Brought[b] :
                             OutcomeOf(c, Captured(c, b)[i]) \notin Ineligible}]

Eligible(b) == b \in EligibleBatches[component]

\* The snapshots of the cache-only components are batches like others.
ASSUME SnapshotAssumption ==
    \A c \in Evaluated \cap CacheOnly : "good" \in EligibleBatches[c]

BattleOf(c, mood, a, b) ==
    CASE c = "flights" -> FlightsBattle(mood, a, b)
      [] c = "hotels" -> HotelsBattle(mood, a, b)
      [] c = "activities" -> ActivitiesBattle(mood, a, b)
      [] c = "restaurants" -> RestaurantsBattle(mood, a, b)
      [] c = "transportation" -> TransportationBattle(mood, a, b)
      [] c = "readiness" -> ReadinessBattle(mood, a, b)
      [] c = "budget" -> BudgetBattle(mood, a, b)
      [] c = "itinerary" -> ItineraryBattle(mood, a, b)

FailedOf(c, t, case) ==
    CASE c = "flights" -> FlightsFailed(t, case)
      [] c = "hotels" -> HotelsFailed(t, case)
      [] c = "activities" -> ActivitiesFailed(t, case)
      [] c = "restaurants" -> RestaurantsFailed(t, case)
      [] c = "transportation" -> TransportationFailed(t, case)
      [] c = "readiness" -> ReadinessFailed(t, case)

Layer1Of(c, b) ==
    CASE c = "flights" -> FlightsLayer1(b, Cases)
      [] c = "hotels" -> HotelsLayer1(b, Cases)
      [] c = "activities" -> ActivitiesLayer1(b, Cases)
      [] c = "restaurants" -> RestaurantsLayer1(b, Cases)
      [] c = "transportation" -> TransportationLayer1(b, Cases)
      [] c = "readiness" -> ReadinessLayer1(b, Cases)

Layer2Of(c, mood, b) ==
    CASE c = "flights" -> FlightsLayer2(mood, b)
      [] c = "hotels" -> HotelsLayer2(mood, b)
      [] c = "activities" -> ActivitiesLayer2(mood, b)
      [] c = "restaurants" -> RestaurantsLayer2(mood, b)
      [] c = "transportation" -> TransportationLayer2(mood, b)
      [] c = "readiness" -> ReadinessLayer2(mood, b)
      [] c = "budget" -> BudgetLayer2(mood, b)
      [] c = "itinerary" -> ItineraryLayer2(mood, b)

Layer3Of(c, mood, a, b) ==
    CASE c = "flights" -> FlightsLayer3(mood, a, b)
      [] c = "hotels" -> HotelsLayer3(mood, a, b)
      [] c = "activities" -> ActivitiesLayer3(mood, a, b)
      [] c = "restaurants" -> RestaurantsLayer3(mood, a, b)
      [] c = "transportation" -> TransportationLayer3(mood, a, b)
      [] c = "readiness" -> ReadinessLayer3(mood, a, b)
      [] c = "budget" -> BudgetLayer3(mood, a, b)
      [] c = "itinerary" -> ItineraryLayer3(mood, a, b)

\* The figures of every layer, tabulated.
MoodsOf(c) == {j.mood : j \in Jobs[c]}

Figures ==
    [c \in Evaluated |->
       [l1 |-> [b \in IF c \in CacheOnly THEN {} ELSE Batches[c] |-> Layer1Of(c, Captured(c, b))],
        l2 |-> [m \in MoodsOf(c) |-> [b \in Batches[c] |-> Layer2Of(c, m, Captured(c, b))]],
        l3 |-> [m \in MoodsOf(c) |-> [a, b \in Batches[c] |->
                  Layer3Of(c, m, Captured(c, a), Captured(c, b))]],
        l4 |-> [m \in MoodsOf(c) |-> Calibration(m, Labelled)]]]

Metrics(layer, mood, kept) ==
    LET figures == Figures[component] IN
      CASE layer = "l1" -> figures.l1[kept[1].batch]
        [] layer = "l2" -> figures.l2[mood][kept[1].batch]
        [] layer = "l3" -> figures.l3[mood][kept[1].batch, kept[2].batch]
        [] layer = "l4" -> figures.l4[mood]

\* An edited grader is taken to give figures of its own.
SameMetrics(r, q) ==
    r.by = q.by /\ Metrics(r.layer, r.mood, r.kept) = Metrics(q.layer, q.mood, q.kept)

-----------------------------------------------------------------------------
(* Init. The cache-only components have snapshots that were put there.      *)

Snapshot == [state |-> "whole", batch |-> "good", by |-> 0,
             overtaken |-> FALSE]

Init ==
    /\ component \in Evaluated
    /\ code = [agent |-> 0, grader |-> 0]
    /\ cache = [r \in Revisions |-> [m \in Models |->
                  IF component \in CacheOnly /\ r = 0 /\ m = "terra" THEN Snapshot ELSE NoFile]]
    /\ runs = [r \in Revisions |-> [m \in Models |-> NoFile]]
    /\ reports = <<>>
    /\ proc = [p \in Processes |-> Idle]
    /\ starts = 0

-----------------------------------------------------------------------------
\* A process has ended: with a report of its figures in the baseline, with a
\* conflict over a report or a run, or any other way.
Resting == {"idle", "recorded", "conflict"}

Put(p, now) == proc' = [proc EXCEPT ![p] = now]
Ends(p) == Put(p, Idle)

\* A process imports its code, then looks for the batch of its first model.
\* Layer 1 of a cache-only component is the offline gate. A process has no
\* identity: the first free one is taken.
Start(p) ==
    /\ proc[p].pc \in Resting
    /\ \A q \in 1..(p - 1) : proc[q].pc \notin Resting
    /\ starts < MaxStarts
    /\ starts' = starts + 1
    /\ \E job \in Jobs[component] :
         /\ Put(p, [Idle EXCEPT !.pc = IF job.layer = "l4" THEN "score" ELSE "load",
                                !.layer = job.layer, !.refresh = job.refresh,
                                !.named = job.named, !.approved = job.approved,
                                !.mood = job.mood, !.by = code.agent, !.grader = code.grader])
    /\ UNCHANGED <<component, code, cache, runs, reports>>

Model(p) == Lineup(proc[p].layer)[Len(proc[p].kept) + 1]

\* The batch of one model is settled: on to the next model, or to the scores.
Settled(now) ==
    [now EXCEPT !.kept = Append(@, now.got), !.got = NoFile,
                !.pc = IF Len(now.kept) + 1 = Len(Lineup(now.layer)) THEN "score" ELSE "load"]

Settle(p, now) == Put(p, IF now.named /\ component \notin CacheOnly
                         THEN [now EXCEPT !.pc = "preserve"] ELSE Settled(now))

\* Mutant of Fingerprint: the source files are left out of it.
FingerprintOfCases == 0

\* The path of a batch: the fingerprint of the files as they are now.
Fingerprint == code.agent

\* A file that cannot be read is a miss. Nothing is captured for a cache-only
\* component: a refresh is refused and a miss is an error.
Load(p) ==
    /\ proc[p].pc = "load"
    /\ LET file == cache[Fingerprint][Model(p)]
           hit == file.state = "whole"
       IN  \/ /\ hit /\ ~proc[p].refresh
              /\ Settle(p, [proc[p] EXCEPT !.path = Fingerprint, !.got = file])
           \/ /\ component \in CacheOnly
              /\ ~hit \/ proc[p].refresh
              /\ Ends(p)
           \/ /\ component \notin CacheOnly
              /\ ~hit \/ proc[p].refresh
              /\ Put(p, [proc[p] EXCEPT !.path = Fingerprint, !.pc = "capture"])
    /\ UNCHANGED <<component, code, cache, runs, reports, starts>>

\* A batch with one run that a provider or the infrastructure spoiled is
\* scored and left out of the cache and of the baseline.
Capture(p) ==
    /\ proc[p].pc = "capture"
    /\ \E b \in Batches[component] :
         LET batch == [state |-> "whole", batch |-> b, by |-> proc[p].by,
                       overtaken |-> proc[p].overtaken]
         IN  \/ /\ Eligible(b)
                /\ cache' = [cache EXCEPT ![proc[p].path][Model(p)] = Torn(batch)]
                /\ Put(p, [proc[p] EXCEPT !.got = batch, !.pc = "save"])
             \/ /\ ~Eligible(b)
                /\ Put(p, Settled([proc[p] EXCEPT !.got = batch]))
                /\ UNCHANGED cache
    /\ UNCHANGED <<component, code, runs, reports, starts>>

\* The file is complete. Of two processes writing it the later one's stays.
Save(p) ==
    /\ proc[p].pc = "save"
    /\ cache' = [cache EXCEPT ![proc[p].path][Model(p)] = Whole(proc[p].got)]
    /\ Settle(p, proc[p])
    /\ UNCHANGED <<component, code, runs, reports, starts>>

\* An existing run must hold the same trajectories, or the process ends with
\* a conflict.
SameRun(run, got) == run.batch = got.batch

Preserve(p) ==
    /\ proc[p].pc = "preserve"
    /\ LET run == runs[Fingerprint][Model(p)]
       IN  \/ /\ run.state = "none"
              /\ Put(p, [proc[p] EXCEPT !.path = Fingerprint, !.pc = "publish"])
           \/ /\ run.state # "none" /\ SameRun(run, proc[p].got)
              /\ Put(p, Settled(proc[p]))
           \/ /\ run.state # "none" /\ ~SameRun(run, proc[p].got)
              /\ Put(p, [Idle EXCEPT !.pc = "conflict"])
    /\ UNCHANGED <<component, code, cache, runs, reports, starts>>

\* Mutant of Taken: the rename replaces what is there.
NeverTaken(run) == FALSE

\* The run is written aside and renamed. Onto a directory that another process
\* published first the rename fails: with the error the code looks for, or
\* with another one that ends the process, as the file system has it.
Taken(run) == run.state # "none"

Publish(p) ==
    /\ proc[p].pc = "publish"
    /\ LET there == runs[proc[p].path][Model(p)]
       IN  \/ /\ ~Taken(there)
              /\ runs' = [runs EXCEPT ![proc[p].path][Model(p)] =
                   [Whole(proc[p].got) EXCEPT !.overtaken = @ \/ proc[p].overtaken]]
              /\ Put(p, Settled(proc[p]))
           \/ /\ Taken(there)
              /\ UNCHANGED runs
              /\ \/ Ends(p)
                 \/ SameRun(there, proc[p].got) /\ Put(p, Settled(proc[p]))
    /\ UNCHANGED <<component, code, cache, reports, starts>>

-----------------------------------------------------------------------------
(* The report *)

\* Judging costs money: the cache-only components ask for an approval, the
\* itinerary refuses a refresh with it. Their layers 2 and 3 only print, and
\* so does the calibration of the flights judge.
MayJudge(now) ==
    component \in CacheOnly => now.approved /\ (component = "itinerary" => ~now.refresh)

Records(now) ==
    /\ now.named
    /\ component \in CacheOnly => now.layer = "l4"
    /\ component = "flights" => now.layer # "l4"

\* The report cites the preserved runs by the fingerprint of the files as they
\* are now, and is left out when one is missing; a calibration cites none. Its
\* name also holds the grading sources as they are now.
Record(p) ==
    /\ proc[p].pc = "score"
    /\ LET arms == Lineup(proc[p].layer)
           preserved == \A i \in DOMAIN arms : runs[Fingerprint][arms[i]].state # "none"
       IN  \/ /\ MayJudge(proc[p]) /\ Records(proc[p]) /\ preserved
              /\ Put(p, [proc[p] EXCEPT !.pc = "check",
                   !.cites = [agent |-> IF arms = <<>> THEN 0 ELSE Fingerprint,
                              grader |-> code.grader]])
           \/ /\ ~(MayJudge(proc[p]) /\ Records(proc[p]) /\ preserved)
              /\ Ends(p)
    /\ UNCHANGED <<component, code, cache, runs, reports, starts>>

Report(now) ==
    [state |-> "torn", layer |-> now.layer, cites |-> now.cites, by |-> now.grader,
     mood |-> now.mood, kept |-> now.kept, overtaken |-> now.overtaken]

Filed(now) ==
    {i \in DOMAIN reports : reports[i].layer = now.layer /\ reports[i].cites = now.cites}

\* A report of this name has to be readable and to have the same figures. It is
\* opened only if it does not exist; if it came up meanwhile it is read again.
Agrees(now) ==
    \E i \in Filed(now) : reports[i].state = "whole" /\ SameMetrics(reports[i], Report(now))

\* Mutant of Conflicts: a report that is not complete is waited for.
ConflictsWhenWhole(now) ==
    ~Agrees(now) /\ \E i \in Filed(now) : reports[i].state = "whole"

Conflicts(now) == Filed(now) # {} /\ ~Agrees(now)

Check(p) ==
    /\ proc[p].pc = "check"
    /\ \/ /\ Filed(proc[p]) = {}
          /\ Put(p, [proc[p] EXCEPT !.pc = "create"])
       \/ /\ Agrees(proc[p])
          /\ Put(p, [proc[p] EXCEPT !.pc = "recorded"])
       \/ /\ Conflicts(proc[p])
          /\ Put(p, [Idle EXCEPT !.pc = "conflict"])
    /\ UNCHANGED <<component, code, cache, runs, reports, starts>>

Create(p) ==
    /\ proc[p].pc = "create"
    /\ \/ /\ Filed(proc[p]) = {}
          /\ reports' = Append(reports, Report(proc[p]))
          /\ Put(p, [proc[p] EXCEPT !.pc = "finish"])
       \/ /\ Filed(proc[p]) # {}
          /\ Put(p, [proc[p] EXCEPT !.pc = "check"])
          /\ UNCHANGED reports
    /\ UNCHANGED <<component, code, cache, runs, starts>>

Finish(p) ==
    /\ proc[p].pc = "finish"
    /\ reports' = [i \in DOMAIN reports |->
                     IF i \in Filed(proc[p]) THEN [reports[i] EXCEPT !.state = "whole"]
                     ELSE reports[i]]
    /\ Put(p, [proc[p] EXCEPT !.pc = "recorded"])
    /\ UNCHANGED <<component, code, cache, runs, starts>>

-----------------------------------------------------------------------------
(* Somebody edits the sources; a process is killed. *)

Edit ==
    /\ code.agent + code.grader < MaxEdits
    /\ \/ code' = [code EXCEPT !.agent = @ + 1]
       \/ code' = [code EXCEPT !.grader = @ + 1]
    /\ proc' = [p \in Processes |->
                  IF proc[p].pc \in Resting THEN proc[p] ELSE [proc[p] EXCEPT !.overtaken = TRUE]]
    /\ UNCHANGED <<component, cache, runs, reports, starts>>

\* Killed between two steps that leave files whole a process leaves nothing: it
\* is one that takes no further step. Killed in a write it leaves a torn file.
Crash(p) ==
    /\ proc[p].pc \in {"save", "finish"}
    /\ Ends(p)
    /\ UNCHANGED <<component, code, cache, runs, reports, starts>>

Step(p) ==
    \/ Load(p) \/ Capture(p) \/ Save(p) \/ Preserve(p) \/ Publish(p)
    \/ Record(p) \/ Check(p) \/ Create(p) \/ Finish(p)

Next == Edit \/ \E p \in Processes : Start(p) \/ Step(p) \/ Crash(p)

\* A process that was started and is not killed runs on: agent runs and calls of
\* the judge have a limit of time, and everything else is local.
Spec == Init /\ [][Next]_vars /\ \A p \in Processes : WF_vars(Step(p))

-----------------------------------------------------------------------------
(* compare_baselines: one row for each preserved run that a report of layer 1 *)
(* or 2 cites, with the latest report of each layer; reports that cannot be   *)
(* read are passed over.                                                      *)

LoadReports(layer) == {i \in DOMAIN reports : reports[i].layer = layer /\ reports[i].state = "whole"}

Rows == {[arm |-> Lineup(reports[i].layer)[1], run |-> reports[i].cites.agent] :
           i \in LoadReports("l1") \cup LoadReports("l2")}

SelectReport(layer, row) ==
    LET candidates == {i \in LoadReports(layer) :
                         /\ reports[i].cites.agent = row.run
                         /\ Lineup(layer)[1] = row.arm}
    IN  IF candidates = {} THEN {}
        ELSE {CHOOSE i \in candidates : \A j \in candidates : j <= i}

-----------------------------------------------------------------------------
(* Properties *)

Files == {NoFile} \cup
         [state : {"torn", "whole"}, batch : Batches[component], by : Revisions, overtaken : BOOLEAN]

\* The variables have their types and the bounds hold.
TypeOK ==
    /\ component \in Evaluated
    /\ code \in [agent : Revisions, grader : Revisions]
    /\ \A r \in Revisions, m \in Models : cache[r][m] \in Files /\ runs[r][m] \in Files
    /\ \A p \in Processes : proc[p].got \in Files /\ proc[p].layer \in Layers
    /\ starts \in 0..MaxStarts
    /\ Len(reports) <= MaxStarts

\* What is kept under a fingerprint was produced by the code it stands for and
\* has no run that a provider or the infrastructure spoiled (baseline_store.py:
\* run_fingerprint, run_cached_dataset), unless the sources were edited while
\* the process that kept it ran.
KeptUnderItsCode ==
    \A r \in Revisions, m \in Models :
      \A file \in {cache[r][m], runs[r][m]} :
        file.state # "none" => Eligible(file.batch) /\ (file.by = r \/ file.overtaken)

\* Nobody is given scores of other code than that he started (the snapshot is
\* shared by layers 1 to 3 and found by fingerprint), unless he edited it.
ScoresItsOwnCode ==
    \A p \in Processes :
      proc[p].pc = "score" /\ ~proc[p].overtaken =>
        \A k \in DOMAIN proc[p].kept :
          proc[p].kept[k].by = proc[p].by \/ proc[p].kept[k].overtaken

\* A report scored the very runs it cites, and its figures are of the grader it
\* names, unless the sources were edited under it or the batch was spoiled and
\* so never preserved (record_component_report).
ReportsScoreWhatTheyCite ==
    \A i \in DOMAIN reports :
      LET r == reports[i] IN
        /\ r.by = r.cites.grader \/ r.overtaken
        /\ \A k \in DOMAIN r.kept :
             LET run == runs[r.cites.agent][Lineup(r.layer)[k]] IN
               run.state = "whole" /\ (run.batch = r.kept[k].batch
                                        \/ ~Eligible(r.kept[k].batch) \/ r.overtaken)

\* The two layers of a row of the comparison are figures of one preserved run
\* (collect_component_rows).
RowsAreOfOneRun ==
    \A row \in Rows :
      \A i \in SelectReport("l1", row), j \in SelectReport("l2", row) :
        \/ reports[i].kept[1].batch = reports[j].kept[1].batch
        \/ \E k \in {i, j} : reports[k].overtaken \/ ~Eligible(reports[k].kept[1].batch)

\* A process told that its report is recorded finds its own figures in it
\* (record_baseline_report).
RecordedIsFound == \A p \in Processes : proc[p].pc = "recorded" => Agrees(proc[p])

\* A preserved run and a complete report never change (preserve_baseline_run,
\* record_baseline_report).
Preserved ==
    /\ \A r \in Revisions, m \in Models :
         runs[r][m].state = "whole" => runs'[r][m] = runs[r][m]
    /\ \A i \in DOMAIN reports :
         reports[i].state = "whole" => i \in DOMAIN reports' /\ reports'[i] = reports[i]

\* A conflict over a report is never raised for repeating what it records: the
\* runs, the grader or what the judge said are others, or the report is not
\* complete.
ConflictIsReal ==
    \A p \in Processes :
      proc[p].pc = "check" /\ proc'[p].pc = "conflict" =>
        \E i \in Filed(proc[p]) :
          \/ reports[i].state = "torn"
          \/ reports[i].by # proc[p].grader
          \/ reports[i].mood # proc[p].mood
          \/ \E k \in DOMAIN reports[i].kept :
               reports[i].kept[k].batch # proc[p].kept[k].batch

\* Every process ends, although another may create its report first and judges
\* and providers fail.
EvaluationEnds == \A p \in Processes : proc[p].pc \notin Resting ~> proc[p].pc \in Resting
=============================================================================
