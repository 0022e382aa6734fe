---------------------------- MODULE EvaluationProofs ----------------------------
(***************************************************************************)
(* Proofs about the evaluation harness, for any batches, cases, jobs and   *)
(* numbers of processes, starts and edits, and for any specialists, names  *)
(* and revisions of the offline baselines: what is kept and reported is    *)
(* what was scored, by the code it is kept under, nothing preserved        *)
(* changes, and what judges and checks conclude is earned.                 *)
(***************************************************************************)
EXTENDS EvaluationHarness, Sums, FiniteSetTheorems, SequenceTheorems, WellFoundedInduction,
        TLAPS

-----------------------------------------------------------------------------
(* Runs of the harness: types. The component c is an argument of what       *)
(* follows, because it never changes.                                       *)

Arms(c, layer) ==
    CASE layer = "l3" -> <<"terra", "luna">>
      [] layer = "l4" -> <<>>
      [] OTHER -> IF c = "readiness" THEN <<"sol">> ELSE <<"terra">>

Told(c, layer, mood, kept) ==
    LET figures == Figures[c] IN
      CASE layer = "l1" -> figures.l1[kept[1].batch]
        [] layer = "l2" -> figures.l2[mood][kept[1].batch]
        [] layer = "l3" -> figures.l3[mood][kept[1].batch, kept[2].batch]
        [] layer = "l4" -> figures.l4[mood]

FilesOf(c) ==
    {NoFile} \cup
    [state : {"torn", "whole"}, batch : Batches[c], by : Revisions, overtaken : BOOLEAN]

Citations == [agent : Revisions, grader : Revisions]

Loading == {"load", "capture", "save", "preserve", "publish"}
Active == Loading \cup {"score", "check", "create"}
Running == Active \cup {"finish"}

RunsOf(c) ==
    [pc : Running \cup Resting, layer : Layers, refresh : BOOLEAN, named : BOOLEAN,
     approved : BOOLEAN, mood : Moods, by : Revisions, grader : Revisions,
     overtaken : BOOLEAN, path : Revisions, got : FilesOf(c), kept : Seq(FilesOf(c)),
     cites : Citations]

ReportsOf(c) ==
    [state : {"torn", "whole"}, layer : Layers, cites : Citations, by : Revisions,
     mood : Moods, kept : Seq(FilesOf(c)), overtaken : BOOLEAN]

RunTypeOK ==
    /\ component \in Evaluated
    /\ code \in Citations
    /\ cache \in [Revisions -> [Models -> FilesOf(component)]]
    /\ runs \in [Revisions -> [Models -> FilesOf(component)]]
    /\ reports \in Seq(ReportsOf(component))
    /\ proc \in [Processes -> RunsOf(component)]
    /\ starts \in 0..MaxStarts

-----------------------------------------------------------------------------
(* What a process x of component c may rely on, with the sources `now` and  *)
(* the preserved `files` on disk.                                           *)

Fit(c, batch) == batch \in EligibleBatches[c]

\* The run of the k-th model that is preserved under a fingerprint.
Arm(c, x, revision_, k, files) == files[revision_][Arms(c, x.layer)[k]]

\* One batch is settled for each model.
IsInLine(x, c) ==
    /\ x.pc \in Loading => Len(x.kept) < Len(Arms(c, x.layer))
    /\ x.pc \in (Running \cup {"recorded"}) \ Loading => Len(x.kept) = Len(Arms(c, x.layer))

\* What it has settled it got from the code it runs, and has preserved.
IsSettled(x, c, batch, k, files) ==
    /\ batch.by = x.by \/ batch.overtaken
    /\ x.named /\ c \notin CacheOnly /\ Fit(c, batch.batch) =>
         /\ Arm(c, x, x.by, k, files).state # "none"
         /\ Arm(c, x, x.by, k, files).batch = batch.batch

\* As long as the sources are not edited under it, it runs what is on disk.
IsUpToDate(x, c, now, files) ==
    ~x.overtaken /\ x.pc \in Running =>
      /\ x.by = now.agent /\ x.grader = now.grader
      /\ x.pc \in {"capture", "save", "publish"} => x.path = x.by
      /\ x.pc \in {"save", "preserve", "publish"} => x.got.by = x.by \/ x.got.overtaken
      /\ \A k \in DOMAIN x.kept : IsSettled(x, c, x.kept[k], k, files)

\* The batch it is about to keep.
HoldsBatch(x, c) ==
    /\ x.pc \in {"capture", "save", "preserve", "publish"} => c \notin CacheOnly
    /\ x.pc \in {"preserve", "publish"} => x.named
    /\ x.pc \in {"save", "preserve", "publish"} => x.got.state = "whole" /\ Fit(c, x.got.batch)
    /\ x.pc = "save" => x.got.by = x.path \/ x.got.overtaken

\* The preserved runs a report cites are those it has the figures of.
CitesRuns(r, c, files) ==
    \A k \in DOMAIN r.kept :
      LET run == Arm(c, r, r.cites.agent, k, files) IN
        /\ run.state = "whole"
        /\ run.batch = r.kept[k].batch \/ ~Fit(c, r.kept[k].batch) \/ r.overtaken

IsReporting(x, c, files) ==
    x.pc \in {"check", "create", "finish"} =>
      (x.grader = x.cites.grader \/ x.overtaken) /\ CitesRuns(x, c, files)

\* Report r has the figures of process x.
Tells(r, x, c) ==
    /\ r.layer = x.layer /\ r.cites = x.cites /\ r.by = x.grader
    /\ Told(c, r.layer, r.mood, r.kept) = Told(c, x.layer, x.mood, x.kept)

IsReported(x, c, written) ==
    /\ x.pc = "finish" => \E i \in DOMAIN written : Tells(written[i], x, c)
    /\ x.pc = "recorded" =>
         \E i \in DOMAIN written : written[i].state = "whole" /\ Tells(written[i], x, c)

RunSound(x, c, now, files, written) ==
    /\ IsInLine(x, c) /\ IsUpToDate(x, c, now, files) /\ HoldsBatch(x, c)
    /\ IsReporting(x, c, files) /\ IsReported(x, c, written)

ReportSound(r, c, files) ==
    /\ Len(r.kept) = Len(Arms(c, r.layer))
    /\ r.by = r.cites.grader \/ r.overtaken
    /\ CitesRuns(r, c, files)

FileSound(file, c, r) ==
    file.state # "none" => Fit(c, file.batch) /\ (file.by = r \/ file.overtaken)

\* Processes that may still write a report.
Pending(runs_) == {p \in Processes : runs_[p].pc \in Active}

RunInv ==
    /\ RunTypeOK
    /\ \A r \in Revisions, m \in Models :
         /\ FileSound(cache[r][m], component, r) /\ FileSound(runs[r][m], component, r)
         /\ runs[r][m].state # "torn"
    /\ \A i \in DOMAIN reports : ReportSound(reports[i], component, runs)
    /\ \A p \in Processes : RunSound(proc[p], component, code, runs, reports)
    /\ Cardinality(Pending(proc)) + Len(reports) <= starts

-----------------------------------------------------------------------------
(* Models, batches and files. *)

LEMMA ArmsAre ==
    ASSUME NEW c, NEW layer \in Layers
    PROVE  /\ Arms(c, layer) \in Seq(Models)
           /\ Len(Arms(c, layer)) = IF layer = "l3" THEN 2 ELSE IF layer = "l4" THEN 0 ELSE 1
           /\ \A k \in 1..Len(Arms(c, layer)) : Arms(c, layer)[k] \in Models
<1> DEFINE arms == Arms(c, layer)
           right(s) == /\ s \in Seq(Models) /\ \A k \in 1..Len(s) : s[k] \in Models
                       /\ Len(s) = IF layer = "l3" THEN 2 ELSE IF layer = "l4" THEN 0 ELSE 1
<1>1. right(arms)
  <2>1. CASE layer = "l3"
    <3>1. arms = <<"terra", "luna">>
      BY <2>1 DEF Arms
    <3>2. right(<<"terra", "luna">>)
      BY <2>1 DEF Models
    <3> HIDE DEF arms, right
    <3> QED BY <3>1, <3>2
  <2>2. CASE layer = "l4"
    <3>1. arms = <<>>
      BY <2>2 DEF Arms
    <3>2. right(<<>>)
      BY <2>2
    <3> HIDE DEF arms, right
    <3> QED BY <3>1, <3>2
  <2>3. CASE layer # "l3" /\ layer # "l4"
    <3>1. arms = <<"sol">> \/ arms = <<"terra">>
      BY <2>3 DEF Arms
    <3>2. right(<<"sol">>) /\ right(<<"terra">>)
      BY <2>3 DEF Models
    <3> HIDE DEF arms, right
    <3> QED BY <3>1, <3>2
  <2> QED BY <2>1, <2>2, <2>3
<1> QED BY <1>1

LEMMA LineupIs ==
    ASSUME NEW layer \in Layers
    PROVE  Lineup(layer) = Arms(component, layer)
  BY DEF Lineup, Arms

\* Nobody changes what is there.
FilesStay(files, files2) ==
    \A r \in Revisions, m \in Models : files[r][m].state # "none" => files2[r][m] = files[r][m]

ReportsStay(written, written2) ==
    \A i \in DOMAIN written :
      /\ i \in DOMAIN written2
      /\ written[i].state = "whole" => written2[i].state = "whole"
      /\ written2[i].layer = written[i].layer /\ written2[i].cites = written[i].cites
      /\ written2[i].by = written[i].by /\ written2[i].mood = written[i].mood
      /\ written2[i].kept = written[i].kept /\ written2[i].overtaken = written[i].overtaken

LEMMA ArmIsPlace ==
    ASSUME NEW c, NEW x, x.layer \in Layers, Len(x.kept) \in Nat, DOMAIN x.kept = 1..Len(x.kept),
           Len(x.kept) <= Len(Arms(c, x.layer)), NEW k \in DOMAIN x.kept
    PROVE  Arms(c, x.layer)[k] \in Models
  BY ArmsAre

LEMMA CitesStay ==
    ASSUME NEW c, NEW r, r.layer \in Layers, Len(r.kept) \in Nat, DOMAIN r.kept = 1..Len(r.kept),
           Len(r.kept) <= Len(Arms(c, r.layer)), r.cites.agent \in Revisions,
           NEW files, NEW files2, FilesStay(files, files2), CitesRuns(r, c, files)
    PROVE  CitesRuns(r, c, files2)
<1>1. ASSUME NEW k \in DOMAIN r.kept
      PROVE  Arm(c, r, r.cites.agent, k, files2) = Arm(c, r, r.cites.agent, k, files)
  BY ArmIsPlace DEF CitesRuns, Arm, FilesStay
<1> QED BY <1>1 DEF CitesRuns

LEMMA RunIs ==
    ASSUME NEW c, NEW x \in RunsOf(c)
    PROVE  /\ x.pc \in Running \cup Resting /\ x.layer \in Layers /\ x.mood \in Moods
           /\ {x.refresh, x.named, x.approved, x.overtaken} \subseteq BOOLEAN
           /\ {x.by, x.grader, x.path} \subseteq Revisions
           /\ x.got \in FilesOf(c) /\ x.kept \in Seq(FilesOf(c))
           /\ Len(x.kept) \in Nat /\ DOMAIN x.kept = 1..Len(x.kept)
           /\ x.cites \in Citations /\ {x.cites.agent, x.cites.grader} \subseteq Revisions
<1>1. /\ x.pc \in Running \cup Resting /\ x.layer \in Layers /\ x.mood \in Moods
      /\ {x.refresh, x.named, x.approved, x.overtaken} \subseteq BOOLEAN
      /\ {x.by, x.grader, x.path} \subseteq Revisions
      /\ x.got \in FilesOf(c) /\ x.kept \in Seq(FilesOf(c)) /\ x.cites \in Citations
  BY DEF RunsOf
<1> QED BY <1>1, LenProperties DEF Citations

LEMMA ReportIs ==
    ASSUME NEW c, NEW r \in ReportsOf(c)
    PROVE  /\ r.layer \in Layers /\ r.cites \in Citations
           /\ {r.cites.agent, r.cites.grader} \subseteq Revisions
           /\ Len(r.kept) \in Nat /\ DOMAIN r.kept = 1..Len(r.kept)
<1>1. r.layer \in Layers /\ r.cites \in Citations /\ r.kept \in Seq(FilesOf(c))
  BY DEF ReportsOf
<1> QED BY <1>1, LenProperties DEF Citations

\* What a process relies on does not go away.
LEMMA SoundStays ==
    ASSUME NEW c, NEW x \in RunsOf(c), NEW now, NEW files, NEW files2, NEW written, NEW written2,
           FilesStay(files, files2), ReportsStay(written, written2),
           RunSound(x, c, now, files, written)
    PROVE  RunSound(x, c, now, files2, written2)
<1>1. /\ x.pc \in Running \cup Resting /\ x.layer \in Layers /\ x.by \in Revisions
      /\ Len(x.kept) \in Nat /\ DOMAIN x.kept = 1..Len(x.kept) /\ x.cites.agent \in Revisions
  BY RunIs
<1>2. IsInLine(x, c) /\ HoldsBatch(x, c)
  BY DEF RunSound
<1>3. x.pc \in Running => Len(x.kept) <= Len(Arms(c, x.layer))
  <2>1. Len(Arms(c, x.layer)) \in Nat
    BY <1>1, ArmsAre
  <2> QED BY <1>1, <1>2, <2>1 DEF IsInLine, Running, Active, Loading
<1>4. IsUpToDate(x, c, now, files2)
  <2> SUFFICES ASSUME ~x.overtaken, x.pc \in Running, NEW k \in DOMAIN x.kept
               PROVE  IsSettled(x, c, x.kept[k], k, files2)
    BY DEF RunSound, IsUpToDate
  <2>1. IsSettled(x, c, x.kept[k], k, files)
    BY DEF RunSound, IsUpToDate
  <2>2. Arms(c, x.layer)[k] \in Models
    BY <1>1, <1>3, ArmIsPlace
  <2>3. Arm(c, x, x.by, k, files).state # "none" =>
          Arm(c, x, x.by, k, files2) = Arm(c, x, x.by, k, files)
    BY <1>1, <2>2 DEF Arm, FilesStay
  <2> QED BY <2>1, <2>3 DEF IsSettled
<1>5. IsReporting(x, c, files2)
  <2> SUFFICES ASSUME x.pc \in {"check", "create", "finish"}
               PROVE  (x.grader = x.cites.grader \/ x.overtaken) /\ CitesRuns(x, c, files2)
    BY DEF IsReporting
  <2>1. (x.grader = x.cites.grader \/ x.overtaken) /\ CitesRuns(x, c, files)
    BY DEF RunSound, IsReporting
  <2>2. Len(x.kept) <= Len(Arms(c, x.layer))
    BY <1>3 DEF Running, Active
  <2> QED BY <1>1, <2>1, <2>2, CitesStay
<1>6. IsReported(x, c, written2)
  BY DEF RunSound, IsReported, Tells, ReportsStay
<1> QED BY <1>2, <1>4, <1>5, <1>6 DEF RunSound

-----------------------------------------------------------------------------
(* Steps of processes. *)

LEMMA FewPending ==
    ASSUME NEW now
    PROVE  IsFiniteSet(Pending(now)) /\ Cardinality(Pending(now)) \in Nat
<1>1. IsFiniteSet(Processes)
  BY FS_Interval, BoundsAssumption DEF Processes
<1> QED BY <1>1, FS_Subset, FS_CardinalityType DEF Pending

\* One process steps; what the others rely on stays.
LEMMA OneMoves ==
    ASSUME RunInv, NEW p \in Processes, NEW y \in RunsOf(component), Put(p, y),
           component' = component, code' = code,
           FilesStay(runs, runs'), ReportsStay(reports, reports'),
           RunSound(y, component, code, runs', reports')
    PROVE  /\ proc' \in [Processes -> RunsOf(component')]
           /\ \A q \in Processes : RunSound(proc'[q], component', code', runs', reports')
<1>1. /\ proc \in [Processes -> RunsOf(component)]
      /\ \A q \in Processes : RunSound(proc[q], component, code, runs, reports)
  BY DEF RunInv, RunTypeOK
<1>2. proc' \in [Processes -> RunsOf(component)]
  BY <1>1 DEF Put
<1>3. ASSUME NEW q \in Processes PROVE RunSound(proc'[q], component, code, runs', reports')
  <2>1. CASE q = p
    BY <1>1, <2>1 DEF Put
  <2>2. CASE q # p
    <3>1. proc'[q] = proc[q] /\ proc[q] \in RunsOf(component)
      BY <1>1, <2>2 DEF Put
    <3>2. RunSound(proc[q], component, code, runs', reports')
      BY <1>1, <3>1, SoundStays
    <3> QED BY <3>1, <3>2
  <2> QED BY <2>1, <2>2
<1> QED BY <1>2, <1>3

\* Reports stay true while runs are only added.
LEMMA TrueReportsStay ==
    ASSUME RunInv, FilesStay(runs, runs'), NEW i \in DOMAIN reports
    PROVE  ReportSound(reports[i], component, runs')
<1>1. reports[i] \in ReportsOf(component) /\ ReportSound(reports[i], component, runs)
  BY ElementOfSeq DEF RunInv, RunTypeOK
<1>2. Len(reports[i].kept) <= Len(Arms(component, reports[i].layer))
  BY <1>1, ReportIs DEF ReportSound
<1> QED BY <1>1, <1>2, ReportIs, CitesStay DEF ReportSound

FilesSound(files, c) ==
    /\ files \in [Revisions -> [Models -> FilesOf(c)]]
    /\ \A r \in Revisions, m \in Models : FileSound(files[r][m], c, r)

\* A process steps that starts nothing and writes no further report.
LEMMA StepKeeps ==
    ASSUME RunInv, NEW p \in Processes, NEW y \in RunsOf(component), Put(p, y),
           proc[p].pc \in Active \/ y.pc \notin Active,
           UNCHANGED <<component, code, starts>>,
           FilesSound(cache', component), FilesSound(runs', component),
           \A r \in Revisions, m \in Models : runs'[r][m].state # "torn",
           FilesStay(runs, runs'), ReportsStay(reports, reports'),
           reports' \in Seq(ReportsOf(component)), Len(reports') = Len(reports),
           \A i \in DOMAIN reports' : ReportSound(reports'[i], component, runs'),
           RunSound(y, component, code, runs', reports')
    PROVE  RunInv'
<1>1. /\ proc' \in [Processes -> RunsOf(component')]
      /\ \A q \in Processes : RunSound(proc'[q], component', code', runs', reports')
  BY OneMoves
<1>2. RunTypeOK'
  <2>1. component \in Evaluated /\ code \in Citations /\ starts \in 0..MaxStarts
    BY DEF RunInv, RunTypeOK
  <2> QED BY <1>1, <2>1 DEF RunTypeOK, FilesSound
<1>3. Pending(proc') \subseteq Pending(proc)
  <2>1. proc \in [Processes -> RunsOf(component)]
    BY DEF RunInv, RunTypeOK
  <2> QED BY <2>1 DEF Pending, Put
<1>4. Cardinality(Pending(proc')) <= Cardinality(Pending(proc))
  BY <1>3, FewPending, FS_Subset
<1>5. Cardinality(Pending(proc')) + Len(reports') <= starts'
  <2>1. /\ Cardinality(Pending(proc)) + Len(reports) <= starts /\ Len(reports) \in Nat
        /\ starts \in Nat
    BY LenProperties DEF RunInv, RunTypeOK
  <2> QED BY <1>4, <2>1, FewPending
<1> QED BY <1>1, <1>2, <1>5 DEF RunInv, FilesSound

LEMMA MoveKeeps ==
    ASSUME RunInv, NEW p \in Processes, NEW y \in RunsOf(component), Put(p, y),
           proc[p].pc \in Active \/ y.pc \notin Active,
           UNCHANGED <<component, code, cache, runs, reports, starts>>,
           RunSound(y, component, code, runs, reports)
    PROVE  RunInv'
<1>1. FilesSound(cache, component) /\ FilesSound(runs, component)
  BY DEF RunInv, RunTypeOK, FilesSound
<1>2. FilesStay(runs, runs') /\ ReportsStay(reports, reports')
  BY DEF FilesStay, ReportsStay
<1>3. /\ reports \in Seq(ReportsOf(component))
      /\ \A i \in DOMAIN reports : ReportSound(reports[i], component, runs)
      /\ \A r \in Revisions, m \in Models : runs[r][m].state # "torn"
  BY DEF RunInv, RunTypeOK
<1> HIDE DEF RunInv
<1> QED BY <1>1, <1>2, <1>3, StepKeeps

-----------------------------------------------------------------------------
(* The records a step leaves a process in. *)

\* What a process was started for.
SameJob(x, y) ==
    /\ y.layer = x.layer /\ y.refresh = x.refresh /\ y.named = x.named
    /\ y.approved = x.approved /\ y.mood = x.mood /\ y.by = x.by /\ y.grader = x.grader
    /\ y.overtaken = x.overtaken

LEMMA Staged ==
    ASSUME NEW c, NEW x \in RunsOf(c), NEW stage \in Running \cup Resting
    PROVE  LET y == [x EXCEPT !.pc = stage] IN
           /\ y \in RunsOf(c) /\ SameJob(x, y) /\ y.pc = stage /\ y.path = x.path
           /\ y.got = x.got /\ y.kept = x.kept /\ y.cites = x.cites
  BY DEF RunsOf, SameJob

LEMMA Got ==
    ASSUME NEW c, NEW x \in RunsOf(c), NEW file \in FilesOf(c)
    PROVE  LET y == [x EXCEPT !.got = file] IN
           /\ y \in RunsOf(c) /\ SameJob(x, y) /\ y.pc = x.pc /\ y.path = x.path
           /\ y.got = file /\ y.kept = x.kept /\ y.cites = x.cites
  BY DEF RunsOf, SameJob

LEMMA SettledIs ==
    ASSUME NEW c, NEW x \in RunsOf(c), component = c
    PROVE  /\ Settled(x) \in RunsOf(c) /\ SameJob(x, Settled(x))
           /\ Settled(x).kept = Append(x.kept, x.got) /\ Settled(x).cites = x.cites
           /\ Settled(x).pc = IF Len(x.kept) + 1 = Len(Arms(c, x.layer)) THEN "score" ELSE "load"
<1> DEFINE stage == IF Len(x.kept) + 1 = Len(Arms(c, x.layer)) THEN "score" ELSE "load"
           row == Append(x.kept, x.got)
<1>1. Settled(x) = [x EXCEPT !.kept = row, !.got = NoFile, !.pc = stage]
  <2>1. x.layer \in Layers /\ Lineup(x.layer) = Arms(c, x.layer)
    BY RunIs, LineupIs
  <2>2. [x EXCEPT !.kept = Append(@, x.got)] = [x EXCEPT !.kept = row]
    OBVIOUS
  <2> QED BY <2>1, <2>2 DEF Settled
<1>2. NoFile \in FilesOf(c) /\ stage \in Running
  BY DEF FilesOf, Running, Active, Loading
<1>3. row \in Seq(FilesOf(c))
  BY RunIs, AppendProperties
<1> HIDE DEF stage, row
<1>4. [x EXCEPT !.kept = row, !.got = NoFile, !.pc = stage] \in RunsOf(c)
  BY <1>2, <1>3 DEF RunsOf
<1>5. LET y == [x EXCEPT !.kept = row, !.got = NoFile, !.pc = stage] IN
      SameJob(x, y) /\ y.kept = row /\ y.cites = x.cites /\ y.pc = stage
  BY DEF RunsOf, SameJob
<1> QED BY <1>1, <1>4, <1>5 DEF stage, row

LEMMA IdleIs ==
    ASSUME NEW c
    PROVE  /\ Idle \in RunsOf(c) /\ Idle.pc = "idle" /\ ~Idle.overtaken /\ Idle.kept = <<>>
           /\ [Idle EXCEPT !.pc = "conflict"] \in RunsOf(c)
           /\ [Idle EXCEPT !.pc = "conflict"].pc = "conflict"
<1>1. 0 \in Revisions /\ NoFile \in FilesOf(c) /\ <<>> \in Seq(FilesOf(c)) /\ "l1" \in Layers
      /\ "fair" \in Moods
  BY BoundsAssumption DEF Revisions, FilesOf, Layers, Moods
<1>2. Idle \in RunsOf(c)
  BY <1>1 DEF Idle, RunsOf, Resting, Citations
<1>3. "conflict" \in Running \cup Resting
  BY DEF Resting
<1> QED BY <1>2, <1>3, Staged DEF Idle

\* Nothing is expected of a process that has ended without a report.
LEMMA EndedIsSound ==
    ASSUME NEW y, y.pc \in {"idle", "conflict"}, NEW c, NEW now, NEW files, NEW written
    PROVE  RunSound(y, c, now, files, written) /\ y.pc \notin Active
  BY DEF RunSound, IsInLine, IsUpToDate, HoldsBatch, IsReporting, IsReported, Running, Active,
         Loading

-----------------------------------------------------------------------------
(* A batch is settled. *)

LEMMA ModelIs ==
    ASSUME RunInv, NEW p \in Processes, proc[p].pc \in Loading
    PROVE  /\ proc[p] \in RunsOf(component) /\ RunSound(proc[p], component, code, runs, reports)
           /\ Len(proc[p].kept) < Len(Arms(component, proc[p].layer))
           /\ Model(p) = Arms(component, proc[p].layer)[Len(proc[p].kept) + 1]
           /\ Model(p) \in Models
<1>1. proc[p] \in RunsOf(component) /\ RunSound(proc[p], component, code, runs, reports)
  BY DEF RunInv, RunTypeOK
<1>2. Len(proc[p].kept) < Len(Arms(component, proc[p].layer))
  BY <1>1 DEF RunSound, IsInLine
<1>3. /\ proc[p].layer \in Layers /\ Len(proc[p].kept) \in Nat
      /\ Lineup(proc[p].layer) = Arms(component, proc[p].layer)
      /\ Len(Arms(component, proc[p].layer)) \in Nat
      /\ \A k \in 1..Len(Arms(component, proc[p].layer)) :
           Arms(component, proc[p].layer)[k] \in Models
  BY <1>1, RunIs, LineupIs, ArmsAre
<1>4. Len(proc[p].kept) + 1 \in 1..Len(Arms(component, proc[p].layer))
  BY <1>2, <1>3
<1> QED BY <1>1, <1>2, <1>3, <1>4 DEF Model

\* What is expected of the batch that a process has got for its next model.
MaySettle(x, c, now, files) ==
    ~x.overtaken =>
      /\ x.by = now.agent /\ x.grader = now.grader
      /\ IsSettled(x, c, x.got, Len(x.kept) + 1, files)
      /\ \A k \in DOMAIN x.kept : IsSettled(x, c, x.kept[k], k, files)

LEMMA SettledSound ==
    ASSUME NEW x \in RunsOf(component), NEW now, NEW files, NEW written,
           Len(x.kept) < Len(Arms(component, x.layer)), MaySettle(x, component, now, files)
    PROVE  RunSound(Settled(x), component, now, files, written)
<1> DEFINE y == Settled(x)
           n == Len(Arms(component, x.layer))
<1>1. /\ y \in RunsOf(component) /\ SameJob(x, y) /\ y.kept = Append(x.kept, x.got)
      /\ y.pc = IF Len(x.kept) + 1 = n THEN "score" ELSE "load"
  BY SettledIs
<1>2. /\ y.layer = x.layer /\ y.named = x.named /\ y.by = x.by /\ y.grader = x.grader
      /\ y.overtaken = x.overtaken
  BY <1>1 DEF SameJob
<1>3. /\ Len(x.kept) \in Nat /\ n \in Nat /\ DOMAIN x.kept = 1..Len(x.kept)
      /\ x.kept \in Seq(FilesOf(component)) /\ x.got \in FilesOf(component)
  BY RunIs, ArmsAre
<1>4. /\ Len(y.kept) = Len(x.kept) + 1 /\ y.kept[Len(x.kept) + 1] = x.got
      /\ \A k \in 1..Len(x.kept) : y.kept[k] = x.kept[k]
      /\ DOMAIN y.kept = 1..(Len(x.kept) + 1)
  BY <1>1, <1>3, AppendProperties
<1> HIDE DEF y, n
<1>5. y.pc \in {"score", "load"} /\ (y.pc = "score" => Len(y.kept) = n)
      /\ (y.pc = "load" => Len(y.kept) < n)
  <2>1. Len(x.kept) < n
    BY DEF n
  <2> QED BY <1>1, <1>3, <1>4, <2>1
<1>6. IsInLine(y, component)
  <2>1. Arms(component, y.layer) = Arms(component, x.layer)
    BY <1>2
  <2> QED BY <2>1, <1>5 DEF IsInLine, Running, Active, Loading, n
<1>7. IsUpToDate(y, component, now, files)
  <2> SUFFICES ASSUME ~y.overtaken
               PROVE  /\ y.by = now.agent /\ y.grader = now.grader
                      /\ \A k \in DOMAIN y.kept : IsSettled(y, component, y.kept[k], k, files)
    BY <1>5 DEF IsUpToDate
  <2>1. /\ x.by = now.agent /\ x.grader = now.grader
        /\ IsSettled(x, component, x.got, Len(x.kept) + 1, files)
        /\ \A k \in DOMAIN x.kept : IsSettled(x, component, x.kept[k], k, files)
    BY <1>2 DEF MaySettle
  <2>2. ASSUME NEW k \in DOMAIN y.kept PROVE IsSettled(y, component, y.kept[k], k, files)
    <3>1. IsSettled(x, component, y.kept[k], k, files)
      BY <1>3, <1>4, <2>1
    <3> QED BY <1>2, <3>1 DEF IsSettled, Arm
  <2> QED BY <1>2, <2>1, <2>2
<1>8. HoldsBatch(y, component) /\ IsReporting(y, component, files)
      /\ IsReported(y, component, written)
  BY <1>5 DEF HoldsBatch, IsReporting, IsReported
<1> QED BY <1>6, <1>7, <1>8 DEF RunSound, y

\* The state a batch that was found or captured leaves a process in.
SettlesAt(x, c) ==
    IF x.named /\ c \notin CacheOnly THEN [x EXCEPT !.pc = "preserve"] ELSE Settled(x)

LEMMA SettlesSound ==
    ASSUME NEW x \in RunsOf(component), NEW now, NEW files, NEW written,
           x.pc \in Loading,
           Len(x.kept) < Len(Arms(component, x.layer)), Fit(component, x.got.batch),
           x.got.state = "whole",
           ~x.overtaken => /\ x.by = now.agent /\ x.grader = now.grader
                           /\ x.got.by = x.by \/ x.got.overtaken
                           /\ \A k \in DOMAIN x.kept : IsSettled(x, component, x.kept[k], k, files)
    PROVE  /\ SettlesAt(x, component) \in RunsOf(component)
           /\ RunSound(SettlesAt(x, component), component, now, files, written)
<1>1. CASE x.named /\ component \notin CacheOnly
  <2> DEFINE y == [x EXCEPT !.pc = "preserve"]
  <2>1. /\ y \in RunsOf(component) /\ SameJob(x, y) /\ y.pc = "preserve" /\ y.path = x.path
        /\ y.got = x.got /\ y.kept = x.kept /\ y.cites = x.cites
    <3>1. "preserve" \in Running \cup Resting
      BY DEF Running, Active, Loading
    <3> QED BY <3>1, Staged
  <2> HIDE DEF y
  <2>2. RunSound(y, component, now, files, written)
    <3>1. IsInLine(y, component)
      BY <2>1 DEF IsInLine, SameJob, Loading, Running
    <3>2. IsUpToDate(y, component, now, files)
      <4> SUFFICES ASSUME ~y.overtaken
                   PROVE  /\ y.by = now.agent /\ y.grader = now.grader
                          /\ y.got.by = y.by \/ y.got.overtaken
                          /\ \A k \in DOMAIN y.kept : IsSettled(y, component, y.kept[k], k, files)
        BY <2>1 DEF IsUpToDate
      <4>1. ASSUME NEW k \in DOMAIN y.kept PROVE IsSettled(y, component, y.kept[k], k, files)
        <5>1. IsSettled(x, component, x.kept[k], k, files)
          BY <2>1 DEF SameJob
        <5> QED BY <2>1, <5>1 DEF IsSettled, Arm, SameJob
      <4> QED BY <2>1, <4>1 DEF SameJob
    <3>3. HoldsBatch(y, component)
      BY <1>1, <2>1 DEF HoldsBatch, SameJob
    <3>4. IsReporting(y, component, files) /\ IsReported(y, component, written)
      BY <2>1 DEF IsReporting, IsReported
    <3> QED BY <3>1, <3>2, <3>3, <3>4 DEF RunSound
  <2> QED BY <1>1, <2>1, <2>2 DEF SettlesAt, y
<1>2. CASE ~(x.named /\ component \notin CacheOnly)
  <2>1. SettlesAt(x, component) = Settled(x)
    BY <1>2 DEF SettlesAt
  <2>2. MaySettle(x, component, now, files)
    BY <1>2 DEF MaySettle, IsSettled
  <2> QED BY <2>1, <2>2, SettledIs, SettledSound
<1> QED BY <1>1, <1>2

-----------------------------------------------------------------------------
(* The trajectories. *)

\* A file of the cache is complete and fit; what it is kept under it is of.
LEMMA HitIsFit ==
    ASSUME RunInv, NEW r \in Revisions, NEW m \in Models
    PROVE  /\ cache[r][m] \in FilesOf(component) /\ runs[r][m] \in FilesOf(component)
           /\ FileSound(cache[r][m], component, r) /\ FileSound(runs[r][m], component, r)
           /\ runs[r][m].state # "torn"
  BY DEF RunInv, RunTypeOK

LEMMA FingerprintIs ==
    ASSUME RunInv
    PROVE  Fingerprint \in Revisions /\ Fingerprint = code.agent /\ code.grader \in Revisions
           /\ component \in Evaluated
  BY DEF RunInv, RunTypeOK, Citations, Fingerprint

LEMMA LoadKeeps ==
    ASSUME RunInv, NEW p \in Processes, Load(p)
    PROVE  RunInv'
<1> DEFINE x == proc[p]
           c == component
           file == cache[Fingerprint][Model(p)]
<1>1. x.pc = "load" /\ x.pc \in Loading /\ x.pc \in Active
  BY DEF Load, Loading, Active
<1>2. /\ x \in RunsOf(c) /\ RunSound(x, c, code, runs, reports)
      /\ Len(x.kept) < Len(Arms(c, x.layer)) /\ Model(p) \in Models
  BY <1>1, ModelIs
<1>3. Fingerprint \in Revisions /\ Fingerprint = code.agent
  BY FingerprintIs
<1>4. file \in FilesOf(c) /\ FileSound(file, c, Fingerprint)
  BY <1>2, <1>3, HitIsFit
<1>5. UNCHANGED <<component, code, cache, runs, reports, starts>>
  BY DEF Load
<1>6. ~x.overtaken => /\ x.by = code.agent /\ x.grader = code.grader
                      /\ \A k \in DOMAIN x.kept : IsSettled(x, c, x.kept[k], k, runs)
  BY <1>1, <1>2 DEF RunSound, IsUpToDate, Running
<1>7. CASE file.state = "whole" /\ ~x.refresh /\
           Settle(p, [x EXCEPT !.path = Fingerprint, !.got = file])
  <2> DEFINE y == [x EXCEPT !.path = Fingerprint, !.got = file]
  <2> HIDE DEF file, x, c
  <2>1. /\ y \in RunsOf(c) /\ SameJob(x, y) /\ y.pc = x.pc /\ y.got = file /\ y.kept = x.kept
    <3>1. x \in RunsOf(c) /\ Fingerprint \in Revisions /\ file \in FilesOf(c)
      BY <1>2, <1>3, <1>4
    <3>2. y = [x EXCEPT !.path = Fingerprint, !.got = file]
      OBVIOUS
    <3> HIDE DEF y
    <3> QED BY <3>1, <3>2 DEF RunsOf, SameJob
  <2>2. Put(p, SettlesAt(y, c))
    BY <1>7 DEF Settle, SettlesAt, x, c
  <2> HIDE DEF y
  <2>3. Fit(c, y.got.batch) /\ y.got.state = "whole" /\ (y.got.by = Fingerprint \/ y.got.overtaken)
    BY <1>4, <1>7, <2>1 DEF FileSound
  <2>4. Len(y.kept) < Len(Arms(c, y.layer)) /\ y.pc \in Loading
    BY <1>1, <1>2, <2>1 DEF SameJob
  <2>5. ~y.overtaken => /\ y.by = code.agent /\ y.grader = code.grader
                        /\ y.got.by = y.by \/ y.got.overtaken
                        /\ \A k \in DOMAIN y.kept : IsSettled(y, c, y.kept[k], k, runs)
    BY <1>3, <1>6, <2>1, <2>3 DEF SameJob, IsSettled, Arm
  <2>6. SettlesAt(y, c) \in RunsOf(c) /\ RunSound(SettlesAt(y, c), c, code, runs, reports)
    BY <2>1, <2>3, <2>4, <2>5, SettlesSound DEF c
  <2> QED BY <1>1, <1>5, <2>2, <2>6, MoveKeeps DEF x, c
<1>8. CASE Ends(p)
  <2>1. Idle \in RunsOf(c) /\ RunSound(Idle, c, code, runs, reports)
    BY IdleIs, EndedIsSound
  <2> QED BY <1>1, <1>5, <1>8, <2>1, MoveKeeps DEF Ends
<1>9. CASE c \notin CacheOnly /\ Put(p, [x EXCEPT !.path = Fingerprint, !.pc = "capture"])
  <2> DEFINE y == [x EXCEPT !.path = Fingerprint, !.pc = "capture"]
  <2> HIDE DEF x, c
  <2>1. /\ y \in RunsOf(c) /\ SameJob(x, y) /\ y.pc = "capture" /\ y.path = Fingerprint
        /\ y.kept = x.kept
    <3>1. "capture" \in Running \cup Resting
      BY DEF Running, Active, Loading
    <3>2. x \in RunsOf(c) /\ Fingerprint \in Revisions
      BY <1>2, <1>3
    <3>3. y = [x EXCEPT !.path = Fingerprint, !.pc = "capture"]
      OBVIOUS
    <3> HIDE DEF y
    <3> QED BY <3>1, <3>2, <3>3 DEF RunsOf, SameJob
  <2>2. Put(p, y)
    BY <1>9
  <2> HIDE DEF y
  <2>3. RunSound(y, c, code, runs, reports)
    <3>1. IsInLine(y, c)
      BY <1>2, <2>1 DEF IsInLine, SameJob, Loading, Running
    <3>2. IsUpToDate(y, c, code, runs)
      BY <1>3, <1>6, <2>1 DEF IsUpToDate, SameJob, IsSettled, Arm
    <3>3. HoldsBatch(y, c)
      BY <1>9, <2>1 DEF HoldsBatch
    <3>4. IsReporting(y, c, runs) /\ IsReported(y, c, reports)
      BY <2>1 DEF IsReporting, IsReported
    <3> QED BY <3>1, <3>2, <3>3, <3>4 DEF RunSound
  <2> QED BY <1>1, <1>5, <2>1, <2>2, <2>3, MoveKeeps DEF x, c
<1> QED BY <1>7, <1>8, <1>9 DEF Load

\* A file is written to the cache; the runs and reports stay.
LEMMA WriteKeeps ==
    ASSUME RunInv, NEW p \in Processes, NEW y \in RunsOf(component), Put(p, y),
           proc[p].pc \in Active, NEW r \in Revisions, NEW m \in Models,
           NEW file \in FilesOf(component), FileSound(file, component, r),
           cache' = [cache EXCEPT ![r][m] = file],
           UNCHANGED <<component, code, runs, reports, starts>>,
           RunSound(y, component, code, runs, reports)
    PROVE  RunInv'
<1>1. FilesSound(cache', component) /\ FilesSound(runs, component)
  <2>1. FilesSound(cache, component) /\ FilesSound(runs, component)
    BY DEF RunInv, RunTypeOK, FilesSound
  <2> HIDE DEF FileSound
  <2> QED BY <2>1 DEF FilesSound
<1>2. FilesStay(runs, runs') /\ ReportsStay(reports, reports')
  BY DEF FilesStay, ReportsStay
<1>3. /\ reports \in Seq(ReportsOf(component))
      /\ \A i \in DOMAIN reports : ReportSound(reports[i], component, runs)
      /\ \A r2 \in Revisions, m2 \in Models : runs[r2][m2].state # "torn"
  BY DEF RunInv, RunTypeOK
<1> HIDE DEF RunInv
<1> QED BY <1>1, <1>2, <1>3, StepKeeps

LEMMA CaptureKeeps ==
    ASSUME RunInv, NEW p \in Processes, Capture(p)
    PROVE  RunInv'
<1> DEFINE x == proc[p]
           c == component
<1>1. x.pc = "capture" /\ x.pc \in Loading /\ x.pc \in Active /\ x.pc \in Running
  BY DEF Capture, Loading, Active, Running
<1>2. /\ x \in RunsOf(c) /\ RunSound(x, c, code, runs, reports)
      /\ Len(x.kept) < Len(Arms(c, x.layer)) /\ Model(p) \in Models
      /\ x.path \in Revisions /\ x.by \in Revisions /\ x.overtaken \in BOOLEAN
  BY <1>1, ModelIs, RunIs
<1>3. ~x.overtaken => /\ x.by = code.agent /\ x.grader = code.grader /\ x.path = x.by
                      /\ \A k \in DOMAIN x.kept : IsSettled(x, c, x.kept[k], k, runs)
  BY <1>1, <1>2 DEF RunSound, IsUpToDate
<1>4. c \notin CacheOnly
  BY <1>1, <1>2 DEF RunSound, HoldsBatch
<1>5. PICK b \in Batches[c] :
        LET batch == [state |-> "whole", batch |-> b, by |-> x.by, overtaken |-> x.overtaken]
        IN  \/ /\ Eligible(b)
               /\ cache' = [cache EXCEPT ![x.path][Model(p)] = Torn(batch)]
               /\ Put(p, [x EXCEPT !.got = batch, !.pc = "save"])
            \/ /\ ~Eligible(b)
               /\ Put(p, Settled([x EXCEPT !.got = batch]))
               /\ UNCHANGED cache
  BY DEF Capture
<1> DEFINE batch == [state |-> "whole", batch |-> b, by |-> x.by, overtaken |-> x.overtaken]
           torn == [batch EXCEPT !.state = "torn"]
<1>6. /\ batch \in FilesOf(c) /\ batch.state = "whole" /\ batch.batch = b /\ batch.by = x.by
      /\ batch.overtaken = x.overtaken
      /\ torn \in FilesOf(c) /\ torn.batch = b /\ torn.by = x.by /\ torn.overtaken = x.overtaken
      /\ torn = Torn(batch)
  BY <1>2 DEF FilesOf, Torn
<1>7. UNCHANGED <<component, code, runs, reports, starts>>
  BY DEF Capture
<1>8. CASE Eligible(b) /\ cache' = [cache EXCEPT ![x.path][Model(p)] = Torn(batch)] /\
           Put(p, [x EXCEPT !.got = batch, !.pc = "save"])
  <2> DEFINE y == [x EXCEPT !.got = batch, !.pc = "save"]
  <2> HIDE DEF batch, torn, x, c
  <2>1. /\ y \in RunsOf(c) /\ SameJob(x, y) /\ y.pc = "save" /\ y.got = batch
        /\ y.kept = x.kept /\ y.path = x.path
    <3>1. x \in RunsOf(c) /\ batch \in FilesOf(c)
      BY <1>2, <1>6
    <3>2. y = [x EXCEPT !.got = batch, !.pc = "save"]
      OBVIOUS
    <3> HIDE DEF y
    <3>3. "save" \in Running
      BY DEF Running, Active, Loading
    <3> QED BY <3>1, <3>2, <3>3 DEF RunsOf, SameJob
  <2>2. Put(p, y) /\ cache' = [cache EXCEPT ![x.path][Model(p)] = torn]
    BY <1>6, <1>8
  <2>3. Fit(c, b)
    BY <1>8 DEF Fit, Eligible, c
  <2> HIDE DEF y
  <2>4. RunSound(y, c, code, runs, reports)
    <3>1. IsInLine(y, c)
      BY <1>2, <2>1 DEF IsInLine, SameJob, Loading, Running
    <3>2. IsUpToDate(y, c, code, runs)
      BY <1>3, <1>6, <2>1 DEF IsUpToDate, SameJob, IsSettled, Arm
    <3>3. HoldsBatch(y, c)
      BY <1>3, <1>4, <1>6, <2>1, <2>3 DEF HoldsBatch, SameJob
    <3>4. IsReporting(y, c, runs) /\ IsReported(y, c, reports)
      BY <2>1 DEF IsReporting, IsReported
    <3> QED BY <3>1, <3>2, <3>3, <3>4 DEF RunSound
  <2>5. FileSound(torn, c, x.path)
    BY <1>2, <1>3, <1>6, <2>3 DEF FileSound
  <2> QED BY <1>1, <1>2, <1>6, <1>7, <2>1, <2>2, <2>4, <2>5, WriteKeeps DEF x, c
<1>9. CASE ~Eligible(b) /\ Put(p, Settled([x EXCEPT !.got = batch])) /\ UNCHANGED cache
  <2> DEFINE y == [x EXCEPT !.got = batch]
  <2> HIDE DEF batch, torn, x, c
  <2>1. /\ y \in RunsOf(c) /\ SameJob(x, y) /\ y.got = batch /\ y.kept = x.kept
    BY <1>2, <1>6, Got
  <2>2. Put(p, Settled(y))
    BY <1>9
  <2> HIDE DEF y
  <2>3. ~Fit(c, b)
    BY <1>9 DEF Fit, Eligible, c
  <2>4. MaySettle(y, c, code, runs)
    BY <1>3, <1>6, <2>1, <2>3 DEF MaySettle, SameJob, IsSettled, Arm
  <2>5. Len(y.kept) < Len(Arms(c, y.layer))
    BY <1>2, <2>1 DEF SameJob
  <2>6. Settled(y) \in RunsOf(c) /\ RunSound(Settled(y), c, code, runs, reports)
    BY <2>1, <2>4, <2>5, SettledIs, SettledSound DEF c
  <2> QED BY <1>1, <1>7, <1>9, <2>2, <2>6, MoveKeeps DEF x, c
<1> QED BY <1>5, <1>8, <1>9

LEMMA SaveKeeps ==
    ASSUME RunInv, NEW p \in Processes, Save(p)
    PROVE  RunInv'
<1> DEFINE x == proc[p]
           c == component
           file == Whole(x.got)
<1>1. x.pc = "save" /\ x.pc \in Loading /\ x.pc \in Active /\ x.pc \in Running
  BY DEF Save, Loading, Active, Running
<1>2. /\ x \in RunsOf(c) /\ RunSound(x, c, code, runs, reports)
      /\ Len(x.kept) < Len(Arms(c, x.layer)) /\ Model(p) \in Models
      /\ x.path \in Revisions /\ x.got \in FilesOf(c)
  BY <1>1, ModelIs, RunIs
<1>3. /\ Fit(c, x.got.batch) /\ x.got.state = "whole"
      /\ x.got.by = x.path \/ x.got.overtaken
  BY <1>1, <1>2 DEF RunSound, HoldsBatch
<1>4. ~x.overtaken => /\ x.by = code.agent /\ x.grader = code.grader
                      /\ x.got.by = x.by \/ x.got.overtaken
                      /\ \A k \in DOMAIN x.kept : IsSettled(x, c, x.kept[k], k, runs)
  BY <1>1, <1>2 DEF RunSound, IsUpToDate
<1>5. SettlesAt(x, c) \in RunsOf(c) /\ RunSound(SettlesAt(x, c), c, code, runs, reports)
  BY <1>1, <1>2, <1>3, <1>4, SettlesSound
<1>6. file = x.got
  BY <1>2, <1>3 DEF Whole, FilesOf, NoFile
<1>7. /\ Put(p, SettlesAt(x, c)) /\ cache' = [cache EXCEPT ![x.path][Model(p)] = file]
      /\ UNCHANGED <<component, code, runs, reports, starts>>
  BY DEF Save, Settle, SettlesAt
<1>8. FileSound(file, c, x.path)
  BY <1>3, <1>6 DEF FileSound
<1> HIDE DEF file
<1> QED BY <1>1, <1>2, <1>5, <1>6, <1>7, <1>8, WriteKeeps

-----------------------------------------------------------------------------
(* The preserved runs. *)

LEMMA PreserveKeeps ==
    ASSUME RunInv, NEW p \in Processes, Preserve(p)
    PROVE  RunInv'
<1> DEFINE x == proc[p]
           c == component
           run == runs[Fingerprint][Model(p)]
           conflict == [Idle EXCEPT !.pc = "conflict"]
           y == [x EXCEPT !.path = Fingerprint, !.pc = "publish"]
<1>1. x.pc = "preserve" /\ x.pc \in Loading /\ x.pc \in Active /\ x.pc \in Running
  BY DEF Preserve, Loading, Active, Running
<1>2. /\ x \in RunsOf(c) /\ RunSound(x, c, code, runs, reports)
      /\ Len(x.kept) < Len(Arms(c, x.layer))
      /\ Model(p) = Arms(c, x.layer)[Len(x.kept) + 1] /\ Model(p) \in Models
  BY <1>1, ModelIs
<1>3. /\ c \notin CacheOnly /\ x.named /\ Fit(c, x.got.batch) /\ x.got.state = "whole"
  BY <1>1, <1>2 DEF RunSound, HoldsBatch
<1>4. ~x.overtaken => /\ x.by = code.agent /\ x.grader = code.grader
                      /\ x.got.by = x.by \/ x.got.overtaken
                      /\ \A k \in DOMAIN x.kept : IsSettled(x, c, x.kept[k], k, runs)
  BY <1>1, <1>2 DEF RunSound, IsUpToDate
<1>5. UNCHANGED <<component, code, cache, runs, reports, starts>>
  BY DEF Preserve
<1>6. Fingerprint \in Revisions /\ Fingerprint = code.agent
  BY FingerprintIs
<1>7. CASE Put(p, y)
  <2> HIDE DEF x, c
  <2>1. /\ y \in RunsOf(c) /\ SameJob(x, y) /\ y.pc = "publish" /\ y.path = Fingerprint
        /\ y.got = x.got /\ y.kept = x.kept
    <3>1. y = [x EXCEPT !.path = Fingerprint, !.pc = "publish"] /\ "publish" \in Running
      BY DEF Running, Active, Loading
    <3> HIDE DEF y
    <3> QED BY <1>2, <1>6, <3>1 DEF RunsOf, SameJob
  <2> HIDE DEF y
  <2>2. RunSound(y, c, code, runs, reports)
    <3>1. IsInLine(y, c)
      BY <1>2, <2>1 DEF IsInLine, SameJob, Loading, Running
    <3>2. IsUpToDate(y, c, code, runs)
      BY <1>4, <1>6, <2>1 DEF IsUpToDate, SameJob, IsSettled, Arm
    <3>3. HoldsBatch(y, c)
      BY <1>3, <2>1 DEF HoldsBatch, SameJob
    <3>4. IsReporting(y, c, runs) /\ IsReported(y, c, reports)
      BY <2>1 DEF IsReporting, IsReported
    <3> QED BY <3>1, <3>2, <3>3, <3>4 DEF RunSound
  <2> QED BY <1>1, <1>5, <1>7, <2>1, <2>2, MoveKeeps DEF x, c
<1>8. CASE run.state # "none" /\ SameRun(run, x.got) /\ Put(p, Settled(x))
  <2>1. MaySettle(x, c, code, runs)
    <3> SUFFICES ASSUME ~x.overtaken
                 PROVE  IsSettled(x, c, x.got, Len(x.kept) + 1, runs)
      BY <1>4 DEF MaySettle
    <3>1. Arm(c, x, x.by, Len(x.kept) + 1, runs) = run
      BY <1>2, <1>4, <1>6 DEF Arm
    <3> HIDE DEF run, x
    <3> QED BY <1>4, <1>8, <3>1 DEF IsSettled, SameRun
  <2>2. Settled(x) \in RunsOf(c) /\ RunSound(Settled(x), c, code, runs, reports)
    BY <1>2, <2>1, SettledIs, SettledSound
  <2> QED BY <1>1, <1>5, <1>8, <2>2, MoveKeeps
<1>9. CASE Put(p, conflict)
  <2>1. conflict \in RunsOf(c) /\ conflict.pc = "conflict"
    BY IdleIs
  <2> HIDE DEF conflict
  <2>2. RunSound(conflict, c, code, runs, reports)
    BY <2>1, EndedIsSound
  <2> QED BY <1>1, <1>5, <1>9, <2>1, <2>2, MoveKeeps
<1> QED BY <1>7, <1>8, <1>9 DEF Preserve

LEMMA PublishKeeps ==
    ASSUME RunInv, NEW p \in Processes, Publish(p)
    PROVE  RunInv'
<1> DEFINE x == proc[p]
           c == component
           there == runs[x.path][Model(p)]
           run == [Whole(x.got) EXCEPT !.overtaken = @ \/ x.overtaken]
<1>1. x.pc = "publish" /\ x.pc \in Loading /\ x.pc \in Active /\ x.pc \in Running
  BY DEF Publish, Loading, Active, Running
<1>2. /\ x \in RunsOf(c) /\ RunSound(x, c, code, runs, reports)
      /\ Len(x.kept) < Len(Arms(c, x.layer))
      /\ Model(p) = Arms(c, x.layer)[Len(x.kept) + 1] /\ Model(p) \in Models
      /\ x.path \in Revisions /\ x.got \in FilesOf(c) /\ x.overtaken \in BOOLEAN
      /\ Len(x.kept) \in Nat /\ DOMAIN x.kept = 1..Len(x.kept) /\ x.layer \in Layers
      /\ x.by \in Revisions
  BY <1>1, ModelIs, RunIs
<1>3. Fit(c, x.got.batch) /\ x.got.state = "whole"
  BY <1>1, <1>2 DEF RunSound, HoldsBatch
<1>4. ~x.overtaken => /\ x.by = code.agent /\ x.grader = code.grader /\ x.path = x.by
                      /\ x.got.by = x.by \/ x.got.overtaken
                      /\ \A k \in DOMAIN x.kept : IsSettled(x, c, x.kept[k], k, runs)
  BY <1>1, <1>2 DEF RunSound, IsUpToDate
<1>5. UNCHANGED <<component, code, cache, reports, starts>>
  BY DEF Publish
<1>6. CASE ~Taken(there) /\ runs' = [runs EXCEPT ![x.path][Model(p)] = run] /\ Put(p, Settled(x))
  <2>1. /\ run \in FilesOf(c) /\ run.state = "whole" /\ run.batch = x.got.batch
        /\ run.by = x.got.by /\ run.overtaken = (x.got.overtaken \/ x.overtaken)
    <3>1. x.got \in [state : {"torn", "whole"}, batch : Batches[c], by : Revisions,
                     overtaken : BOOLEAN]
      BY <1>2, <1>3 DEF FilesOf, NoFile
    <3> HIDE DEF x, c
    <3> QED BY <1>2, <1>3, <3>1 DEF FilesOf, Whole
  <2> HIDE DEF run
  <2>2. FileSound(run, c, x.path)
    BY <1>2, <1>3, <1>4, <2>1 DEF FileSound
  <2>3. /\ FilesSound(cache, c) /\ FilesSound(runs, c)
        /\ \A r \in Revisions, m \in Models : runs[r][m].state # "torn"
    BY DEF RunInv, RunTypeOK, FilesSound
  <2>4. FilesSound(runs', c)
    <3> HIDE DEF c
    <3> QED BY <1>2, <1>6, <2>1, <2>2, <2>3 DEF FilesSound
  <2>5. \A r \in Revisions, m \in Models : runs'[r][m].state # "torn"
    BY <1>2, <1>6, <2>1, <2>3 DEF FilesSound
  <2>6. FilesStay(runs, runs')
    BY <1>2, <1>6, <2>3 DEF FilesStay, Taken, FilesSound
  <2>7. MaySettle(x, c, code, runs')
    <3> SUFFICES ASSUME ~x.overtaken
                 PROVE  /\ IsSettled(x, c, x.got, Len(x.kept) + 1, runs')
                        /\ \A k \in DOMAIN x.kept : IsSettled(x, c, x.kept[k], k, runs')
      BY <1>4 DEF MaySettle
    <3>1. Arm(c, x, x.by, Len(x.kept) + 1, runs') = run
      BY <1>2, <1>4, <1>6, <2>3 DEF Arm, FilesSound
    <3>2. IsSettled(x, c, x.got, Len(x.kept) + 1, runs')
      BY <1>4, <2>1, <3>1 DEF IsSettled
    <3>3. ASSUME NEW k \in DOMAIN x.kept PROVE IsSettled(x, c, x.kept[k], k, runs')
      <4>1. IsSettled(x, c, x.kept[k], k, runs)
        BY <1>4
      <4>2. Arms(c, x.layer)[k] \in Models
        <5>1. Len(x.kept) <= Len(Arms(c, x.layer))
          BY <1>2, ArmsAre
        <5> QED BY <1>2, <5>1, ArmIsPlace
      <4>3. Arm(c, x, x.by, k, runs).state # "none" =>
              Arm(c, x, x.by, k, runs') = Arm(c, x, x.by, k, runs)
        BY <1>2, <2>6, <4>2 DEF FilesStay, Arm
      <4> QED BY <4>1, <4>3 DEF IsSettled
    <3> QED BY <3>2, <3>3
  <2>8. Settled(x) \in RunsOf(c) /\ RunSound(Settled(x), c, code, runs', reports)
    BY <1>2, <2>7, SettledIs, SettledSound
  <2>9. /\ reports \in Seq(ReportsOf(c)) /\ ReportsStay(reports, reports')
        /\ \A i \in DOMAIN reports : ReportSound(reports[i], c, runs')
    BY <1>5, <2>6, TrueReportsStay DEF RunInv, RunTypeOK, ReportsStay
  <2> DEFINE z == Settled(x)
  <2>10. Put(p, z) /\ z \in RunsOf(c) /\ RunSound(z, c, code, runs', reports')
    BY <1>5, <1>6, <2>8
  <2> HIDE DEF z
  <2> QED BY <1>1, <1>5, <2>3, <2>4, <2>5, <2>6, <2>9, <2>10, StepKeeps
<1>7. CASE UNCHANGED runs /\ Ends(p)
  <2>1. Idle \in RunsOf(c) /\ RunSound(Idle, c, code, runs, reports)
    BY IdleIs, EndedIsSound
  <2> QED BY <1>1, <1>5, <1>7, <2>1, MoveKeeps DEF Ends
<1>8. CASE Taken(there) /\ UNCHANGED runs /\ SameRun(there, x.got) /\ Put(p, Settled(x))
  <2>1. MaySettle(x, c, code, runs)
    <3> SUFFICES ASSUME ~x.overtaken
                 PROVE  IsSettled(x, c, x.got, Len(x.kept) + 1, runs)
      BY <1>4 DEF MaySettle
    <3>1. Arm(c, x, x.by, Len(x.kept) + 1, runs) = there
      BY <1>2, <1>4 DEF Arm
    <3> HIDE DEF there, x
    <3> QED BY <1>4, <1>8, <3>1 DEF IsSettled, SameRun, Taken
  <2>2. Settled(x) \in RunsOf(c) /\ RunSound(Settled(x), c, code, runs, reports)
    BY <1>2, <2>1, SettledIs, SettledSound
  <2> QED BY <1>1, <1>5, <1>8, <2>2, MoveKeeps
<1> QED BY <1>6, <1>7, <1>8 DEF Publish

-----------------------------------------------------------------------------
(* The report *)

LEMMA RecordKeeps ==
    ASSUME RunInv, NEW p \in Processes, Record(p)
    PROVE  RunInv'
<1> DEFINE x == proc[p]
           c == component
           arms == Arms(c, x.layer)
           agent == IF arms = <<>> THEN 0 ELSE Fingerprint
           y == [x EXCEPT !.pc = "check", !.cites = [agent |-> agent, grader |-> code.grader]]
<1>1. x.pc = "score" /\ x.pc \in Active /\ x.pc \in Running /\ x.pc \notin Loading
  BY DEF Record, Active, Running, Loading
<1>2. /\ x \in RunsOf(c) /\ RunSound(x, c, code, runs, reports)
      /\ Len(x.kept) = Len(arms) /\ Lineup(x.layer) = arms
      /\ Len(x.kept) \in Nat /\ DOMAIN x.kept = 1..Len(x.kept) /\ x.layer \in Layers
      /\ arms \in Seq(Models) /\ \A k \in 1..Len(arms) : arms[k] \in Models
  <2>1. x \in RunsOf(c) /\ RunSound(x, c, code, runs, reports)
    BY DEF RunInv, RunTypeOK
  <2>2. Len(x.kept) = Len(arms)
    BY <1>1, <2>1 DEF RunSound, IsInLine
  <2> QED BY <2>1, <2>2, RunIs, LineupIs, ArmsAre
<1>3. ~x.overtaken => /\ x.by = code.agent /\ x.grader = code.grader
                      /\ \A k \in DOMAIN x.kept : IsSettled(x, c, x.kept[k], k, runs)
  BY <1>1, <1>2 DEF RunSound, IsUpToDate
<1>4. UNCHANGED <<component, code, cache, runs, reports, starts>>
  BY DEF Record
<1>5. Fingerprint \in Revisions /\ Fingerprint = code.agent /\ code.grader \in Revisions
  BY FingerprintIs
<1>6. CASE /\ Records(x) /\ Put(p, y)
           /\ \A i \in DOMAIN arms : runs[Fingerprint][arms[i]].state # "none"
  <2>1. agent \in Revisions
    BY <1>5, BoundsAssumption DEF Revisions
  <2>2. arms # <<>> => agent = Fingerprint
    OBVIOUS
  <2>3. DOMAIN x.kept = DOMAIN arms /\ DOMAIN arms = 1..Len(arms)
        /\ (DOMAIN x.kept # {} => arms # <<>>)
    BY <1>2
  <2>4. ASSUME NEW k \in DOMAIN x.kept
        PROVE  /\ runs[Fingerprint][arms[k]].state = "whole"
    <3>1. arms[k] \in Models /\ runs[Fingerprint][arms[k]].state # "none"
      BY <1>2, <1>6, <2>3
    <3>2. /\ runs[Fingerprint][arms[k]] \in FilesOf(c)
          /\ runs[Fingerprint][arms[k]].state # "torn"
      BY <1>5, <3>1, HitIsFit
    <3> QED BY <3>1, <3>2 DEF FilesOf, NoFile
  <2>5. x.named /\ (c \in CacheOnly => DOMAIN x.kept = {})
    <3>1. x.named /\ (c \in CacheOnly => x.layer = "l4")
      BY <1>6 DEF Records
    <3>2. x.layer = "l4" => Len(arms) = 0
      BY <1>2, ArmsAre
    <3> QED BY <1>2, <3>1, <3>2
  <2>6. \A k \in DOMAIN x.kept : arms[k] = Arms(c, x.layer)[k]
    OBVIOUS
  <2>7. ASSUME NEW k \in DOMAIN x.kept
        PROVE  LET run == runs[Fingerprint][Arms(c, x.layer)[k]] IN
               run.batch = x.kept[k].batch \/ ~Fit(c, x.kept[k].batch) \/ x.overtaken
    <3> SUFFICES ASSUME ~x.overtaken, Fit(c, x.kept[k].batch)
                 PROVE  runs[Fingerprint][Arms(c, x.layer)[k]].batch = x.kept[k].batch
      OBVIOUS
    <3>1. IsSettled(x, c, x.kept[k], k, runs) /\ x.by = Fingerprint
      BY <1>3, <1>5
    <3> QED BY <2>5, <3>1 DEF IsSettled, Arm
  <2> HIDE DEF agent, x, c
  <2>8. /\ y \in RunsOf(c) /\ SameJob(x, y) /\ y.pc = "check" /\ y.kept = x.kept
        /\ y.cites.agent = agent /\ y.cites.grader = code.grader
    <3> DEFINE cites == [agent |-> agent, grader |-> code.grader]
    <3>1. /\ cites \in Citations /\ "check" \in Running
          /\ cites.agent = agent /\ cites.grader = code.grader
      BY <1>5, <2>1 DEF Citations, Running, Active
    <3>2. y = [x EXCEPT !.pc = "check", !.cites = cites]
      OBVIOUS
    <3> HIDE DEF y, cites
    <3>3. y \in RunsOf(c) /\ SameJob(x, y) /\ y.pc = "check" /\ y.kept = x.kept /\ y.cites = cites
      BY <1>2, <3>1, <3>2 DEF RunsOf, SameJob
    <3> QED BY <3>1, <3>3
  <2>9. Put(p, y)
    BY <1>6
  <2> HIDE DEF y
  <2>10. CitesRuns(y, c, runs)
    <3> SUFFICES ASSUME NEW k \in DOMAIN x.kept
                 PROVE  /\ Arm(c, y, y.cites.agent, k, runs).state = "whole"
                        /\ \/ Arm(c, y, y.cites.agent, k, runs).batch = x.kept[k].batch
                           \/ ~Fit(c, x.kept[k].batch) \/ y.overtaken
      BY <2>8 DEF CitesRuns
    <3>1. agent = Fingerprint
      BY <2>2, <2>3
    <3>2. Arm(c, y, y.cites.agent, k, runs) = runs[Fingerprint][Arms(c, x.layer)[k]]
      BY <2>8, <3>1 DEF Arm, SameJob
    <3> QED BY <2>4, <2>6, <2>7, <2>8, <3>2 DEF SameJob
  <2>11. RunSound(y, c, code, runs, reports)
    <3>1. IsInLine(y, c)
      BY <1>2, <2>8 DEF IsInLine, SameJob, Loading, Running
    <3>2. IsUpToDate(y, c, code, runs)
      BY <1>3, <2>8 DEF IsUpToDate, SameJob, IsSettled, Arm
    <3>3. IsReporting(y, c, runs)
      BY <1>3, <2>8, <2>10 DEF IsReporting, SameJob
    <3>4. HoldsBatch(y, c) /\ IsReported(y, c, reports)
      BY <2>8 DEF HoldsBatch, IsReported
    <3> QED BY <3>1, <3>2, <3>3, <3>4 DEF RunSound
  <2> QED BY <1>1, <1>4, <2>8, <2>9, <2>11, MoveKeeps DEF x, c
<1>7. CASE Ends(p)
  <2>1. Idle \in RunsOf(c) /\ RunSound(Idle, c, code, runs, reports)
    BY IdleIs, EndedIsSound
  <2> QED BY <1>1, <1>4, <1>7, <2>1, MoveKeeps DEF Ends
<1> QED BY <1>2, <1>6, <1>7 DEF Record

LEMMA ReportingIs ==
    ASSUME RunInv, NEW p \in Processes, proc[p].pc \in {"check", "create", "finish"}
    PROVE  /\ proc[p] \in RunsOf(component) /\ RunSound(proc[p], component, code, runs, reports)
           /\ Len(proc[p].kept) = Len(Arms(component, proc[p].layer))
           /\ proc[p].grader = proc[p].cites.grader \/ proc[p].overtaken
           /\ CitesRuns(proc[p], component, runs)
<1>1. proc[p] \in RunsOf(component) /\ RunSound(proc[p], component, code, runs, reports)
  BY DEF RunInv, RunTypeOK
<1> QED BY <1>1 DEF RunSound, IsInLine, IsReporting, Running, Active, Loading

\* A process goes to another stage of reporting; nothing else of it changes.
LEMMA StagedSound ==
    ASSUME NEW x \in RunsOf(component), NEW now, NEW files, NEW written, NEW written2,
           x.pc \in {"check", "create", "finish"}, NEW stage \in {"check", "create", "finish", "recorded"},
           NEW y, y \in RunsOf(component), SameJob(x, y), y.pc = stage, y.kept = x.kept,
           y.cites = x.cites,
           RunSound(x, component, now, files, written), IsReported(y, component, written2)
    PROVE  RunSound(y, component, now, files, written2)
<1>1. Len(x.kept) = Len(Arms(component, x.layer))
  BY DEF RunSound, IsInLine, Running, Active, Loading
<1>2. IsInLine(y, component)
  BY <1>1 DEF IsInLine, SameJob, Loading, Running, Active
<1>3. IsUpToDate(y, component, now, files)
  <2>1. ~x.overtaken => /\ x.by = now.agent /\ x.grader = now.grader
                        /\ \A k \in DOMAIN x.kept : IsSettled(x, component, x.kept[k], k, files)
    BY DEF RunSound, IsUpToDate, Running, Active
  <2> QED BY <2>1 DEF IsUpToDate, SameJob, IsSettled, Arm
<1>4. IsReporting(y, component, files)
  BY DEF RunSound, IsReporting, SameJob, CitesRuns, Arm
<1>5. HoldsBatch(y, component)
  BY DEF HoldsBatch
<1> QED BY <1>2, <1>3, <1>4, <1>5 DEF RunSound

LEMMA MetricsAreTold ==
    ASSUME NEW layer, NEW mood, NEW kept
    PROVE  Metrics(layer, mood, kept) = Told(component, layer, mood, kept)
  BY DEF Metrics, Told

LEMMA CheckKeeps ==
    ASSUME RunInv, NEW p \in Processes, Check(p)
    PROVE  RunInv'
<1> DEFINE x == proc[p]
           c == component
<1>1. x.pc = "check" /\ x.pc \in Active
  BY DEF Check, Active
<1>2. x \in RunsOf(c) /\ RunSound(x, c, code, runs, reports)
  BY <1>1, ReportingIs
<1>3. UNCHANGED <<component, code, cache, runs, reports, starts>>
  BY DEF Check
<1>4. CASE Put(p, [x EXCEPT !.pc = "create"])
  <2> DEFINE y == [x EXCEPT !.pc = "create"]
  <2>1. /\ y \in RunsOf(c) /\ SameJob(x, y) /\ y.pc = "create" /\ y.kept = x.kept
        /\ y.cites = x.cites
    <3>1. "create" \in Running \cup Resting
      BY DEF Running, Active
    <3> QED BY <1>2, <3>1, Staged
  <2>2. Put(p, y)
    BY <1>4
  <2> HIDE DEF y
  <2>3. IsReported(y, c, reports)
    BY <2>1 DEF IsReported
  <2>4. RunSound(y, c, code, runs, reports)
    BY <1>1, <1>2, <2>1, <2>3, StagedSound
  <2> QED BY <1>1, <1>3, <2>1, <2>2, <2>4, MoveKeeps
<1>5. CASE Agrees(x) /\ Put(p, [x EXCEPT !.pc = "recorded"])
  <2> DEFINE y == [x EXCEPT !.pc = "recorded"]
  <2>1. /\ y \in RunsOf(c) /\ SameJob(x, y) /\ y.pc = "recorded" /\ y.kept = x.kept
        /\ y.cites = x.cites
    <3>1. "recorded" \in Running \cup Resting
      BY DEF Resting
    <3> QED BY <1>2, <3>1, Staged
  <2>2. Put(p, y)
    BY <1>5
  <2> HIDE DEF y, x, c
  <2>3. PICK i \in Filed(x) : reports[i].state = "whole" /\ SameMetrics(reports[i], Report(x))
    BY <1>5 DEF Agrees
  <2>4. /\ i \in DOMAIN reports /\ reports[i].layer = x.layer /\ reports[i].cites = x.cites
    BY <2>3 DEF Filed
  <2>5. /\ reports[i].by = x.grader
        /\ Told(c, reports[i].layer, reports[i].mood, reports[i].kept)
             = Told(c, x.layer, x.mood, x.kept)
    <3>1. /\ Report(x).by = x.grader /\ Report(x).layer = x.layer /\ Report(x).mood = x.mood
          /\ Report(x).kept = x.kept
      BY DEF Report
    <3> QED BY <2>3, <3>1, MetricsAreTold DEF SameMetrics, c
  <2>6. Tells(reports[i], y, c)
    BY <2>1, <2>4, <2>5 DEF Tells, SameJob
  <2>7. IsReported(y, c, reports)
    BY <2>1, <2>3, <2>4, <2>6 DEF IsReported
  <2>8. RunSound(y, c, code, runs, reports)
    BY <1>1, <1>2, <2>1, <2>7, StagedSound DEF c
  <2> QED BY <1>1, <1>3, <2>1, <2>2, <2>8, MoveKeeps DEF x, c
<1>6. CASE Put(p, [Idle EXCEPT !.pc = "conflict"])
  <2> DEFINE conflict == [Idle EXCEPT !.pc = "conflict"]
  <2>1. conflict \in RunsOf(c) /\ conflict.pc = "conflict"
    BY IdleIs
  <2>2. Put(p, conflict)
    BY <1>6
  <2> HIDE DEF conflict
  <2>3. RunSound(conflict, c, code, runs, reports)
    BY <2>1, EndedIsSound
  <2> QED BY <1>1, <1>3, <2>1, <2>2, <2>3, MoveKeeps
<1> QED BY <1>4, <1>5, <1>6 DEF Check

LEMMA CreateKeeps ==
    ASSUME RunInv, NEW p \in Processes, Create(p)
    PROVE  RunInv'
<1> DEFINE x == proc[p]
           c == component
           r == Report(x)
           n == Len(reports)
<1>1. x.pc = "create" /\ x.pc \in Active
  BY DEF Create, Active
<1>2. /\ x \in RunsOf(c) /\ RunSound(x, c, code, runs, reports)
      /\ Len(x.kept) = Len(Arms(c, x.layer))
      /\ x.grader = x.cites.grader \/ x.overtaken
      /\ CitesRuns(x, c, runs)
  BY <1>1, ReportingIs
<1>3. UNCHANGED <<component, code, cache, runs, starts>>
  BY DEF Create
<1>4. CASE UNCHANGED reports /\ Put(p, [x EXCEPT !.pc = "check"])
  <2> DEFINE y == [x EXCEPT !.pc = "check"]
  <2>1. /\ y \in RunsOf(c) /\ SameJob(x, y) /\ y.pc = "check" /\ y.kept = x.kept
        /\ y.cites = x.cites
    <3>1. "check" \in Running \cup Resting
      BY DEF Running, Active
    <3> HIDE DEF x, c
    <3> QED BY <1>2, <3>1, Staged
  <2>2. Put(p, y)
    BY <1>4
  <2> HIDE DEF y
  <2>3. IsReported(y, c, reports)
    BY <2>1 DEF IsReported
  <2>4. RunSound(y, c, code, runs, reports)
    BY <1>1, <1>2, <2>1, <2>3, StagedSound
  <2> QED BY <1>1, <1>3, <1>4, <2>1, <2>2, <2>4, MoveKeeps
<1>5. CASE reports' = Append(reports, r) /\ Put(p, [x EXCEPT !.pc = "finish"])
  <2> DEFINE y == [x EXCEPT !.pc = "finish"]
  <2>1. /\ y \in RunsOf(c) /\ SameJob(x, y) /\ y.pc = "finish" /\ y.kept = x.kept
        /\ y.cites = x.cites
    <3>1. "finish" \in Running \cup Resting
      BY DEF Running
    <3> HIDE DEF x, c
    <3> QED BY <1>2, <3>1, Staged
  <2>2. Put(p, y)
    BY <1>5
  <2>3. /\ r \in ReportsOf(c) /\ r.layer = x.layer /\ r.cites = x.cites /\ r.by = x.grader
        /\ r.mood = x.mood /\ r.kept = x.kept /\ r.overtaken = x.overtaken
    <3>1. /\ x.layer \in Layers /\ x.cites \in Citations /\ x.grader \in Revisions
          /\ x.mood \in Moods /\ x.kept \in Seq(FilesOf(c)) /\ x.overtaken \in BOOLEAN
      BY <1>2, RunIs
    <3> HIDE DEF x, c
    <3> QED BY <3>1 DEF Report, ReportsOf
  <2> HIDE DEF y, r
  <2>4. /\ reports \in Seq(ReportsOf(c)) /\ n \in Nat /\ DOMAIN reports = 1..n
        /\ \A i \in DOMAIN reports : ReportSound(reports[i], c, runs)
    BY LenProperties DEF RunInv, RunTypeOK
  <2>5. /\ reports' \in Seq(ReportsOf(c)) /\ Len(reports') = n + 1 /\ reports'[n + 1] = r
        /\ DOMAIN reports' = 1..(n + 1)
        /\ \A i \in 1..n : reports'[i] = reports[i]
    BY <1>5, <2>3, <2>4, AppendProperties
  <2>6. ReportSound(r, c, runs)
    <3>1. CitesRuns(r, c, runs)
      BY <1>2, <2>3 DEF CitesRuns, Arm
    <3> QED BY <1>2, <2>3, <3>1 DEF ReportSound
  <2> HIDE DEF n
  <2>7. ReportsStay(reports, reports') /\ FilesStay(runs, runs')
    <3>1. \A i \in 1..n : i \in 1..(n + 1)
      BY <2>4
    <3> QED BY <1>3, <2>4, <2>5, <3>1 DEF ReportsStay, FilesStay
  <2>8. \A i \in DOMAIN reports' : ReportSound(reports'[i], c, runs)
    <3>1. \A i \in 1..(n + 1) : i = n + 1 \/ i \in 1..n
      BY <2>4
    <3> QED BY <2>4, <2>5, <2>6, <3>1
  <2>9. IsReported(y, c, reports')
    <3>1. Tells(r, y, c)
      BY <2>1, <2>3 DEF Tells, SameJob
    <3>2. n + 1 \in DOMAIN reports'
      BY <2>4, <2>5
    <3> QED BY <2>1, <2>5, <3>1, <3>2 DEF IsReported
  <2>10. RunSound(y, c, code, runs, reports')
    BY <1>1, <1>2, <2>1, <2>9, StagedSound
  <2>11. /\ proc' \in [Processes -> RunsOf(component')]
         /\ \A q \in Processes : RunSound(proc'[q], component', code', runs', reports')
    <3>1. RunSound(y, c, code, runs', reports')
      BY <1>3, <2>10
    <3> HIDE DEF x
    <3> QED BY <1>3, <2>1, <2>2, <2>7, <3>1, OneMoves
  <2>12. /\ RunTypeOK /\ proc \in [Processes -> RunsOf(c)] /\ starts \in Nat
         /\ Cardinality(Pending(proc)) + n <= starts
         /\ \A s \in Revisions, m \in Models :
              /\ FileSound(cache[s][m], c, s) /\ FileSound(runs[s][m], c, s)
              /\ runs[s][m].state # "torn"
    BY DEF RunInv, RunTypeOK, n
  <2>13. Cardinality(Pending(proc')) + Len(reports') <= starts'
    <3>1. p \in Pending(proc) /\ Pending(proc') = Pending(proc) \ {p}
      BY <1>1, <2>1, <2>2, <2>12 DEF Pending, Put, Active, Loading
    <3>2. /\ IsFiniteSet(Pending(proc)) /\ Cardinality(Pending(proc)) \in Nat
          /\ Cardinality(Pending(proc')) = Cardinality(Pending(proc)) - 1
      BY <3>1, FewPending, FS_RemoveElement
    <3> QED BY <1>3, <2>4, <2>5, <2>12, <3>2
  <2>14. RunTypeOK'
    BY <1>3, <2>5, <2>11, <2>12 DEF RunTypeOK
  <2> QED BY <1>3, <2>8, <2>11, <2>12, <2>13, <2>14 DEF RunInv
<1>6. \/ UNCHANGED reports /\ Put(p, [x EXCEPT !.pc = "check"])
      \/ reports' = Append(reports, r) /\ Put(p, [x EXCEPT !.pc = "finish"])
  BY DEF Create
<1> QED BY <1>4, <1>5, <1>6

LEMMA FinishKeeps ==
    ASSUME RunInv, NEW p \in Processes, Finish(p)
    PROVE  RunInv'
<1> DEFINE x == proc[p]
           c == component
           y == [x EXCEPT !.pc = "recorded"]
<1>1. x.pc = "finish" /\ x.pc \in {"check", "create", "finish"}
  BY DEF Finish
<1>2. x \in RunsOf(c) /\ RunSound(x, c, code, runs, reports)
  BY <1>1, ReportingIs
<1>3. UNCHANGED <<component, code, cache, runs, starts>> /\ Put(p, y)
      /\ reports' = [i \in DOMAIN reports |->
                       IF i \in Filed(x) THEN [reports[i] EXCEPT !.state = "whole"]
                       ELSE reports[i]]
  BY DEF Finish
<1>4. /\ y \in RunsOf(c) /\ SameJob(x, y) /\ y.pc = "recorded" /\ y.kept = x.kept
      /\ y.cites = x.cites
  <2>1. "recorded" \in Running \cup Resting
    BY DEF Resting
  <2> QED BY <1>2, <2>1, Staged
<1> HIDE DEF y
<1>5. /\ reports \in Seq(ReportsOf(c)) /\ Len(reports) \in Nat /\ DOMAIN reports = 1..Len(reports)
      /\ \A i \in DOMAIN reports : reports[i] \in ReportsOf(c) /\ ReportSound(reports[i], c, runs)
  BY LenProperties, ElementOfSeq DEF RunInv, RunTypeOK
<1>6. ASSUME NEW i \in DOMAIN reports
      PROVE  /\ reports'[i] \in ReportsOf(c)
             /\ reports'[i].layer = reports[i].layer /\ reports'[i].cites = reports[i].cites
             /\ reports'[i].by = reports[i].by /\ reports'[i].mood = reports[i].mood
             /\ reports'[i].kept = reports[i].kept
             /\ reports'[i].overtaken = reports[i].overtaken
             /\ reports[i].state = "whole" => reports'[i].state = "whole"
             /\ i \in Filed(x) => reports'[i].state = "whole"
  <2> DEFINE r == reports[i]
             done == [r EXCEPT !.state = "whole"]
  <2>1. r \in ReportsOf(c)
    BY <1>5
  <2>2. reports'[i] = IF i \in Filed(x) THEN done ELSE r
    BY <1>3
  <2> HIDE DEF c, r
  <2>3. /\ done \in ReportsOf(c) /\ done.layer = r.layer /\ done.cites = r.cites
        /\ done.by = r.by /\ done.mood = r.mood /\ done.kept = r.kept
        /\ done.overtaken = r.overtaken /\ done.state = "whole"
    BY <2>1 DEF ReportsOf
  <2> HIDE DEF done
  <2>4. /\ reports'[i] \in ReportsOf(c)
        /\ reports'[i].layer = r.layer /\ reports'[i].cites = r.cites
        /\ reports'[i].by = r.by /\ reports'[i].mood = r.mood
        /\ reports'[i].kept = r.kept
        /\ reports'[i].overtaken = r.overtaken
        /\ r.state = "whole" => reports'[i].state = "whole"
        /\ i \in Filed(x) => reports'[i].state = "whole"
    BY <2>1, <2>2, <2>3
  <2> QED BY <2>4 DEF r
<1>7. DOMAIN reports' = DOMAIN reports
  BY <1>3
<1>8. reports' \in Seq(ReportsOf(c)) /\ Len(reports') = Len(reports)
  <2>1. reports' \in [1..Len(reports) -> ReportsOf(c)]
    <3>1. reports' = [i \in DOMAIN reports |-> reports'[i]]
      BY <1>3
    <3>2. \A i \in DOMAIN reports : reports'[i] \in ReportsOf(c)
      BY <1>6
    <3> HIDE DEF c
    <3> QED BY <1>5, <3>1, <3>2
  <2> HIDE DEF c
  <2> QED BY <1>5, <2>1, SeqDef, LenProperties
<1>9. ReportsStay(reports, reports') /\ FilesStay(runs, runs')
  BY <1>3, <1>6, <1>7 DEF ReportsStay, FilesStay
<1>10. ASSUME NEW i \in DOMAIN reports' PROVE ReportSound(reports'[i], c, runs)
  <2>1. ReportSound(reports[i], c, runs)
    BY <1>5, <1>7
  <2> QED BY <1>6, <1>7, <2>1 DEF ReportSound, CitesRuns, Arm
<1>11. IsReported(y, c, reports')
  <2>1. PICK i \in DOMAIN reports : Tells(reports[i], x, c)
    BY <1>1, <1>2 DEF RunSound, IsReported
  <2>2. i \in Filed(x)
    BY <2>1 DEF Tells, Filed
  <2>3. Tells(reports'[i], y, c)
    BY <1>4, <1>6, <2>1 DEF Tells, SameJob
  <2> QED BY <1>4, <1>6, <1>7, <2>2, <2>3 DEF IsReported
<1>12. RunSound(y, c, code, runs, reports')
  BY <1>1, <1>2, <1>4, <1>11, StagedSound
<1>13. /\ FilesSound(cache, c) /\ FilesSound(runs, c)
       /\ \A r \in Revisions, m \in Models : runs[r][m].state # "torn"
  BY DEF RunInv, RunTypeOK, FilesSound
<1>14. y.pc \notin Active
  BY <1>4 DEF Active, Loading
<1>15. UNCHANGED <<component, code, cache, runs, starts>> /\ Put(p, y)
  BY <1>3
<1> HIDE DEF x
<1> QED BY <1>4, <1>8, <1>9, <1>10, <1>12, <1>13, <1>14, <1>15, StepKeeps

-----------------------------------------------------------------------------
(* Starts, edits and ends. *)

LEMMA CrashKeeps ==
    ASSUME RunInv, NEW p \in Processes, Crash(p)
    PROVE  RunInv'
<1>1. Idle \in RunsOf(component) /\ RunSound(Idle, component, code, runs, reports)
      /\ Idle.pc \notin Active
  BY IdleIs, EndedIsSound
<1> QED BY <1>1, MoveKeeps DEF Crash, Ends

LEMMA EditKeeps ==
    ASSUME RunInv, Edit
    PROVE  RunInv'
<1> DEFINE c == component
<1>1. UNCHANGED <<component, cache, runs, reports, starts>>
  BY DEF Edit
<1>2. code' \in Citations
  <2>1. /\ code \in Citations /\ code.agent \in Nat /\ code.grader \in Nat
        /\ code.agent + code.grader < MaxEdits /\ MaxEdits \in Nat
    BY BoundsAssumption DEF Edit, RunInv, RunTypeOK, Citations, Revisions
  <2>2. code.agent + 1 \in Revisions /\ code.grader + 1 \in Revisions
    BY <2>1 DEF Revisions
  <2>3. \/ code' = [code EXCEPT !.agent = code.agent + 1]
        \/ code' = [code EXCEPT !.grader = code.grader + 1]
    BY DEF Edit
  <2> QED BY <2>1, <2>2, <2>3 DEF Citations
<1>3. proc \in [Processes -> RunsOf(c)] /\ \A p \in Processes : RunSound(proc[p], c, code, runs, reports)
  BY DEF RunInv, RunTypeOK
<1>4. proc' = [p \in Processes |->
                 IF proc[p].pc \in Resting THEN proc[p] ELSE [proc[p] EXCEPT !.overtaken = TRUE]]
  BY DEF Edit
<1>5. ASSUME NEW p \in Processes
      PROVE  /\ proc'[p] \in RunsOf(c) /\ proc'[p].pc = proc[p].pc
             /\ RunSound(proc'[p], c, code', runs, reports)
  <2> DEFINE x == proc[p]
             y == [x EXCEPT !.overtaken = TRUE]
  <2>1. x \in RunsOf(c) /\ RunSound(x, c, code, runs, reports)
    BY <1>3
  <2>2. CASE x.pc \in Resting
    <3>1. proc'[p] = x /\ x.pc \notin Running
      BY <1>4, <2>2 DEF Resting, Running, Active, Loading
    <3>2. RunSound(x, c, code', runs, reports)
      BY <2>1, <3>1 DEF RunSound, IsUpToDate
    <3> QED BY <2>1, <3>1, <3>2
  <2>3. CASE x.pc \notin Resting
    <3>1. proc'[p] = y
      BY <1>4, <2>3
    <3> HIDE DEF x, c
    <3>2. /\ y \in RunsOf(c) /\ y.pc = x.pc /\ y.layer = x.layer /\ y.named = x.named
          /\ y.mood = x.mood /\ y.by = x.by /\ y.grader = x.grader /\ y.overtaken
          /\ y.path = x.path /\ y.got = x.got /\ y.kept = x.kept /\ y.cites = x.cites
      <4>1. TRUE \in BOOLEAN
        OBVIOUS
      <4>2. y \in RunsOf(c) /\ y.overtaken = TRUE
        BY <2>1, <4>1 DEF RunsOf
      <4> QED BY <2>1, <4>2 DEF RunsOf
    <3> HIDE DEF y
    <3>3. IsInLine(y, c)
      BY <2>1, <3>2 DEF RunSound, IsInLine
    <3>4. IsUpToDate(y, c, code', runs)
      BY <3>2 DEF IsUpToDate
    <3>5. HoldsBatch(y, c)
      BY <2>1, <3>2 DEF RunSound, HoldsBatch
    <3>6. IsReporting(y, c, runs)
      BY <2>1, <3>2 DEF RunSound, IsReporting, CitesRuns, Arm
    <3>7. IsReported(y, c, reports)
      BY <2>1, <3>2 DEF RunSound, IsReported, Tells
    <3>8. RunSound(y, c, code', runs, reports)
      BY <3>3, <3>4, <3>5, <3>6, <3>7 DEF RunSound
    <3> QED BY <3>1, <3>2, <3>8 DEF x
  <2> QED BY <2>2, <2>3
<1>6. proc' \in [Processes -> RunsOf(c)] /\ Pending(proc') = Pending(proc)
  <2>1. proc' = [p \in Processes |-> proc'[p]]
    BY <1>4
  <2> HIDE DEF c
  <2> QED BY <1>5, <2>1 DEF Pending
<1> HIDE DEF Edit
<1> QED BY <1>1, <1>2, <1>5, <1>6 DEF RunInv, RunTypeOK

LEMMA StartKeeps ==
    ASSUME RunInv, NEW p \in Processes, Start(p)
    PROVE  RunInv'
<1> DEFINE c == component
<1>1. PICK job \in Jobs[c] :
        Put(p, [Idle EXCEPT !.pc = IF job.layer = "l4" THEN "score" ELSE "load",
                            !.layer = job.layer, !.refresh = job.refresh,
                            !.named = job.named, !.approved = job.approved,
                            !.mood = job.mood, !.by = code.agent, !.grader = code.grader])
  BY DEF Start
<1> DEFINE stage == IF job.layer = "l4" THEN "score" ELSE "load"
           y == [Idle EXCEPT !.pc = stage,
                             !.layer = job.layer, !.refresh = job.refresh,
                             !.named = job.named, !.approved = job.approved,
                             !.mood = job.mood, !.by = code.agent, !.grader = code.grader]
<1>2. /\ UNCHANGED <<component, code, cache, runs, reports>> /\ Put(p, y)
      /\ starts < MaxStarts /\ starts' = starts + 1
  BY <1>1 DEF Start
<1>3. /\ RunTypeOK /\ proc \in [Processes -> RunsOf(c)] /\ starts \in Nat /\ c \in Evaluated
      /\ code.agent \in Revisions /\ code.grader \in Revisions /\ MaxStarts \in Nat
      /\ Cardinality(Pending(proc)) + Len(reports) <= starts /\ Len(reports) \in Nat
      /\ \A r \in Revisions, m \in Models :
           /\ FileSound(cache[r][m], c, r) /\ FileSound(runs[r][m], c, r)
           /\ runs[r][m].state # "torn"
      /\ \A i \in DOMAIN reports : ReportSound(reports[i], c, runs)
  BY LenProperties, BoundsAssumption DEF RunInv, RunTypeOK, Citations
<1>4. /\ job.layer \in Layers /\ job.mood \in Moods
      /\ job.refresh \in BOOLEAN /\ job.named \in BOOLEAN /\ job.approved \in BOOLEAN
  <2>1. job \in UNION {Jobs[d] : d \in Evaluated}
    BY <1>3
  <2> QED BY <1>3, <2>1, JobsAssumption DEF Layers
<1>5. stage \in Running /\ stage \in {"score", "load"} /\ (stage = "score" <=> job.layer = "l4")
  BY DEF Running, Active, Loading
<1> HIDE DEF stage
<1>6. /\ y \in RunsOf(c) /\ y.pc = stage /\ y.layer = job.layer /\ y.by = code.agent
      /\ y.grader = code.grader /\ y.kept = <<>>
  <2>1. /\ Idle \in RunsOf(c) /\ Idle.kept = <<>>
    BY IdleIs
  <2> HIDE DEF c
  <2>2. /\ y \in RunsOf(c) /\ y.pc = stage /\ y.layer = job.layer /\ y.by = code.agent
        /\ y.grader = code.grader /\ y.kept = Idle.kept
    BY <1>3, <1>4, <1>5, <2>1 DEF RunsOf
  <2> QED BY <2>1, <2>2
<1> HIDE DEF y
<1>7. RunSound(y, c, code, runs, reports)
  <2>1. IsInLine(y, c)
    <3>1. Len(Arms(c, y.layer)) = IF y.layer = "l3" THEN 2 ELSE IF y.layer = "l4" THEN 0 ELSE 1
      BY <1>4, <1>6, ArmsAre
    <3>2. Len(y.kept) = 0
      BY <1>6
    <3> QED BY <1>5, <1>6, <3>1, <3>2 DEF IsInLine, Loading
  <2>2. IsUpToDate(y, c, code, runs)
    <3>1. DOMAIN y.kept = {}
      BY <1>6
    <3> QED BY <1>5, <1>6, <3>1 DEF IsUpToDate
  <2>3. HoldsBatch(y, c) /\ IsReporting(y, c, runs) /\ IsReported(y, c, reports)
    BY <1>5, <1>6 DEF HoldsBatch, IsReporting, IsReported
  <2> QED BY <2>1, <2>2, <2>3 DEF RunSound
<1>8. /\ proc' \in [Processes -> RunsOf(component')]
      /\ \A q \in Processes : RunSound(proc'[q], component', code', runs', reports')
  <2>1. FilesStay(runs, runs') /\ ReportsStay(reports, reports')
    BY <1>2 DEF FilesStay, ReportsStay
  <2>2. RunSound(y, c, code, runs', reports')
    BY <1>2, <1>7
  <2> QED BY <1>2, <1>6, <2>1, <2>2, OneMoves
<1>9. Cardinality(Pending(proc')) + Len(reports') <= starts'
  <2>1. Pending(proc') \subseteq Pending(proc) \cup {p}
    BY <1>2, <1>3 DEF Pending, Put
  <2>2. /\ IsFiniteSet(Pending(proc)) /\ Cardinality(Pending(proc)) \in Nat
        /\ IsFiniteSet(Pending(proc')) /\ Cardinality(Pending(proc')) \in Nat
    BY FewPending
  <2>3. /\ IsFiniteSet(Pending(proc) \cup {p})
        /\ Cardinality(Pending(proc) \cup {p}) \in Nat
        /\ Cardinality(Pending(proc) \cup {p}) <= Cardinality(Pending(proc)) + 1
    <3> DEFINE s == Pending(proc)
    <3>1. IsFiniteSet(s) /\ Cardinality(s) \in Nat
      BY <2>2
    <3> HIDE DEF s
    <3>2. IsFiniteSet(s \cup {p}) /\ Cardinality(s \cup {p}) = IF p \in s THEN Cardinality(s) ELSE Cardinality(s) + 1
      BY <3>1, FS_AddElement
    <3>3. /\ IsFiniteSet(s \cup {p}) /\ Cardinality(s \cup {p}) \in Nat
          /\ Cardinality(s \cup {p}) <= Cardinality(s) + 1
      BY <3>1, <3>2
    <3> QED BY <3>3 DEF s
  <2>4. Cardinality(Pending(proc')) <= Cardinality(Pending(proc) \cup {p})
    BY <2>1, <2>3, FS_Subset
  <2> QED BY <1>2, <1>3, <2>2, <2>3, <2>4
<1>10. RunTypeOK'
  BY <1>2, <1>3, <1>8 DEF RunTypeOK
<1> QED BY <1>2, <1>3, <1>8, <1>9, <1>10 DEF RunInv

LEMMA RunInit ==
    ASSUME Init
    PROVE  RunInv
<1> DEFINE c == component
<1>1. /\ 0 \in Revisions /\ 0 \in 0..MaxStarts /\ MaxStarts \in Nat
  BY BoundsAssumption DEF Revisions
<1>2. /\ c \in Evaluated /\ code = [agent |-> 0, grader |-> 0] /\ code \in Citations
      /\ reports = <<>> /\ starts = 0 /\ proc = [p \in Processes |-> Idle]
  BY <1>1 DEF Init, Citations
<1>3. NoFile \in FilesOf(c) /\ NoFile.state = "none" /\ FileSound(NoFile, c, 0)
      /\ \A r \in Revisions : FileSound(NoFile, c, r)
  BY DEF FilesOf, NoFile, FileSound
<1>4. ASSUME c \in CacheOnly
      PROVE  Snapshot \in FilesOf(c) /\ FileSound(Snapshot, c, 0)
  <2>1. Fit(c, "good")
    BY <1>2, <1>4, SnapshotAssumption DEF Fit
  <2>2. "good" \in Batches[c]
    BY <1>2, <2>1 DEF Fit, EligibleBatches
  <2> QED BY <1>1, <2>1, <2>2 DEF Snapshot, FilesOf, FileSound
<1>5. ASSUME NEW r \in Revisions, NEW m \in Models
      PROVE  /\ cache[r][m] \in FilesOf(c) /\ FileSound(cache[r][m], c, r)
             /\ runs[r][m] \in FilesOf(c) /\ FileSound(runs[r][m], c, r)
             /\ runs[r][m].state # "torn"
  <2>1. cache[r][m] = IF c \in CacheOnly /\ r = 0 /\ m = "terra" THEN Snapshot ELSE NoFile
    BY DEF Init
  <2>2. runs[r][m] = NoFile
    BY DEF Init
  <2> HIDE DEF c
  <2> QED BY <1>3, <1>4, <2>1, <2>2
<1>6. cache \in [Revisions -> [Models -> FilesOf(c)]]
  <2>1. cache = [r \in Revisions |-> [m \in Models |->
                  IF component \in CacheOnly /\ r = 0 /\ m = "terra" THEN Snapshot ELSE NoFile]]
    BY DEF Init
  <2> HIDE DEF c
  <2>2. \A r \in Revisions, m \in Models :
          (IF component \in CacheOnly /\ r = 0 /\ m = "terra" THEN Snapshot ELSE NoFile) \in FilesOf(c)
    BY <1>3, <1>4 DEF c
  <2> QED BY <2>1, <2>2
<1>7. runs \in [Revisions -> [Models -> FilesOf(c)]]
  BY <1>3 DEF Init
<1>8. /\ proc \in [Processes -> RunsOf(c)] /\ Pending(proc) = {}
      /\ \A p \in Processes : RunSound(proc[p], c, code, runs, reports)
  <2>1. Idle \in RunsOf(c) /\ RunSound(Idle, c, code, runs, reports) /\ Idle.pc \notin Active
    BY IdleIs, EndedIsSound
  <2> HIDE DEF c
  <2> QED BY <1>2, <2>1 DEF Pending
<1>9. Cardinality(Pending(proc)) + Len(reports) <= starts
  <2>1. Cardinality({}) = 0
    BY FS_EmptySet
  <2>2. Cardinality(Pending(proc)) = 0 /\ Len(reports) = 0 /\ starts = 0
    BY <1>2, <1>8, <2>1
  <2> QED BY <2>2
<1>10. reports \in Seq(ReportsOf(c)) /\ DOMAIN reports = {}
  BY <1>2
<1>11. RunTypeOK
  BY <1>1, <1>2, <1>6, <1>7, <1>8, <1>10 DEF RunTypeOK
<1> QED BY <1>5, <1>8, <1>9, <1>10, <1>11 DEF RunInv

LEMMA RunNext ==
    ASSUME RunInv, Next
    PROVE  RunInv'
<1>1. CASE Edit
  BY <1>1, EditKeeps
<1>2. ASSUME NEW p \in Processes, Start(p) \/ Step(p) \/ Crash(p)
      PROVE  RunInv'
  BY <1>2, StartKeeps, CrashKeeps, LoadKeeps, CaptureKeeps, SaveKeeps, PreserveKeeps,
     PublishKeeps, RecordKeeps, CheckKeeps, CreateKeeps, FinishKeeps DEF Step
<1> QED BY <1>1, <1>2 DEF Next

LEMMA RunStutters ==
    ASSUME RunInv, UNCHANGED vars
    PROVE  RunInv'
  BY DEF RunInv, RunTypeOK, Pending, vars

-----------------------------------------------------------------------------
(* What the invariant says of the properties. *)

LEMMA TypesHold ==
    ASSUME RunInv
    PROVE  TypeOK
<1>1. Files = FilesOf(component)
  BY DEF Files, FilesOf
<1>2. RunTypeOK
  BY DEF RunInv
<1>3. Len(reports) <= MaxStarts
  <2>1. /\ Cardinality(Pending(proc)) + Len(reports) <= starts /\ Len(reports) \in Nat
        /\ starts \in 0..MaxStarts /\ MaxStarts \in Nat
    BY LenProperties, BoundsAssumption DEF RunInv, RunTypeOK
  <2> QED BY <2>1, FewPending
<1>4. \A p \in Processes : proc[p].got \in Files /\ proc[p].layer \in Layers
  BY <1>1, <1>2, RunIs DEF RunTypeOK
<1> QED BY <1>1, <1>2, <1>3, <1>4 DEF TypeOK, RunTypeOK, Citations

LEMMA FilesAreKeptUnderTheirCode ==
    ASSUME RunInv
    PROVE  KeptUnderItsCode
  BY DEF RunInv, KeptUnderItsCode, FileSound, Fit, Eligible

LEMMA ScoresAreOfItsOwnCode ==
    ASSUME RunInv
    PROVE  ScoresItsOwnCode
<1> SUFFICES ASSUME NEW p \in Processes, proc[p].pc = "score", ~proc[p].overtaken,
                    NEW k \in DOMAIN proc[p].kept
             PROVE  proc[p].kept[k].by = proc[p].by \/ proc[p].kept[k].overtaken
  BY DEF ScoresItsOwnCode
<1>1. IsUpToDate(proc[p], component, code, runs)
  BY DEF RunInv, RunSound
<1> QED BY <1>1 DEF IsUpToDate, IsSettled, Running, Active

LEMMA ReportsCiteWhatTheyScore ==
    ASSUME RunInv
    PROVE  ReportsScoreWhatTheyCite
<1> SUFFICES ASSUME NEW i \in DOMAIN reports
             PROVE  LET r == reports[i] IN
               /\ r.by = r.cites.grader \/ r.overtaken
               /\ \A k \in DOMAIN r.kept :
                    LET run == runs[r.cites.agent][Lineup(r.layer)[k]] IN
                      run.state = "whole" /\ (run.batch = r.kept[k].batch
                                               \/ ~Eligible(r.kept[k].batch) \/ r.overtaken)
  BY DEF ReportsScoreWhatTheyCite
<1>1. ReportSound(reports[i], component, runs)
  BY DEF RunInv
<1>2. Lineup(reports[i].layer) = Arms(component, reports[i].layer)
  BY ElementOfSeq, ReportIs, LineupIs DEF RunInv, RunTypeOK
<1> QED BY <1>1, <1>2 DEF ReportSound, CitesRuns, Arm, Fit, Eligible

LEMMA SetHasGreatest ==
    ASSUME NEW T, NEW n \in Nat, T \subseteq 1..n, T # {}
    PROVE  \E x \in T : \A y \in T : y <= x
<1> DEFINE back == {n - x : x \in T}
<1>1. back \subseteq Nat /\ back # {}
  <2>1. \A x \in T : n - x \in Nat
    OBVIOUS
  <2>2. PICK x \in T : TRUE
    OBVIOUS
  <2>3. n - x \in back
    BY <2>2
  <2> QED BY <2>1, <2>3
<1>2. PICK z \in back : \A y \in back : ~ (<<y, z>> \in OpToRel(<, Nat))
  BY <1>1, NatLessThanWellFounded, WFMin
<1>3. \A y \in back : ~ (y < z)
  BY <1>1, <1>2 DEF OpToRel
<1>4. PICK x \in T : z = n - x
  OBVIOUS
<1>5. ASSUME NEW y \in T PROVE y <= x
  <2>1. n - y \in back
    OBVIOUS
  <2>2. ~ (n - y < n - x)
    BY <1>3, <1>4, <2>1
  <2>3. y \in Nat /\ x \in Nat
    OBVIOUS
  <2> QED BY <2>2, <2>3
<1> QED BY <1>5

LEMMA SelectedIs ==
    ASSUME RunInv, NEW layer, NEW row, NEW i \in SelectReport(layer, row)
    PROVE  /\ i \in DOMAIN reports /\ reports[i].layer = layer /\ reports[i].state = "whole"
           /\ reports[i].cites.agent = row.run /\ Lineup(layer)[1] = row.arm
<1> DEFINE candidates == {j \in LoadReports(layer) :
                            /\ reports[j].cites.agent = row.run
                            /\ Lineup(layer)[1] = row.arm}
           latest == CHOOSE j \in candidates : \A k \in candidates : k <= j
<1>1. candidates # {} /\ i = latest
  BY DEF SelectReport
<1>2. candidates \subseteq 1..Len(reports) /\ Len(reports) \in Nat
  BY LenProperties DEF RunInv, RunTypeOK, LoadReports
<1>3. \E j \in candidates : \A k \in candidates : k <= j
  <2> HIDE DEF candidates
  <2> QED BY <1>1, <1>2, SetHasGreatest
<1>4. i \in candidates
  BY <1>1, <1>3
<1> QED BY <1>4 DEF LoadReports

LEMMA RowsOfOneRun ==
    ASSUME RunInv
    PROVE  RowsAreOfOneRun
<1> SUFFICES ASSUME NEW row \in Rows, NEW i \in SelectReport("l1", row),
                    NEW j \in SelectReport("l2", row)
             PROVE  \/ reports[i].kept[1].batch = reports[j].kept[1].batch
                    \/ \E k \in {i, j} : reports[k].overtaken
                                          \/ ~Eligible(reports[k].kept[1].batch)
  BY DEF RowsAreOfOneRun
<1>1. /\ i \in DOMAIN reports /\ reports[i].layer = "l1" /\ reports[i].cites.agent = row.run
      /\ j \in DOMAIN reports /\ reports[j].layer = "l2" /\ reports[j].cites.agent = row.run
      /\ Lineup("l1")[1] = row.arm /\ Lineup("l2")[1] = row.arm
  BY SelectedIs
<1>2. ASSUME NEW k \in {i, j}
      PROVE  LET run == runs[row.run][row.arm] IN
               \/ run.batch = reports[k].kept[1].batch
               \/ ~Eligible(reports[k].kept[1].batch) \/ reports[k].overtaken
  <2>1. k \in DOMAIN reports /\ reports[k].cites.agent = row.run
        /\ reports[k].layer \in {"l1", "l2"} /\ Lineup(reports[k].layer)[1] = row.arm
    BY <1>1
  <2>2. 1 \in DOMAIN reports[k].kept
    <3>1. reports[k] \in ReportsOf(component) /\ ReportSound(reports[k], component, runs)
      BY <2>1, ElementOfSeq DEF RunInv, RunTypeOK
    <3>2. Len(reports[k].kept) = 1
      BY <2>1, <3>1, ReportIs, ArmsAre DEF ReportSound
    <3> QED BY <3>1, <3>2, ReportIs
  <2>3. ReportsScoreWhatTheyCite
    BY ReportsCiteWhatTheyScore
  <2> QED BY <2>1, <2>2, <2>3 DEF ReportsScoreWhatTheyCite
<1> QED BY <1>2

LEMMA RecordedAreFound ==
    ASSUME RunInv
    PROVE  RecordedIsFound
<1> SUFFICES ASSUME NEW p \in Processes, proc[p].pc = "recorded" PROVE Agrees(proc[p])
  BY DEF RecordedIsFound
<1> DEFINE x == proc[p]
<1>1. PICK i \in DOMAIN reports : reports[i].state = "whole" /\ Tells(reports[i], x, component)
  BY DEF RunInv, RunSound, IsReported
<1> HIDE DEF x
<1>2. i \in Filed(x)
  BY <1>1 DEF Tells, Filed
<1>3. SameMetrics(reports[i], Report(x))
  <2>1. /\ Report(x).by = x.grader /\ Report(x).layer = x.layer /\ Report(x).mood = x.mood
        /\ Report(x).kept = x.kept
    BY DEF Report
  <2> QED BY <1>1, <2>1, MetricsAreTold DEF SameMetrics, Tells
<1> QED BY <1>1, <1>2, <1>3 DEF Agrees, x

-----------------------------------------------------------------------------
(* What a step may never do. *)

LEMMA RunsArePreserved ==
    ASSUME RunInv, Next, NEW r \in Revisions, NEW m \in Models, runs[r][m].state = "whole"
    PROVE  runs'[r][m] = runs[r][m]
<1>1. CASE UNCHANGED runs
  BY <1>1
<1>2. ASSUME NEW p \in Processes, Publish(p)
      PROVE  runs'[r][m] = runs[r][m]
  <2>1. proc[p].path \in Revisions /\ Model(p) \in Models
    <3>1. proc[p].pc \in Loading
      BY <1>2 DEF Publish, Loading
    <3> QED BY <3>1, ModelIs, RunIs
  <2>2. \/ UNCHANGED runs
        \/ /\ ~Taken(runs[proc[p].path][Model(p)])
           /\ runs' = [runs EXCEPT ![proc[p].path][Model(p)] =
                         [Whole(proc[p].got) EXCEPT !.overtaken = @ \/ proc[p].overtaken]]
    BY <1>2 DEF Publish
  <2>3. runs \in [Revisions -> [Models -> FilesOf(component)]]
    BY DEF RunInv, RunTypeOK
  <2> QED BY <2>1, <2>2, <2>3 DEF Taken
<1>3. UNCHANGED runs \/ \E p \in Processes : Publish(p)
  BY DEF Next, Edit, Start, Step, Crash, Load, Capture, Save, Preserve, Record, Check, Create, Finish
<1> QED BY <1>1, <1>2, <1>3

LEMMA ReportsArePreserved ==
    ASSUME RunInv, Next, NEW i \in DOMAIN reports, reports[i].state = "whole"
    PROVE  i \in DOMAIN reports' /\ reports'[i] = reports[i]
<1>1. CASE UNCHANGED reports
  BY <1>1
<1>2. ASSUME NEW p \in Processes, Create(p)
      PROVE  i \in DOMAIN reports' /\ reports'[i] = reports[i]
  <2>1. UNCHANGED reports \/ reports' = Append(reports, Report(proc[p]))
    BY <1>2 DEF Create
  <2>2. /\ reports \in Seq(ReportsOf(component)) /\ Len(reports) \in Nat
        /\ DOMAIN reports = 1..Len(reports)
    BY LenProperties DEF RunInv, RunTypeOK
  <2>3. CASE reports' = Append(reports, Report(proc[p]))
    <3> DEFINE r == Report(proc[p])
    <3> HIDE DEF r
    <3>1. reports \in Seq(ReportsOf(component) \cup {r})
      BY <2>2
    <3>2. /\ Append(reports, r)[i] = reports[i] /\ Len(Append(reports, r)) = Len(reports) + 1
          /\ Append(reports, r) \in Seq(ReportsOf(component) \cup {r})
      BY <2>2, <3>1, AppendProperties
    <3>3. DOMAIN Append(reports, r) = 1..(Len(reports) + 1)
      BY <3>2, LenProperties
    <3>4. reports' = Append(reports, r)
      BY <2>3 DEF r
    <3> QED BY <2>2, <3>2, <3>3, <3>4
  <2> QED BY <2>1, <2>3
<1>3. ASSUME NEW p \in Processes, Finish(p)
      PROVE  i \in DOMAIN reports' /\ reports'[i] = reports[i]
  <2>1. reports' = [j \in DOMAIN reports |->
                      IF j \in Filed(proc[p]) THEN [reports[j] EXCEPT !.state = "whole"]
                      ELSE reports[j]]
    BY <1>3 DEF Finish
  <2>2. [reports[i] EXCEPT !.state = "whole"] = reports[i]
    <3>1. reports[i] \in ReportsOf(component)
      BY ElementOfSeq DEF RunInv, RunTypeOK
    <3> QED BY <3>1 DEF ReportsOf
  <2> QED BY <2>1, <2>2
<1>4. UNCHANGED reports \/ \E p \in Processes : Create(p) \/ Finish(p)
  BY DEF Next, Edit, Start, Step, Crash, Load, Capture, Save, Preserve, Publish, Record, Check
<1> QED BY <1>1, <1>2, <1>3, <1>4

LEMMA NextPreserves ==
    ASSUME RunInv, Next
    PROVE  Preserved
  BY RunsArePreserved, ReportsArePreserved DEF Preserved

\* Figures are those of the batches.
LEMMA SameBatchesSameMetrics ==
    ASSUME NEW layer \in Layers, NEW mood, NEW kept, NEW kept2,
           \A k \in 1..Len(Arms(component, layer)) : kept[k].batch = kept2[k].batch
    PROVE  Metrics(layer, mood, kept) = Metrics(layer, mood, kept2)
<1> DEFINE n == Len(Arms(component, layer))
<1>1. n = IF layer = "l3" THEN 2 ELSE IF layer = "l4" THEN 0 ELSE 1
  BY ArmsAre
<1>2. CASE layer = "l3"
  <2>1. kept[1].batch = kept2[1].batch /\ kept[2].batch = kept2[2].batch
    <3>1. 1 \in 1..n /\ 2 \in 1..n
      BY <1>1, <1>2
    <3> QED BY <3>1
  <2> QED BY <1>2, <2>1 DEF Metrics
<1>3. CASE layer = "l4"
  BY <1>3 DEF Metrics
<1>4. CASE layer = "l1" \/ layer = "l2"
  <2>1. kept[1].batch = kept2[1].batch
    <3>1. 1 \in 1..n
      BY <1>1, <1>4
    <3> QED BY <3>1
  <2> QED BY <1>4, <2>1 DEF Metrics
<1> QED BY <1>2, <1>3, <1>4 DEF Layers

\* Nobody but a process itself ends in a conflict over its report.
LEMMA ConflictIsOfCheck ==
    ASSUME RunInv, Next, NEW p \in Processes, proc[p].pc = "check", proc'[p].pc = "conflict"
    PROVE  Conflicts(proc[p])
<1>1. proc \in [Processes -> RunsOf(component)]
  BY DEF RunInv, RunTypeOK
<1>2. ~Edit
  <2>1. Edit => proc'[p].pc = proc[p].pc
    BY <1>1, RunIs DEF Edit, RunsOf
  <2> QED BY <2>1
<1>3. PICK q \in Processes : Start(q) \/ Step(q) \/ Crash(q)
  BY <1>2 DEF Next
<1>4. \E y : Put(q, y)
  BY <1>3 DEF Start, Step, Crash, Load, Capture, Save, Preserve, Publish, Record, Check, Create,
              Finish, Settle, Ends
<1>5. q = p
  BY <1>1, <1>4 DEF Put
<1>6. Check(p)
  BY <1>3, <1>5 DEF Resting, Start, Step, Crash, Load, Capture, Save, Preserve, Publish, Record,
              Create, Finish
<1>7. CASE Put(p, [proc[p] EXCEPT !.pc = "create"])
  <2>1. proc'[p].pc = "create"
    BY <1>1, <1>7, Staged DEF Put, RunsOf
  <2> QED BY <2>1
<1>8. CASE Put(p, [proc[p] EXCEPT !.pc = "recorded"])
  <2>1. proc'[p].pc = "recorded"
    BY <1>1, <1>8, Staged DEF Put, RunsOf
  <2> QED BY <2>1
<1> QED BY <1>6, <1>7, <1>8 DEF Check

LEMMA ConflictsAreReal ==
    ASSUME RunInv, Next
    PROVE  ConflictIsReal
<1> SUFFICES ASSUME NEW p \in Processes, proc[p].pc = "check", proc'[p].pc = "conflict"
             PROVE  \E i \in Filed(proc[p]) :
                      \/ reports[i].state = "torn"
                      \/ reports[i].by # proc[p].grader
                      \/ reports[i].mood # proc[p].mood
                      \/ \E k \in DOMAIN reports[i].kept :
                           reports[i].kept[k].batch # proc[p].kept[k].batch
  BY DEF ConflictIsReal
<1> DEFINE x == proc[p]
<1>1. Filed(x) # {} /\ ~Agrees(x)
  BY ConflictIsOfCheck DEF Conflicts
<1> HIDE DEF x
<1>2. PICK i \in Filed(x) : ~(reports[i].state = "whole" /\ SameMetrics(reports[i], Report(x)))
  BY <1>1 DEF Agrees
<1> DEFINE r == reports[i]
<1>3. r \in ReportsOf(component) /\ ReportSound(r, component, runs) /\ r.layer = x.layer
  BY ElementOfSeq DEF RunInv, RunTypeOK, Filed
<1>4. /\ r.layer \in Layers /\ Len(r.kept) = Len(Arms(component, r.layer))
      /\ DOMAIN r.kept = 1..Len(Arms(component, r.layer))
  BY <1>3, ReportIs DEF ReportSound
<1>5. r.state \in {"torn", "whole"}
  BY <1>3 DEF ReportsOf
<1>6. /\ Report(x).by = x.grader /\ Report(x).layer = x.layer /\ Report(x).mood = x.mood
      /\ Report(x).kept = x.kept
  BY DEF Report
<1>7. ASSUME r.by = x.grader, r.mood = x.mood,
             \A k \in DOMAIN r.kept : r.kept[k].batch = x.kept[k].batch
      PROVE  SameMetrics(r, Report(x))
  <2>1. Metrics(r.layer, r.mood, r.kept) = Metrics(r.layer, r.mood, x.kept)
    BY <1>4, <1>7, SameBatchesSameMetrics
  <2> QED BY <1>3, <1>6, <1>7, <2>1 DEF SameMetrics
<1>8. \/ r.state = "torn" \/ r.by # x.grader \/ r.mood # x.mood
      \/ \E k \in DOMAIN r.kept : r.kept[k].batch # x.kept[k].batch
  BY <1>2, <1>5, <1>7
<1> QED BY <1>8 DEF x

-----------------------------------------------------------------------------
(* The offline baselines: types. *)

ManifestStates == {"none", "torn", "whole"}
Manifest == [state : ManifestStates, sources : Int, gated : Int]
Manifests == [Names -> [DOMAIN Gated -> Manifest]]
Indexes == [state : ManifestStates, name : Names \cup {"none"}]
MakerStages == {"idle", "gate", "compare", "open", "write", "index", "indexed", "done", "failed"}
Making == [pc : MakerStages, name : Names \cup {"none"}, done : Nat, gated : Int, sources : Int]

OfflineTypeOK ==
    /\ revision \in Int
    /\ manifests \in Manifests
    /\ index \in Indexes
    /\ maker \in [Makers -> Making]

\* A process works on the manifests of a name in their order, leaves no gap
\* behind it, and has passed the gate of the one it is about to write.
MakerSound(now, kept) ==
    /\ now.pc \in {"gate", "compare", "open", "write", "index", "indexed"} =>
         /\ now.name \in Names
         /\ \A i \in 1..now.done : i \in DOMAIN Gated /\ kept[now.name][i].state = "whole"
    /\ now.pc \in {"gate", "compare", "open", "write"} => now.done < Len(Gated)
    /\ now.pc \in {"index", "indexed"} => now.done = Len(Gated)
    /\ now.pc \in {"compare", "open"} => Gated[now.done + 1] \in Clean[now.gated]
    /\ now.pc = "write" => kept[now.name][now.done + 1].state # "none"

MakersSound == \A p \in Makers : MakerSound(maker[p], manifests)

\* The gates a manifest refers to did pass.
ManifestsPassed ==
    \A n \in Names, i \in DOMAIN Gated : manifests[n][i].state # "none" =>
      Gated[i] \in Clean[manifests[n][i].gated]

IndexNamed == index.state = "whole" => index.name \in Names

OfflineInv ==
    /\ OfflineTypeOK /\ MakersSound /\ ManifestsPassed
    /\ IndexNamed /\ IndexIsBacked

-----------------------------------------------------------------------------

LEMMA OfflineInit == ASSUME BaselinesInit PROVE OfflineInv
BY GatedAssumption DEF BaselinesInit, OfflineInv, OfflineTypeOK, MakersSound, MakerSound, ManifestsPassed,
       IndexNamed, IndexIsBacked, NoManifest, NoIndex, Asleep, Manifest, Manifests,
       Indexes, ManifestStates, Making, MakerStages

(* The records a step leaves a process in. *)

MakerAt(x, stage, gated, sources) ==
    [pc |-> stage, name |-> x.name, done |-> x.done, gated |-> gated, sources |-> sources]

LEMMA MakerFields ==
    ASSUME NEW y \in Making
    PROVE  y = [pc |-> y.pc, name |-> y.name, done |-> y.done,
                gated |-> y.gated, sources |-> y.sources]
BY DEF Making

LEMMA MakerStaged ==
    ASSUME NEW x \in Making, NEW stage \in MakerStages
    PROVE  /\ [x EXCEPT !.pc = stage] = MakerAt(x, stage, x.gated, x.sources)
           /\ MakerAt(x, stage, x.gated, x.sources) \in Making
<1> DEFINE y == [x EXCEPT !.pc = stage]
<1>1. y \in Making
  BY DEF Making
<1>2. y.pc = stage /\ y.name = x.name /\ y.done = x.done
  BY DEF Making
<1>3. y.gated = x.gated /\ y.sources = x.sources
  BY DEF Making
<1> HIDE DEF y
<1>4. y = MakerAt(x, stage, x.gated, x.sources)
  BY <1>1, <1>2, <1>3, MakerFields DEF MakerAt
<1> QED
  BY <1>1, <1>4 DEF y

LEMMA MakerGated ==
    ASSUME NEW x \in Making, NEW stage \in MakerStages, NEW gated \in Int
    PROVE  /\ [x EXCEPT !.pc = stage, !.gated = gated] = MakerAt(x, stage, gated, x.sources)
           /\ MakerAt(x, stage, gated, x.sources) \in Making
<1> DEFINE y == [x EXCEPT !.pc = stage, !.gated = gated]
<1>1. y \in Making
  BY DEF Making
<1>2. y.pc = stage /\ y.name = x.name /\ y.done = x.done
  BY DEF Making
<1>3. y.gated = gated /\ y.sources = x.sources
  BY DEF Making
<1> HIDE DEF y
<1>4. y = MakerAt(x, stage, gated, x.sources)
  BY <1>1, <1>2, <1>3, MakerFields DEF MakerAt
<1> QED
  BY <1>1, <1>4 DEF y

LEMMA MakerRead ==
    ASSUME NEW x \in Making, NEW stage \in MakerStages, NEW sources \in Int
    PROVE  /\ [x EXCEPT !.pc = stage, !.sources = sources] = MakerAt(x, stage, x.gated, sources)
           /\ MakerAt(x, stage, x.gated, sources) \in Making
<1> DEFINE y == [x EXCEPT !.pc = stage, !.sources = sources]
<1>1. y \in Making
  BY DEF Making
<1>2. y.pc = stage /\ y.name = x.name /\ y.done = x.done
  BY DEF Making
<1>3. y.gated = x.gated /\ y.sources = sources
  BY DEF Making
<1> HIDE DEF y
<1>4. y = MakerAt(x, stage, x.gated, sources)
  BY <1>1, <1>2, <1>3, MakerFields DEF MakerAt
<1> QED
  BY <1>1, <1>4 DEF y

LEMMA ProceedIs ==
    ASSUME NEW x \in Making
    PROVE  /\ Proceed(x) \in Making
           /\ Proceed(x).name = x.name /\ Proceed(x).done = x.done + 1
           /\ Proceed(x).pc = IF x.done + 1 = Len(Gated) THEN "index" ELSE "gate"
<1> DEFINE stage == IF x.done + 1 = Len(Gated) THEN "index" ELSE "gate"
           now == [x EXCEPT !.done = x.done + 1, !.pc = stage]
<1>1. x.done + 1 \in Nat /\ stage \in MakerStages
  BY DEF Making, MakerStages
<1>2. now \in Making
  BY <1>1 DEF Making
<1>3. now.pc = stage /\ now.name = x.name /\ now.done = x.done + 1
  BY DEF Making
<1> QED
  BY <1>2, <1>3 DEF Proceed

(* A process moves, and no complete manifest is lost. *)

LEMMA MakerGoes ==
    ASSUME OfflineTypeOK, NEW p \in Makers, NEW now \in Making, Mark(p, now)
    PROVE  /\ maker' \in [Makers -> Making]
           /\ maker'[p] = now /\ \A q \in Makers \ {p} : maker'[q] = maker[q]
BY DEF Mark, OfflineTypeOK

ManifestsStand == \A n \in Names, i \in DOMAIN Gated :
          /\ manifests[n][i].state = "whole" => manifests'[n][i].state = "whole"
          /\ manifests[n][i].state # "none" => manifests'[n][i].state # "none"

LEMMA MakerMoves ==
    ASSUME OfflineInv, NEW p \in Makers, NEW now \in Making, Mark(p, now),
           MakerSound(now, manifests'), ManifestsStand
    PROVE  maker' \in [Makers -> Making] /\ MakersSound'
<1>1. /\ maker' \in [Makers -> Making]
      /\ maker'[p] = now /\ \A q \in Makers \ {p} : maker'[q] = maker[q]
  BY MakerGoes DEF OfflineInv
<1>2. ASSUME NEW q \in Makers \ {p} PROVE MakerSound(maker[q], manifests')
  <2> DEFINE x == maker[q]
  <2>1. x \in Making /\ MakerSound(x, manifests)
    BY DEF OfflineInv, OfflineTypeOK, MakersSound
  <2> HIDE DEF x
  <2>2. ASSUME x.pc \in {"gate", "compare", "open", "write", "index", "indexed"}
        PROVE  /\ x.name \in Names
               /\ \A i \in 1..x.done : i \in DOMAIN Gated /\ manifests'[x.name][i].state = "whole"
    BY <2>1, <2>2 DEF MakerSound, ManifestsStand
  <2>3. ASSUME x.pc = "write" PROVE manifests'[x.name][x.done + 1].state # "none"
    <3>1. x.name \in Names /\ x.done + 1 \in 1..Len(Gated) /\ manifests[x.name][x.done + 1].state # "none"
      BY <2>1, <2>3, GatedAssumption DEF MakerSound, Making
    <3> QED BY <3>1, GatedAssumption DEF ManifestsStand
  <2>4. /\ x.pc \in {"gate", "compare", "open", "write"} => x.done < Len(Gated)
        /\ x.pc \in {"index", "indexed"} => x.done = Len(Gated)
        /\ x.pc \in {"compare", "open"} => Gated[x.done + 1] \in Clean[x.gated]
    BY <2>1 DEF MakerSound
  <2>5. MakerSound(x, manifests')
    BY <2>2, <2>3, <2>4 DEF MakerSound
  <2> QED BY <2>5 DEF x
<1> QED
  BY <1>1, <1>2 DEF MakersSound

LEMMA MakerStays ==
    ASSUME OfflineInv, NEW p \in Makers, NEW now \in Making, Mark(p, now),
           MakerSound(now, manifests), UNCHANGED <<revision, manifests, index>>
    PROVE  OfflineInv'
<1>1. ManifestsStand /\ MakerSound(now, manifests')
  BY DEF ManifestsStand
<1>2. maker' \in [Makers -> Making] /\ MakersSound'
  BY <1>1, MakerMoves
<1> QED
  BY <1>2 DEF OfflineInv, OfflineTypeOK, ManifestsPassed, IndexNamed, IndexIsBacked

-----------------------------------------------------------------------------
LEMMA CreateBaselineKeeps == ASSUME OfflineInv, NEW p \in Makers, CreateBaseline(p) PROVE OfflineInv'
<1>1. PICK n \in Names : Mark(p, [Asleep EXCEPT !.pc = "gate", !.name = n])
  BY DEF CreateBaseline
<1> DEFINE now == [pc |-> "gate", name |-> n, done |-> 0, gated |-> 0, sources |-> 0]
<1>2. [Asleep EXCEPT !.pc = "gate", !.name = n] = now
  <2> DEFINE y == [Asleep EXCEPT !.pc = "gate", !.name = n]
  <2>1. Asleep \in Making
    BY DEF Asleep, Making, MakerStages
  <2>2. y \in Making
    BY <2>1 DEF Making, MakerStages
  <2>3. y.pc = "gate" /\ y.name = n /\ y.done = 0 /\ y.gated = 0 /\ y.sources = 0
    BY <2>1 DEF Making, Asleep
  <2> HIDE DEF y
  <2>4. y = now
    BY <2>2, <2>3, MakerFields
  <2> QED BY <2>4 DEF y
<1>3. now \in Making
  BY DEF Making, MakerStages
<1>4. MakerSound(now, manifests)
  BY GatedAssumption DEF MakerSound
<1>5. Mark(p, now)
  BY <1>1, <1>2
<1> HIDE DEF now
<1> QED
  BY <1>3, <1>4, <1>5, MakerStays DEF CreateBaseline

LEMMA MakerIs ==
    ASSUME OfflineInv, NEW p \in Makers
    PROVE  maker[p] \in Making /\ MakerSound(maker[p], manifests) /\ revision \in Int
BY DEF OfflineInv, OfflineTypeOK, MakersSound

LEMMA FailKeeps ==
    ASSUME OfflineInv, NEW p \in Makers, Mark(p, [maker[p] EXCEPT !.pc = "failed"]),
           UNCHANGED <<revision, manifests, index>>
    PROVE  OfflineInv'
<1> DEFINE x == maker[p]
           now == MakerAt(x, "failed", x.gated, x.sources)
<1>1. now \in Making /\ Mark(p, now)
  BY MakerIs, MakerStaged DEF MakerStages
<1>2. MakerSound(now, manifests)
  BY DEF MakerSound, MakerAt
<1> HIDE DEF now
<1> QED
  BY <1>1, <1>2, MakerStays

LEMMA SourcesMove ==
    ASSUME OfflineInv, UNCHANGED <<manifests, index, maker>>, revision' \in Int
    PROVE  OfflineInv'
BY DEF OfflineInv, OfflineTypeOK, MakersSound, MakerSound, ManifestsPassed, IndexNamed, IndexIsBacked

(* A process that leaves a complete manifest behind it may go on. *)

LEMMA CompletedIsSound ==
    ASSUME NEW x \in Making, NEW kept, x.name \in Names, x.done < Len(Gated),
           \A i \in 1..x.done : i \in DOMAIN Gated /\ kept[x.name][i].state = "whole",
           kept[x.name][x.done + 1].state = "whole"
    PROVE  MakerSound(Proceed(x), kept)
<1> DEFINE now == Proceed(x)
<1>1. /\ now.name = x.name /\ now.done = x.done + 1
      /\ now.pc = IF x.done + 1 = Len(Gated) THEN "index" ELSE "gate"
  BY ProceedIs
<1>2. x.done \in Nat
  BY DEF Making
<1> HIDE DEF now
<1>3. \A i \in 1..now.done : i \in DOMAIN Gated /\ kept[now.name][i].state = "whole"
  BY <1>1, <1>2, GatedAssumption
<1>4. MakerSound(now, kept)
  BY <1>1, <1>2, <1>3, GatedAssumption DEF MakerSound
<1> QED
  BY <1>4 DEF now

(* One manifest is stored, the others are left as they are. *)

LEMMA StoredKeeps ==
    ASSUME OfflineInv, NEW p \in Makers, NEW now \in Making, Mark(p, now),
           NEW n \in Names, NEW i \in DOMAIN Gated, NEW m \in Manifest,
           manifests' \in Manifests, manifests'[n][i] = m,
           \A n2 \in Names, j \in DOMAIN Gated :
             n2 # n \/ j # i => manifests'[n2][j] = manifests[n2][j],
           m.state # "none", Gated[i] \in Clean[m.gated],
           manifests[n][i].state = "whole" => m.state = "whole",
           MakerSound(now, manifests'), UNCHANGED <<revision, index>>
    PROVE  OfflineInv'
<1>1. ManifestsStand
  BY DEF ManifestsStand
<1>2. maker' \in [Makers -> Making] /\ MakersSound'
  BY <1>1, MakerMoves
<1>3. ManifestsPassed'
  BY DEF OfflineInv, ManifestsPassed
<1>4. IndexNamed' /\ IndexIsBacked'
  BY <1>1 DEF OfflineInv, IndexNamed, IndexIsBacked, ManifestsStand
<1>5. OfflineTypeOK'
  BY <1>2 DEF OfflineInv, OfflineTypeOK
<1> QED
  BY <1>2, <1>3, <1>4, <1>5 DEF OfflineInv

LEMMA GateKeeps == ASSUME OfflineInv, NEW p \in Makers, Gate(p) PROVE OfflineInv'
<1> DEFINE x == maker[p]
<1>1. x \in Making /\ MakerSound(x, manifests) /\ revision \in Int
  BY MakerIs
<1>2. x.pc = "gate" /\ UNCHANGED <<revision, manifests, index>>
  BY DEF Gate
<1>3. CASE Passes(Gated[At(p)]) /\ Mark(p, [x EXCEPT !.pc = "compare", !.gated = revision])
  <2> DEFINE now == MakerAt(x, "compare", revision, x.sources)
  <2>1. now \in Making /\ Mark(p, now)
    BY <1>1, <1>3, MakerGated DEF MakerStages
  <2>2. MakerSound(now, manifests)
    BY <1>1, <1>2, <1>3 DEF MakerSound, Passes, At, MakerAt
  <2> HIDE DEF now
  <2> QED BY <1>2, <2>1, <2>2, MakerStays
<1>4. CASE ~Passes(Gated[At(p)]) /\ Mark(p, [x EXCEPT !.pc = "failed"])
  <2> DEFINE now == MakerAt(x, "failed", x.gated, x.sources)
  <2>1. now \in Making /\ Mark(p, now)
    BY <1>1, <1>4, MakerStaged DEF MakerStages
  <2>2. MakerSound(now, manifests)
    BY DEF MakerSound, MakerAt
  <2> HIDE DEF now
  <2> QED BY <1>2, <2>1, <2>2, MakerStays
<1> QED
  BY <1>3, <1>4 DEF Gate

LEMMA CompareKeeps == ASSUME OfflineInv, NEW p \in Makers, Compare(p) PROVE OfflineInv'
<1> DEFINE x == maker[p]
           there == manifests[x.name][At(p)]
<1>1. x \in Making /\ MakerSound(x, manifests) /\ revision \in Int
  BY MakerIs
<1>2. x.pc = "compare" /\ UNCHANGED <<revision, manifests, index>>
  BY DEF Compare
<1>3. CASE Mark(p, [x EXCEPT !.pc = "open", !.sources = revision])
  <2> DEFINE now == MakerAt(x, "open", x.gated, revision)
  <2>1. now \in Making /\ Mark(p, now)
    BY <1>1, <1>3, MakerRead DEF MakerStages
  <2>2. MakerSound(now, manifests)
    BY <1>1, <1>2 DEF MakerSound, MakerAt
  <2> HIDE DEF now
  <2> QED BY <1>2, <2>1, <2>2, MakerStays
<1>4. CASE there.state = "whole" /\ Mark(p, Proceed(x))
  <2>1. Proceed(x) \in Making
    BY <1>1, ProceedIs
  <2>2. /\ x.name \in Names /\ x.done < Len(Gated)
        /\ \A i \in 1..x.done : i \in DOMAIN Gated /\ manifests[x.name][i].state = "whole"
        /\ manifests[x.name][x.done + 1].state = "whole"
    BY <1>1, <1>2, <1>4 DEF MakerSound, At
  <2>3. MakerSound(Proceed(x), manifests)
    BY <1>1, <2>2, CompletedIsSound
  <2> QED BY <1>2, <1>4, <2>1, <2>3, MakerStays
<1>5. CASE Mark(p, [x EXCEPT !.pc = "failed"])
  BY <1>2, <1>5, FailKeeps
<1> QED
  BY <1>3, <1>4, <1>5 DEF Compare

LEMMA OpenKeeps == ASSUME OfflineInv, NEW p \in Makers, Open(p) PROVE OfflineInv'
<1> DEFINE x == maker[p]
           i == x.done + 1
           there == manifests[x.name][i]
           m == [state |-> "torn", sources |-> x.sources, gated |-> x.gated]
<1>1. x \in Making /\ MakerSound(x, manifests)
  BY MakerIs
<1>2. x.pc = "open" /\ UNCHANGED <<revision, index>>
  BY DEF Open
<1>3. x.name \in Names /\ i \in DOMAIN Gated /\ Gated[i] \in Clean[x.gated]
  BY <1>1, <1>2, GatedAssumption DEF MakerSound, Making
<1>4. CASE /\ there.state = "none" /\ manifests' = [manifests EXCEPT ![x.name][i] = m]
           /\ Mark(p, [x EXCEPT !.pc = "write"])
  <2> DEFINE now == MakerAt(x, "write", x.gated, x.sources)
  <2>1. now \in Making /\ Mark(p, now)
    BY <1>1, <1>4, MakerStaged DEF MakerStages
  <2>2. m \in Manifest /\ m.state = "torn" /\ m.gated = x.gated
    BY <1>1 DEF Making, Manifest, ManifestStates
  <2> HIDE DEF m
  <2>3. /\ OfflineTypeOK /\ manifests[x.name][i].state # "whole"
    BY <1>4 DEF OfflineInv
  <2>4. /\ manifests' \in Manifests /\ manifests'[x.name][i] = m
        /\ \A n \in Names, j \in DOMAIN Gated :
             n # x.name \/ j # i => manifests'[n][j] = manifests[n][j]
    BY <1>3, <1>4, <2>2, <2>3 DEF OfflineTypeOK, Manifests
  <2>5. MakerSound(now, manifests')
    BY <1>1, <1>2, <1>3, <2>2, <2>4, GatedAssumption DEF MakerSound, MakerAt, Making
  <2> HIDE DEF now
  <2> QED BY <1>2, <1>3, <2>1, <2>2, <2>3, <2>4, <2>5, StoredKeeps
<1>5. CASE Mark(p, [x EXCEPT !.pc = "failed"]) /\ UNCHANGED manifests
  BY <1>2, <1>5, FailKeeps
<1> QED
  BY <1>4, <1>5 DEF Open, At

LEMMA WriteManifestKeeps == ASSUME OfflineInv, NEW p \in Makers, Write(p) PROVE OfflineInv'
<1> DEFINE x == maker[p]
           i == x.done + 1
           there == manifests[x.name][i]
           m == [there EXCEPT !.state = "whole"]
<1>1. x \in Making /\ MakerSound(x, manifests)
  BY MakerIs
<1>2. /\ x.pc = "write" /\ UNCHANGED <<revision, index>> /\ Mark(p, Proceed(x))
      /\ manifests' = [manifests EXCEPT ![x.name][i] = m]
  BY DEF Write, At
<1>3. x.name \in Names /\ i \in DOMAIN Gated /\ there.state # "none"
  BY <1>1, <1>2, GatedAssumption DEF MakerSound, Making
<1>4. OfflineTypeOK /\ ManifestsPassed
  BY DEF OfflineInv
<1>5. there \in Manifest
  BY <1>3, <1>4 DEF OfflineTypeOK, Manifests
<1>6. m \in Manifest /\ m.state = "whole" /\ m.gated = there.gated
  BY <1>5 DEF Manifest, ManifestStates
<1>7. Gated[i] \in Clean[m.gated]
  BY <1>3, <1>4, <1>6 DEF ManifestsPassed
<1> HIDE DEF m
<1>8. /\ manifests' \in Manifests /\ manifests'[x.name][i] = m
      /\ \A n \in Names, j \in DOMAIN Gated :
           n # x.name \/ j # i => manifests'[n][j] = manifests[n][j]
  BY <1>2, <1>3, <1>4, <1>6 DEF OfflineTypeOK, Manifests
<1>9. \A j \in 1..x.done : j \in DOMAIN Gated /\ manifests'[x.name][j].state = "whole"
  BY <1>1, <1>2, <1>3, <1>6, <1>8 DEF MakerSound, Making
<1>10. Proceed(x) \in Making /\ MakerSound(Proceed(x), manifests')
  <2>1. x.done < Len(Gated) /\ manifests'[x.name][x.done + 1].state = "whole"
    BY <1>1, <1>2, <1>6, <1>8 DEF MakerSound
  <2>2. MakerSound(Proceed(x), manifests')
    BY <1>1, <1>3, <1>9, <2>1, CompletedIsSound
  <2> QED BY <1>1, <2>2, ProceedIs
<1> QED
  BY <1>2, <1>3, <1>6, <1>7, <1>8, <1>10, StoredKeeps

LEMMA IndexKeeps ==
    ASSUME OfflineInv, NEW p \in Makers, OpenIndex(p) \/ WriteIndex(p)
    PROVE  OfflineInv'
<1> DEFINE x == maker[p]
<1>1. x \in Making /\ MakerSound(x, manifests) /\ x.pc \in {"index", "indexed"}
  BY MakerIs DEF OpenIndex, WriteIndex
<1>2. x.name \in Names /\ \A i \in DOMAIN Gated : manifests[x.name][i].state = "whole"
  BY <1>1, GatedAssumption DEF MakerSound
<1>3. /\ UNCHANGED <<revision, manifests>> /\ ManifestsStand
      /\ index' \in Indexes /\ index'.name = x.name
  BY <1>1 DEF OpenIndex, WriteIndex, Indexes, Making, ManifestStates, ManifestsStand
<1>4. PICK stage \in {"indexed", "done"} : Mark(p, [x EXCEPT !.pc = stage])
  BY DEF OpenIndex, WriteIndex
<1> DEFINE now == MakerAt(x, stage, x.gated, x.sources)
<1>5. now \in Making /\ Mark(p, now)
  BY <1>1, <1>4, MakerStaged DEF MakerStages
<1>6. MakerSound(now, manifests')
  BY <1>1, <1>3 DEF MakerSound, MakerAt
<1> HIDE DEF now
<1>7. maker' \in [Makers -> Making] /\ MakersSound'
  BY <1>3, <1>5, <1>6, MakerMoves
<1> QED
  BY <1>2, <1>3, <1>7 DEF OfflineInv, OfflineTypeOK, ManifestsPassed, IndexNamed, IndexIsBacked

LEMMA OfflineNext == ASSUME OfflineInv, [BaselinesNext]_baselineVars PROVE OfflineInv'
<1>1. ASSUME NEW p \in Makers, CreateBaseline(p) PROVE OfflineInv'
  BY <1>1, CreateBaselineKeeps
<1>2. ASSUME NEW p \in Makers, MakerStep(p) PROVE OfflineInv'
  BY <1>2, GateKeeps, CompareKeeps, OpenKeeps, WriteManifestKeeps, IndexKeeps DEF MakerStep
<1>3. ASSUME NEW p \in Makers, CrashMaker(p) PROVE OfflineInv'
  BY <1>3, FailKeeps DEF CrashMaker
<1>4. CASE Revise
  <2>1. UNCHANGED <<manifests, index, maker>> /\ revision' \in Int
    BY <1>4 DEF Revise, OfflineInv, OfflineTypeOK
  <2> QED BY <2>1, SourcesMove
<1>5. CASE UNCHANGED baselineVars
  BY <1>5, SourcesMove DEF baselineVars, OfflineInv, OfflineTypeOK
<1> QED
  BY <1>1, <1>2, <1>3, <1>4, <1>5 DEF BaselinesNext

\* A complete manifest is never written again.
LEMMA NoManifestIsRewritten ==
    ASSUME OfflineInv, BaselinesNext
    PROVE  ManifestsStay
<1> SUFFICES ASSUME NEW n \in Names, NEW i \in DOMAIN Gated, manifests[n][i].state = "whole"
             PROVE  manifests'[n][i] = manifests[n][i]
  BY DEF ManifestsStay
<1>1. manifests \in Manifests
  BY DEF OfflineInv, OfflineTypeOK
<1>2. ASSUME NEW p \in Makers, Open(p)
      PROVE  manifests'[n][i] = manifests[n][i]
  <2>1. \/ UNCHANGED manifests
        \/ /\ manifests[maker[p].name][At(p)].state = "none"
           /\ manifests' = [manifests EXCEPT ![maker[p].name][At(p)] =
                 [state |-> "torn", sources |-> maker[p].sources, gated |-> maker[p].gated]]
    BY <1>2 DEF Open
  <2>2. CASE n = maker[p].name /\ i = At(p)
    BY <2>1, <2>2
  <2>3. CASE ~(n = maker[p].name /\ i = At(p))
    BY <1>1, <2>1, <2>3 DEF Manifests
  <2> QED BY <2>2, <2>3
<1>3. ASSUME NEW p \in Makers, Write(p)
      PROVE  manifests'[n][i] = manifests[n][i]
  <2>1. manifests' = [manifests EXCEPT ![maker[p].name][At(p)] =
                        [manifests[maker[p].name][At(p)] EXCEPT !.state = "whole"]]
    BY <1>3 DEF Write
  <2>2. [manifests[n][i] EXCEPT !.state = "whole"] = manifests[n][i]
    <3>1. manifests[n][i] \in Manifest
      BY <1>1 DEF Manifests
    <3> QED BY <3>1 DEF Manifest
  <2>3. CASE n = maker[p].name /\ i = At(p)
    BY <1>1, <2>1, <2>2, <2>3 DEF Manifests
  <2>4. CASE ~(n = maker[p].name /\ i = At(p))
    BY <1>1, <2>1, <2>4 DEF Manifests
  <2> QED BY <2>3, <2>4
<1>4. UNCHANGED manifests \/ \E p \in Makers : Open(p) \/ Write(p)
  BY DEF BaselinesNext, Revise, CreateBaseline, MakerStep, CrashMaker, Gate, Compare, OpenIndex,
         WriteIndex
<1> QED BY <1>2, <1>3, <1>4

-----------------------------------------------------------------------------

\* A readable index names a baseline that is complete (create_offline_baselines),
\* for any number of processes, names and specialists.
THEOREM IndexIsAlwaysBacked == BaselinesSpec => []IndexIsBacked
<1>1. BaselinesInit => OfflineInv
  BY OfflineInit
<1>2. OfflineInv /\ [BaselinesNext]_baselineVars => OfflineInv'
  BY OfflineNext
<1>3. OfflineInv => IndexIsBacked
  BY DEF OfflineInv
<1> QED BY <1>1, <1>2, <1>3, PTL DEF BaselinesSpec

LEMMA VerifiedIsEarned ==
    ASSUME OfflineInv
    PROVE  VerifiedWasGated
  BY DEF OfflineInv, VerifiedWasGated, Verified, ManifestsPassed, IndexNamed

\* What verification accepts passed its gates with the sources on disk, unless
\* they were edited between the gates and the manifest (verify_offline_baselines).
THEOREM VerificationIsEarned == BaselinesSpec => []VerifiedWasGated
<1>1. BaselinesInit => OfflineInv
  BY OfflineInit
<1>2. OfflineInv /\ [BaselinesNext]_baselineVars => OfflineInv'
  BY OfflineNext
<1>3. OfflineInv => VerifiedWasGated
  BY VerifiedIsEarned
<1> QED BY <1>1, <1>2, <1>3, PTL DEF BaselinesSpec

-----------------------------------------------------------------------------
(* The judge: what is taken of three attempts, ...                          *)

LEMMA AttemptTaken ==
    ASSUME NEW x, NEW y, NEW z
    PROVE  RunJudge(<<x, y, z>>) =
             IF ~IsTransient(x) THEN x ELSE IF ~IsTransient(y) THEN y ELSE z
<1> DEFINE attempts == <<x, y, z>>
           last == {i \in 1..3 : ~IsTransient(attempts[i])} \cup {3}
           taken == CHOOSE i \in last : \A j \in last : i <= j
<1>1. last \subseteq Nat /\ last # {} /\ last \subseteq {1, 2, 3}
  OBVIOUS
<1>2. taken \in last /\ \A j \in last : taken <= j
  <2>1. \E i \in last : \A j \in last : i <= j
    BY <1>1, NatMinimum
  <2> QED BY <2>1
<1>3. RunJudge(attempts) = attempts[taken]
  BY DEF RunJudge, MaxAttempts
<1>4. /\ attempts[1] = x /\ attempts[2] = y /\ attempts[3] = z
      /\ 1 \in last <=> ~IsTransient(x)
      /\ 2 \in last <=> ~IsTransient(y)
      /\ 3 \in last
  OBVIOUS
<1> HIDE DEF attempts, last, taken
<1>5. CASE ~IsTransient(x)
  <2>1. taken = 1
    BY <1>1, <1>2, <1>4, <1>5
  <2> QED BY <1>3, <1>4, <1>5, <2>1 DEF attempts
<1>6. CASE IsTransient(x) /\ ~IsTransient(y)
  <2>1. taken = 2
    BY <1>1, <1>2, <1>4, <1>6
  <2> QED BY <1>3, <1>4, <1>6, <2>1 DEF attempts
<1>7. CASE IsTransient(x) /\ IsTransient(y)
  <2>1. taken = 3
    BY <1>1, <1>2, <1>4, <1>7
  <2> QED BY <1>3, <1>4, <1>7, <2>1 DEF attempts
<1> QED BY <1>5, <1>6, <1>7

LEMMA ThriceTaken == ASSUME NEW call PROVE RunJudge(Thrice(call)) = call
  BY AttemptTaken DEF Thrice

LEMMA ThirdTaken == ASSUME NEW call PROVE RunJudge(<<Transient, Transient, call>>) = call
  BY AttemptTaken DEF Transient, IsTransient

\* ... which answer of two it prefers, ...
Preference(mood, a, b) ==
    CASE mood = "first" -> "A" [] mood = "second" -> "B"
      [] mood = "timid" -> IF a.worth > b.worth THEN "A" ELSE "tie"
      [] OTHER -> Better(a, b)

LEMMA SlotsTaken ==
    ASSUME NEW mood \in Moods, NEW a, NEW b
    PROVE  /\ mood \in {"down", "broken"} => RunJudge(Slots(mood, a, b)).state # "said"
           /\ mood \notin {"down", "broken"} =>
                /\ RunJudge(Slots(mood, a, b)).state = "said"
                /\ RunJudge(Slots(mood, a, b)).winner = Preference(mood, a, b)
<1> DEFINE taken == RunJudge(Slots(mood, a, b))
<1>1. CASE mood = "down"
  <2>1. taken = Transient
    BY <1>1, ThriceTaken DEF Slots
  <2> QED BY <1>1, <2>1 DEF Transient
<1>2. CASE mood = "broken"
  <2>1. taken = Broken
    BY <1>2, ThriceTaken DEF Slots
  <2> QED BY <1>2, <2>1 DEF Broken
<1>3. CASE mood = "flaky"
  <2>1. taken = Said(0, Better(a, b))
    BY <1>3, ThirdTaken DEF Slots
  <2> QED BY <1>3, <2>1 DEF Said, Preference
<1>4. CASE mood \notin {"down", "broken", "flaky"}
  <2>1. Slots(mood, a, b) = Thrice(Said(0, Preference(mood, a, b)))
    BY <1>4 DEF Slots, Preference, Moods
  <2>2. taken = Said(0, Preference(mood, a, b))
    BY <2>1, ThriceTaken
  <2> QED BY <1>4, <2>2 DEF Said
<1> QED BY <1>1, <1>2, <1>3, <1>4

\* ... so that a winner is the better one, whichever is shown or named first.
LEMMA PreferenceIs ==
    ASSUME NEW mood \in Moods, NEW a, NEW b, a.worth \in Int, b.worth \in Int
    PROVE  /\ Preference(mood, a, b) \in {"A", "B", "tie"}
           /\ Preference(mood, a, b) = Deswap(Preference(mood, b, a)) =>
                Preference(mood, a, b) \in {"tie", Better(a, b)}
           /\ Better(a, b) = Deswap(Better(b, a))
  BY DEF Preference, Deswap, Better, Moods

LEMMA DeswapIs ==
    /\ \A w \in {"A", "B", "tie"} : Deswap(w) \in {"A", "B", "tie"} /\ Deswap(Deswap(w)) = w
    /\ Deswap("tie") = "tie" /\ Deswap("none") = "none"
  BY DEF Deswap

LEMMA PairIsJudged ==
    ASSUME NEW mood \in Moods, NEW a, NEW b, a.worth \in Int, b.worth \in Int
    PROVE  /\ ComparePairwise(mood, a, b).winner = Deswap(ComparePairwise(mood, b, a).winner)
           /\ ComparePairwise(mood, a, b).winner \in {"A", "B"} =>
                /\ ComparePairwise(mood, a, b).winner = Better(a, b)
                /\ a.error = "none" /\ b.error = "none"
<1> DEFINE Spoilt(s, t) == \E r \in {s, t} : r.error # "none" \/ ~r.answer
           Silent(s, t) == RunJudge(Slots(mood, s, t)).state # "said"
           W(s, t) == RunJudge(Slots(mood, s, t)).winner
<1>1. ASSUME NEW s, NEW t
      PROVE  ComparePairwise(mood, s, t).winner =
               IF Spoilt(s, t) \/ Silent(s, t) \/ Silent(t, s) THEN "none"
               ELSE IF W(s, t) = Deswap(W(t, s)) THEN W(s, t) ELSE "tie"
  BY DEF ComparePairwise, NoWinner
<1>2. Spoilt(a, b) <=> Spoilt(b, a)
  OBVIOUS
<1>3. CASE Spoilt(a, b) \/ Silent(a, b) \/ Silent(b, a)
  <2>1. ComparePairwise(mood, a, b).winner = "none" /\ ComparePairwise(mood, b, a).winner = "none"
    BY <1>1, <1>2, <1>3
  <2> QED BY <2>1, DeswapIs
<1>4. CASE ~Spoilt(a, b) /\ ~Silent(a, b) /\ ~Silent(b, a)
  <2>1. W(a, b) = Preference(mood, a, b) /\ W(b, a) = Preference(mood, b, a)
    BY <1>4, SlotsTaken
  <2>2. /\ ComparePairwise(mood, a, b).winner =
             IF W(a, b) = Deswap(W(b, a)) THEN W(a, b) ELSE "tie"
        /\ ComparePairwise(mood, b, a).winner =
             IF W(b, a) = Deswap(W(a, b)) THEN W(b, a) ELSE "tie"
    BY <1>1, <1>2, <1>4
  <2>3. a.error = "none" /\ b.error = "none"
    BY <1>4
  <2>4. W(a, b) \in {"A", "B", "tie"} /\ W(b, a) \in {"A", "B", "tie"}
    BY <2>1, PreferenceIs
  <2>5. W(a, b) = Deswap(W(b, a)) => W(a, b) \in {"tie", Better(a, b)}
    BY <2>1, PreferenceIs
  <2> HIDE DEF W, Spoilt, Silent
  <2> QED BY <2>2, <2>3, <2>4, <2>5, DeswapIs
<1> QED BY <1>3, <1>4

\* An outcome is the infrastructure's fault only if the run erred.
LEMMA WinnersAreJudged == WinnersAreEarned
<1> SUFFICES ASSUME NEW c \in Specialists, NEW mood \in Moods,
                    NEW s \in Contenders, NEW t \in Contenders
             PROVE  LET a == KeptOf(c, s)
                        b == KeptOf(c, t)
                        verdict == BattleOf(c, mood, a, b)
                    IN  /\ verdict.winner = Deswap(BattleOf(c, mood, b, a).winner)
                        /\ verdict.winner \in {"A", "B"} =>
                             /\ verdict.winner = Better(a, b)
                             /\ {OutcomeOf(c, a), OutcomeOf(c, b)} \cap Ineligible = {}
  BY DEF WinnersAreEarned
<1> DEFINE a == KeptOf(c, s)
           b == KeptOf(c, t)
           ruled == IF c = "hotels" THEN {"blocked_external"} ELSE Ineligible
<1>1. ASSUME NEW run \in Contenders PROVE KeptOf(c, run).worth \in Int
  <2>1. IsRun(run)
    BY TrialsAssumption
  <2>2. run.worth \in Int
    BY <2>1 DEF IsRun
  <2>3. CASE run.error # "none"
    BY <2>3 DEF KeptOf, Kept, KeptReadiness, Nothing
  <2>4. CASE run.error = "none" /\ c # "readiness"
    BY <2>2, <2>4 DEF KeptOf, Kept
  <2>5. CASE run.error = "none" /\ c = "readiness"
    <3>1. \A x, y : [run EXCEPT !.calls = x, !.outputs = y].worth = run.worth
      BY <2>1 DEF IsRun
    <3> QED BY <2>2, <2>5, <3>1 DEF KeptOf, KeptReadiness
  <2> QED BY <2>3, <2>4, <2>5
<1>2. a.worth \in Int /\ b.worth \in Int
  BY <1>1
<1> HIDE DEF a, b
<1>3. ASSUME NEW x, NEW y
      PROVE  BattleOf(c, mood, x, y) = Battle({OutcomeOf(c, x), OutcomeOf(c, y)}, ruled, mood, x, y)
  BY DEF BattleOf, OutcomeOf, Specialists, FlightsBattle, HotelsBattle, ActivitiesBattle,
         RestaurantsBattle, TransportationBattle, ReadinessBattle, BudgetBattle, ItineraryBattle
<1> DEFINE outcomes == {OutcomeOf(c, a), OutcomeOf(c, b)}
<1>4. {OutcomeOf(c, b), OutcomeOf(c, a)} = outcomes
  OBVIOUS
<1>5. CASE outcomes \cap ruled # {}
  <2>1. BattleOf(c, mood, a, b) = NoWinner /\ BattleOf(c, mood, b, a) = NoWinner
    BY <1>3, <1>4, <1>5 DEF Battle
  <2>2. BattleOf(c, mood, a, b).winner = "none" /\ BattleOf(c, mood, b, a).winner = "none"
    BY <2>1 DEF NoWinner
  <2> QED BY <2>2, DeswapIs DEF a, b
<1>6. CASE outcomes \cap ruled = {}
  <2>1. /\ BattleOf(c, mood, a, b) = ComparePairwise(mood, a, b)
        /\ BattleOf(c, mood, b, a) = ComparePairwise(mood, b, a)
    BY <1>3, <1>4, <1>6 DEF Battle
  <2>2. /\ BattleOf(c, mood, a, b).winner = Deswap(BattleOf(c, mood, b, a).winner)
        /\ BattleOf(c, mood, a, b).winner \in {"A", "B"} =>
             BattleOf(c, mood, a, b).winner = Better(a, b) /\ a.error = "none" /\ b.error = "none"
    BY <1>2, <2>1, PairIsJudged
  <2>3. ASSUME a.error = "none", b.error = "none" PROVE outcomes \cap Ineligible = {}
    <3>1. ASSUME NEW x, x.error = "none" PROVE HotelsOutcome(x) # "infra_error"
      BY <3>1 DEF HotelsOutcome, Answered
    <3>2. c = "hotels" => outcomes = {HotelsOutcome(a), HotelsOutcome(b)}
      BY DEF OutcomeOf
    <3> HIDE DEF outcomes
    <3> QED BY <1>6, <2>3, <3>1, <3>2 DEF Ineligible
  <2> QED BY <2>2, <2>3 DEF a, b
<1> QED BY <1>5, <1>6

-----------------------------------------------------------------------------
(* Calibration: sums of what is the same everywhere, ...                     *)

LEMMA SumOfSame ==
    ASSUME NEW fun, NEW S, IsFiniteSet(S), NEW c \in Nat, \A x \in S : fun[x] = c
    PROVE  SumFunctionOnSet(fun, S) = Cardinality(S) * c
<1> DEFINE Sum(t) == SumFunctionOnSet(fun, t)
           Fine(t) == Sum(t) = Cardinality(t) * c
           bad == {k \in Nat : \E t \in SUBSET S : Cardinality(t) = k /\ ~Fine(t)}
<1>1. \A t \in SUBSET S : IsFiniteSet(t) /\ Cardinality(t) \in Nat
  BY FS_Subset, FS_CardinalityType
<1>2. SUFFICES ASSUME bad # {} PROVE FALSE
  <2> HIDE DEF Fine
  <2>1. Fine(S)
    BY <1>1, <1>2
  <2> QED BY <2>1 DEF Fine
<1>3. PICK least \in bad : \A k \in bad : least <= k
  BY <1>2, NatMinimum
<1>4. PICK t \in SUBSET S : Cardinality(t) = least /\ ~Fine(t)
  BY <1>3
<1>5. t # {}
  <2>1. Sum({}) = 0 /\ Cardinality({}) = 0 /\ 0 * c = 0
    BY SumEmpty, FS_EmptySet
  <2>2. Fine({})
    BY <2>1
  <2> HIDE DEF Fine
  <2> QED BY <1>4, <2>2
<1> DEFINE rest == t \ {Picked(t)}
<1>6. Picked(t) \in t /\ rest \in SUBSET S /\ Sum(t) = c + Sum(rest)
  BY <1>1, <1>5, SumPicked, Picking
<1>7. Cardinality(rest) = least - 1 /\ Cardinality(rest) \in Nat
  BY <1>1, <1>4, <1>6, FS_RemoveElement
<1>8. Fine(rest)
  BY <1>3, <1>6, <1>7
<1> HIDE DEF rest, bad
<1>9. Sum(t) = c + (least - 1) * c
  BY <1>6, <1>7, <1>8
<1> HIDE DEF Sum
<1> DEFINE n == Cardinality(rest)
<1>10. n \in Nat /\ least = n + 1
  BY <1>3, <1>7 DEF bad
<1> HIDE DEF n
<1>11. c + n * c = (n + 1) * c
  BY <1>10
<1> QED BY <1>4, <1>6, <1>7, <1>8, <1>10, <1>11 DEF n

\* ... and of multiples, ...
LEMMA SumOfMultiples ==
    ASSUME NEW fun, NEW other, NEW S, IsFiniteSet(S), NEW k \in Nat,
           \A x \in S : other[x] \in Nat /\ fun[x] = k * other[x]
    PROVE  SumFunctionOnSet(fun, S) = k * SumFunctionOnSet(other, S)
<1> DEFINE Sum(t) == SumFunctionOnSet(fun, t)
           Base(t) == SumFunctionOnSet(other, t)
           Fine(t) == Sum(t) = k * Base(t)
           bad == {n \in Nat : \E t \in SUBSET S : Cardinality(t) = n /\ ~Fine(t)}
<1>1. \A t \in SUBSET S : IsFiniteSet(t) /\ Cardinality(t) \in Nat
  BY FS_Subset, FS_CardinalityType
<1>2. SUFFICES ASSUME bad # {} PROVE FALSE
  <2> HIDE DEF Fine
  <2>1. Fine(S)
    BY <1>1, <1>2
  <2> QED BY <2>1 DEF Fine
<1>3. PICK least \in bad : \A n \in bad : least <= n
  BY <1>2, NatMinimum
<1>4. PICK t \in SUBSET S : Cardinality(t) = least /\ ~Fine(t)
  BY <1>3
<1>5. t # {}
  BY <1>4, SumEmpty
<1> DEFINE first == Picked(t)
           rest == t \ {first}
<1>6. /\ first \in t /\ rest \in SUBSET S
      /\ Sum(t) = fun[first] + Sum(rest) /\ Base(t) = other[first] + Base(rest)
  BY <1>1, <1>5, SumPicked, Picking
<1>7. Cardinality(rest) = least - 1 /\ Cardinality(rest) \in Nat
  BY <1>1, <1>4, <1>6, FS_RemoveElement
<1>8. Fine(rest)
  BY <1>3, <1>6, <1>7
<1>9. Base(rest) \in Nat
  BY <1>1, <1>6, SumIsNat
<1>10. other[first] \in Nat /\ fun[first] = k * other[first]
  BY <1>4, <1>6
<1> HIDE DEF Sum, Base, first, rest
<1>11. k * other[first] + k * Base(rest) = k * (other[first] + Base(rest))
  BY <1>9, <1>10
<1> QED BY <1>4, <1>6, <1>8, <1>10, <1>11

LEMMA PositiveSum ==
    ASSUME NEW fun, NEW S, IsFiniteSet(S), \A y \in S : fun[y] \in Nat,
           NEW x \in S, fun[x] # 0
    PROVE  SumFunctionOnSet(fun, S) > 0
<1>1. SumFunctionOnSet(fun, S) = fun[x] + SumFunctionOnSet(fun, S \ {x})
  BY SumTake
<1>2. IsFiniteSet(S \ {x})
  BY FS_Subset
<1>3. SumFunctionOnSet(fun, S \ {x}) \in Nat
  BY <1>2, SumIsNat
<1> QED BY <1>1, <1>3

LEMMA SquareIs == \A n \in Int : Square(n) \in Nat /\ (Square(n) = 0 <=> n = 0)
  BY DEF Square

\* What is observed and what is expected, in sums over the answers that count.
IsScale(s, n) == n \in Nat /\ DOMAIN s = 1..n /\ \A i \in 1..n : s[i] \in Int

GapsOf(human, judge, n) == [i \in 1..n |-> Square(human[i] - judge[i])]
RowOf(human, judge, n, i) == [k \in 1..n |-> Square(human[i] - judge[k])]
RowSums(human, judge, n) == [i \in 1..n |-> SumFunctionOnSet(RowOf(human, judge, n, i), 1..n)]
LeaningsOf(human, judge, n) == [i \in 1..n |-> judge[i] - human[i]]

LEMMA SumsOver ==
    ASSUME NEW human, NEW judge, NEW n, IsScale(human, n), IsScale(judge, n)
    PROVE  /\ Observed(human, judge) = SumFunctionOnSet(GapsOf(human, judge, n), 1..n)
           /\ Expected(human, judge) = SumFunctionOnSet(RowSums(human, judge, n), 1..n)
           /\ Bias(human, judge) = SumFunctionOnSet(LeaningsOf(human, judge, n), 1..n)
<1>1. DOMAIN human = 1..n /\ DOMAIN judge = 1..n
  BY DEF IsScale
<1>2. \A f : DOMAIN f = 1..n => SumFunction(f) = SumFunctionOnSet(f, 1..n)
  BY DEF SumFunction
<1>3. Observed(human, judge) = SumFunction(GapsOf(human, judge, n))
  BY <1>1 DEF Observed, GapsOf
<1>4. Bias(human, judge) = SumFunction(LeaningsOf(human, judge, n))
  BY <1>1 DEF Bias, LeaningsOf
<1>5. Expected(human, judge) = SumFunction([i \in 1..n |-> SumFunction(RowOf(human, judge, n, i))])
  BY <1>1 DEF Expected, RowOf
<1>6. \A i : SumFunction(RowOf(human, judge, n, i)) = SumFunctionOnSet(RowOf(human, judge, n, i), 1..n)
  BY <1>2 DEF RowOf
<1>7. [i \in 1..n |-> SumFunction(RowOf(human, judge, n, i))] = RowSums(human, judge, n)
  BY <1>6, Zenon DEF RowSums
<1>8. /\ DOMAIN GapsOf(human, judge, n) = 1..n /\ DOMAIN LeaningsOf(human, judge, n) = 1..n
      /\ DOMAIN RowSums(human, judge, n) = 1..n
  BY DEF GapsOf, LeaningsOf, RowSums
<1> QED BY <1>2, <1>3, <1>4, <1>5, <1>7, <1>8

LEMMA Interval == ASSUME NEW n \in Nat PROVE IsFiniteSet(1..n) /\ Cardinality(1..n) = n
  BY FS_Interval

\* A judge whose scores are all the same disagrees as much as chance does.
LEMMA StuckIsUntrusted ==
    ASSUME NEW human, NEW judge, NEW n, IsScale(human, n), IsScale(judge, n),
           Len(human) = n, \E c \in Int : \A i \in 1..n : judge[i] = c
    PROVE  ~Trusted(human, judge)
<1>1. n \in Nat /\ IsFiniteSet(1..n) /\ Cardinality(1..n) = n
  BY Interval DEF IsScale
<1>0. PICK c \in Int : \A i \in 1..n : judge[i] = c
  OBVIOUS
<1> DEFINE one == GapsOf(human, judge, n)
           row(i) == RowOf(human, judge, n, i)
           rows == RowSums(human, judge, n)
           observed == SumFunctionOnSet(one, 1..n)
           expected == SumFunctionOnSet(rows, 1..n)
<1>2. ASSUME NEW i \in 1..n
      PROVE  one[i] \in Nat /\ rows[i] = n * one[i]
  <2>1. human[i] - c \in Int /\ one[i] = Square(human[i] - c)
    BY <1>0 DEF IsScale, GapsOf
  <2>2. one[i] \in Nat
    BY <2>1, SquareIs
  <2>3. \A k \in 1..n : row(i)[k] = one[i]
    BY <1>0, <2>1 DEF RowOf
  <2>4. SumFunctionOnSet(row(i), 1..n) = Cardinality(1..n) * one[i]
    <3> DEFINE r == row(i)
               v == one[i]
               I == 1..n
    <3>1. v \in Nat /\ IsFiniteSet(I) /\ \A k \in I : r[k] = v
      BY <1>1, <2>2, <2>3
    <3> HIDE DEF r, v, I
    <3>2. SumFunctionOnSet(r, I) = Cardinality(I) * v
      BY <3>1, SumOfSame
    <3> QED BY <3>2 DEF r, v, I
  <2> QED BY <1>1, <2>2, <2>4 DEF RowSums
<1>3. Observed(human, judge) = observed /\ Expected(human, judge) = expected
  BY SumsOver
<1> HIDE DEF one, rows
<1>4. expected = n * observed
  BY <1>1, <1>2, SumOfMultiples
<1>5. observed \in Nat
  BY <1>1, <1>2, SumIsNat
<1> HIDE DEF observed, expected
<1>6. n * observed \in Nat /\ 5 * n * observed = 5 * (n * observed)
  BY <1>1, <1>5
<1> DEFINE product == n * observed
<1> HIDE DEF product
<1>7. product # 0 => ~(5 * product <= 2 * product)
  BY <1>6 DEF product
<1> QED BY <1>3, <1>4, <1>6, <1>7 DEF Trusted, KappaHigh, KappaDefined, product

\* A judge who scores like people is trusted as soon as two scores differ.
LEMMA SameIsTrusted ==
    ASSUME NEW human, NEW n, IsScale(human, n), Len(human) = n
    PROVE  Trusted(human, human) <=> \E i, j \in 1..n : human[i] # human[j]
<1>1. n \in Nat /\ IsFiniteSet(1..n) /\ \A i \in 1..n : human[i] \in Int
  BY Interval DEF IsScale
<1> DEFINE one == GapsOf(human, human, n)
           lean == LeaningsOf(human, human, n)
           row(i) == RowOf(human, human, n, i)
           rows == RowSums(human, human, n)
           expected == SumFunctionOnSet(rows, 1..n)
<1>2. /\ Observed(human, human) = SumFunctionOnSet(one, 1..n)
      /\ Bias(human, human) = SumFunctionOnSet(lean, 1..n)
      /\ Expected(human, human) = expected
  BY SumsOver
<1>3. \A i \in 1..n : one[i] = 0 /\ lean[i] = 0
  <2> SUFFICES ASSUME NEW i \in 1..n PROVE one[i] = 0 /\ lean[i] = 0
    OBVIOUS
  <2>1. human[i] - human[i] = 0
    BY <1>1
  <2>2. one[i] = Square(0) /\ lean[i] = 0
    BY <2>1 DEF GapsOf, LeaningsOf
  <2> QED BY <2>2 DEF Square
<1>4. Observed(human, human) = 0 /\ Bias(human, human) = 0
  <2> HIDE DEF one, lean
  <2> QED BY <1>1, <1>2, <1>3, SumOfZeros
<1>5. \A i, k \in 1..n : row(i)[k] \in Nat /\ (row(i)[k] = 0 <=> human[i] = human[k])
  <2> SUFFICES ASSUME NEW i \in 1..n, NEW k \in 1..n
               PROVE  row(i)[k] \in Nat /\ (row(i)[k] = 0 <=> human[i] = human[k])
    OBVIOUS
  <2>1. row(i)[k] = Square(human[i] - human[k])
    BY DEF RowOf
  <2>2. human[i] - human[k] \in Int /\ (human[i] - human[k] = 0 <=> human[i] = human[k])
    BY <1>1
  <2> QED BY <2>1, <2>2, SquareIs
<1>6. \A i \in 1..n : rows[i] = SumFunctionOnSet(row(i), 1..n)
  BY DEF RowSums
<1> HIDE DEF row, rows
<1>7. \A i \in 1..n : rows[i] \in Nat
  BY <1>1, <1>5, <1>6, SumIsNat
<1>8. expected \in Nat
  BY <1>1, <1>7, SumIsNat
<1>9. CASE \E i, j \in 1..n : human[i] # human[j]
  <2>1. PICK i \in 1..n, j \in 1..n : human[i] # human[j]
    BY <1>9
  <2> DEFINE I == 1..n
             r == row(i)
  <2>2. /\ IsFiniteSet(I) /\ i \in I /\ j \in I
        /\ \A k \in I : rows[k] \in Nat /\ r[k] \in Nat
        /\ r[j] # 0 /\ rows[i] = SumFunctionOnSet(r, I) /\ expected = SumFunctionOnSet(rows, I)
    BY <1>1, <1>5, <1>6, <1>7, <2>1
  <2> HIDE DEF I, r, expected
  <2>3. SumFunctionOnSet(r, I) > 0
    BY <2>2, PositiveSum
  <2>4. expected > 0
    <3>1. rows[i] # 0 /\ \A k \in I : rows[k] \in Nat
      BY <2>2, <2>3
    <3>2. SumFunctionOnSet(rows, I) > 0
      BY <2>2, <3>1, PositiveSum
    <3> QED BY <2>2, <3>2
  <2>5. n > 0
    BY <1>1
  <2>6. 5 * n * 0 <= 2 * expected /\ 2 * Magnitude(0) < n
    BY <1>1, <1>8, <2>4, <2>5 DEF Magnitude
  <2> QED BY <1>2, <1>4, <1>9, <2>4, <2>6 DEF Trusted, KappaHigh, KappaDefined
<1>10. CASE ~ \E i, j \in 1..n : human[i] # human[j]
  <2>1. \A i \in 1..n : rows[i] = 0
    BY <1>1, <1>5, <1>6, <1>10, SumOfZeros
  <2>2. expected = 0
    BY <1>1, <2>1, SumOfZeros
  <2> QED BY <1>2, <1>10, <2>2 DEF Trusted, KappaHigh, KappaDefined
<1> QED BY <1>9, <1>10

\* What the judge says of one answer.
Counts(t) == t.answer /\ t.outputs # {}

LEMMA ScoreIs ==
    ASSUME NEW t
    PROVE  /\ \A mood \in {"down", "broken"} : ~Faithfulness(mood, t).scored
           /\ \A mood \in {"stuck", "fair", "flaky"} : Faithfulness(mood, t).scored <=> Counts(t)
           /\ Counts(t) => /\ Faithfulness("stuck", t).score = 3
                           /\ Faithfulness("fair", t).score = t.worth
                           /\ Faithfulness("flaky", t).score = t.worth
<1>1. RunJudge(Opinion("down", t)) = Transient
  BY ThriceTaken DEF Opinion
<1>2. RunJudge(Opinion("broken", t)) = Broken
  BY AttemptTaken DEF Opinion, Broken, IsTransient
<1>3. RunJudge(Opinion("stuck", t)) = Said(3, "tie")
  BY ThriceTaken DEF Opinion
<1>4. RunJudge(Opinion("fair", t)) = Said(t.worth, "tie")
  BY ThriceTaken DEF Opinion
<1>5. RunJudge(Opinion("flaky", t)) = Said(t.worth, "tie")
  BY ThirdTaken DEF Opinion
<1>6. \A mood : Faithfulness(mood, t) = IF Counts(t) THEN Scored(RunJudge(Opinion(mood, t))) ELSE NoScore
  BY DEF Faithfulness, Counts
<1>7. Scored(Transient) = NoScore /\ Scored(Broken) = NoScore
  BY DEF Scored, Transient, Broken
<1>8. \A x : Scored(Said(x, "tie")) = Score(x)
  BY DEF Scored, Said
<1>9. ~NoScore.scored /\ \A x : Score(x).scored /\ Score(x).score = x
  BY DEF NoScore, Score
<1> QED BY <1>1, <1>2, <1>3, <1>4, <1>5, <1>6, <1>7, <1>8, <1>9

\* The runs that are scored, in their order.
ScoredOf(mood, labelled) ==
    Picks(labelled, {i \in DOMAIN labelled : Faithfulness(mood, labelled[i]).scored})

LEMMA CalibrationIs ==
    ASSUME NEW mood, NEW labelled
    PROVE  LET scored == ScoredOf(mood, labelled)
           IN  Calibration(mood, labelled).trusted =
                 Trusted([i \in DOMAIN scored |-> scored[i].worth],
                         [i \in DOMAIN scored |-> Faithfulness(mood, scored[i]).score])
  BY DEF Calibration, ScoredOf

LEMMA ScoredAre ==
    ASSUME NEW mood, NEW labelled, IsList(labelled)
    PROVE  LET scored == ScoredOf(mood, labelled)
           IN  /\ Len(scored) \in Nat /\ DOMAIN scored = 1..Len(scored)
               /\ \A k \in 1..Len(scored) :
                    scored[k] \in ToSet(labelled) /\ Faithfulness(mood, scored[k]).scored
               /\ \A t \in ToSet(labelled) :
                    Faithfulness(mood, t).scored => \E k \in 1..Len(scored) : scored[k] = t
<1> DEFINE P == {i \in DOMAIN labelled : Faithfulness(mood, labelled[i]).scored}
           scored == ScoredOf(mood, labelled)
<1>1. DOMAIN labelled = 1..Len(labelled) /\ ToSet(labelled) = {labelled[i] : i \in 1..Len(labelled)}
  BY ListIs
<1>2. P \subseteq 1..Len(labelled) /\ scored = Picks(labelled, P)
  BY <1>1 DEF ScoredOf
<1>3. \A i \in P : labelled[i] \in ToSet(labelled) /\ Faithfulness(mood, labelled[i]).scored
  BY <1>1
<1>4. \A t \in ToSet(labelled) : Faithfulness(mood, t).scored => \E i \in P : labelled[i] = t
  BY <1>1
<1> HIDE DEF P, scored
<1>5. PicksFrom(scored, labelled, P, Ascending(P))
  BY <1>2, PicksAre
<1>6. IsList(scored) /\ \A k \in 1..Len(scored) : \E i \in P : scored[k] = labelled[i]
  BY <1>5 DEF PicksFrom
<1>7. ASSUME NEW i \in P PROVE \E k \in 1..Len(scored) : scored[k] = labelled[i]
  <2>1. PICK k \in 1..Len(scored) : Ascending(P)[k] = i
    BY <1>5 DEF PicksFrom
  <2> QED BY <1>5, <2>1 DEF PicksFrom
<1>8. Len(scored) \in Nat /\ DOMAIN scored = 1..Len(scored)
  BY <1>6, ListIs
<1>9. \A k \in 1..Len(scored) :
         scored[k] \in ToSet(labelled) /\ Faithfulness(mood, scored[k]).scored
  BY <1>3, <1>6
<1>10. \A t \in ToSet(labelled) :
          Faithfulness(mood, t).scored => \E k \in 1..Len(scored) : scored[k] = t
  BY <1>4, <1>7
<1> QED BY <1>8, <1>9, <1>10 DEF scored

\* The scores of people and judge over the runs that are scored.
AreScores(human, judge, scored, n, mood, labelled) ==
    /\ IsScale(human, n) /\ Len(human) = n
    /\ judge = [k \in 1..n |-> judge[k]] /\ human = [k \in 1..n |-> human[k]]
    /\ \A k \in 1..n :
         /\ scored[k] \in ToSet(labelled) /\ Faithfulness(mood, scored[k]).scored
         /\ human[k] = scored[k].worth
         /\ judge[k] = Faithfulness(mood, scored[k]).score
    /\ \A t \in ToSet(labelled) :
         Faithfulness(mood, t).scored => \E k \in 1..n : scored[k] = t

LEMMA ScoresAre ==
    ASSUME NEW mood, NEW labelled, IsList(labelled), \A t \in ToSet(labelled) : t.worth \in Int
    PROVE  \E human, judge, scored, n :
             /\ Calibration(mood, labelled).trusted = Trusted(human, judge)
             /\ AreScores(human, judge, scored, n, mood, labelled)
<1> DEFINE scored == ScoredOf(mood, labelled)
           n == Len(scored)
           human == [i \in DOMAIN scored |-> scored[i].worth]
           judge == [i \in DOMAIN scored |-> Faithfulness(mood, scored[i]).score]
<1>1. Calibration(mood, labelled).trusted = Trusted(human, judge)
  BY CalibrationIs
<1>2. /\ n \in Nat /\ DOMAIN scored = 1..n
      /\ \A k \in 1..n : scored[k] \in ToSet(labelled) /\ Faithfulness(mood, scored[k]).scored
      /\ \A t \in ToSet(labelled) :
           Faithfulness(mood, t).scored => \E k \in 1..n : scored[k] = t
  BY ScoredAre
<1> HIDE DEF scored
<1>3. /\ human = [k \in 1..n |-> human[k]] /\ judge = [k \in 1..n |-> judge[k]]
      /\ \A k \in 1..n : /\ human[k] = scored[k].worth
                         /\ judge[k] = Faithfulness(mood, scored[k]).score
                         /\ human[k] \in Int
  BY <1>2
<1> HIDE DEF human, judge, n
<1>4. Len(human) = n /\ DOMAIN human = 1..n
  BY <1>2, <1>3, ListMade
<1>5. IsScale(human, n)
  BY <1>2, <1>3, <1>4 DEF IsScale
<1>6. AreScores(human, judge, scored, n, mood, labelled)
  BY <1>2, <1>3, <1>4, <1>5 DEF AreScores
<1> QED BY <1>1, <1>6

LEMMA TrustIsJudged == TrustIsEarned
<1> SUFFICES ASSUME NEW labelled \in Labellings
             PROVE  LET judged == {t \in ToSet(labelled) : t.answer /\ t.outputs # {}}
                        differ == \E s \in judged, t \in judged : s.worth # t.worth
                    IN  /\ \A mood \in {"stuck", "down", "broken"} :
                             ~Calibration(mood, labelled).trusted
                        /\ \A mood \in {"fair", "flaky"} :
                             Calibration(mood, labelled).trusted = differ
  BY DEF TrustIsEarned
<1> DEFINE judged == {t \in ToSet(labelled) : t.answer /\ t.outputs # {}}
           differ == \E s \in judged, t \in judged : s.worth # t.worth
<1>1. IsList(labelled) /\ \A t \in ToSet(labelled) : t.worth \in Int
  BY TrialsAssumption DEF IsRun
<1>2. ASSUME NEW mood \in {"stuck", "down", "broken"}
      PROVE  ~Calibration(mood, labelled).trusted
  <2>1. PICK human, judge, scored, n :
               /\ Calibration(mood, labelled).trusted = Trusted(human, judge)
               /\ AreScores(human, judge, scored, n, mood, labelled)
    BY <1>1, ScoresAre
  <2>2. \A k \in 1..n : judge[k] = 3
    <3>1. \A k \in 1..n : Faithfulness(mood, scored[k]).scored
                           /\ judge[k] = Faithfulness(mood, scored[k]).score
      BY <2>1 DEF AreScores
    <3>2. CASE mood \in {"down", "broken"}
      BY <3>1, <3>2, ScoreIs
    <3>3. CASE mood = "stuck"
      BY <3>1, <3>3, ScoreIs
    <3> QED BY <3>2, <3>3
  <2>3. IsScale(human, n) /\ Len(human) = n /\ judge = [k \in 1..n |-> judge[k]]
    BY <2>1 DEF AreScores
  <2>4. IsScale(judge, n)
    BY <2>2, <2>3 DEF IsScale
  <2>5. ~Trusted(human, judge)
    <3>1. \E c \in Int : \A k \in 1..n : judge[k] = c
      BY <2>2
    <3> QED BY <2>3, <2>4, <3>1, StuckIsUntrusted
  <2> QED BY <2>1, <2>5
<1>3. ASSUME NEW mood \in {"fair", "flaky"}
      PROVE  Calibration(mood, labelled).trusted = differ
  <2>1. PICK human, judge, scored, n :
               /\ Calibration(mood, labelled).trusted = Trusted(human, judge)
               /\ AreScores(human, judge, scored, n, mood, labelled)
    BY <1>1, ScoresAre
  <2>2. \A k \in 1..n : scored[k] \in judged /\ human[k] = scored[k].worth /\ judge[k] = human[k]
    <3>1. \A t : /\ Faithfulness(mood, t).scored <=> Counts(t)
                 /\ Counts(t) => Faithfulness(mood, t).score = t.worth
      BY ScoreIs
    <3>2. \A k \in 1..n : /\ scored[k] \in ToSet(labelled) /\ Counts(scored[k])
                           /\ human[k] = scored[k].worth /\ judge[k] = scored[k].worth
      BY <2>1, <3>1 DEF AreScores
    <3> QED BY <3>2 DEF Counts
  <2>3. \A t \in judged : \E k \in 1..n : scored[k] = t
    BY <2>1, ScoreIs DEF AreScores, Counts
  <2>4. /\ IsScale(human, n) /\ Len(human) = n
        /\ human = [k \in 1..n |-> human[k]] /\ judge = [k \in 1..n |-> judge[k]]
    BY <2>1 DEF AreScores
  <2>5. judge = human
    BY <2>2, <2>4
  <2>6. Trusted(human, judge) <=> \E i, j \in 1..n : human[i] # human[j]
    BY <2>4, <2>5, SameIsTrusted
  <2> HIDE DEF judged
  <2>7. (\E i, j \in 1..n : human[i] # human[j]) <=> differ
    BY <2>2, <2>3
  <2>8. Trusted(human, judge) \in BOOLEAN
    BY DEF Trusted
  <2> HIDE DEF differ
  <2>9. Trusted(human, judge) = differ
    BY <2>6, <2>7, <2>8 DEF differ
  <2> QED BY <2>1, <2>9
<1> QED BY <1>2, <1>3

-----------------------------------------------------------------------------
(* Checks of a decision: its searches are the calls of two tools.            *)

IsSearch(call) == call.tool \in {"search", "near"}

LEMMA SearchesAre ==
    ASSUME NEW calls, IsList(calls)
    PROVE  /\ IsList(Searches(calls))
           /\ ToSet(Searches(calls)) = {x \in ToSet(calls) : IsSearch(x)}
           /\ Searches(calls) # <<>> => Head(Searches(calls)) \in ToSet(Searches(calls))
           /\ Searches(calls) = <<>> => ToSet(Searches(calls)) = {}
<1> DEFINE P == {i \in DOMAIN calls : IsSearch(calls[i])}
           made == Searches(calls)
<1>1. DOMAIN calls = 1..Len(calls) /\ ToSet(calls) = {calls[i] : i \in 1..Len(calls)}
  BY ListIs
<1>2. made = Picks(calls, P) /\ P \subseteq 1..Len(calls)
  BY <1>1 DEF Searches, IsSearch
<1>3. {x \in ToSet(calls) : IsSearch(x)} = {calls[i] : i \in P}
  BY <1>1
<1> HIDE DEF P, made
<1>4. PicksFrom(made, calls, P, Ascending(P))
  BY <1>2, PicksAre
<1>5. IsList(made) /\ \A k \in 1..Len(made) : \E i \in P : made[k] = calls[i]
  BY <1>4 DEF PicksFrom
<1>6. ASSUME NEW i \in P PROVE \E k \in 1..Len(made) : made[k] = calls[i]
  <2>1. PICK k \in 1..Len(made) : Ascending(P)[k] = i
    BY <1>4 DEF PicksFrom
  <2> QED BY <1>4, <2>1 DEF PicksFrom
<1>7. ToSet(made) = {made[k] : k \in 1..Len(made)} /\ Len(made) \in Nat
  BY <1>5, ListIs
<1>8. ToSet(made) = {calls[i] : i \in P}
  BY <1>5, <1>6, <1>7
<1>9. made \in Seq(ToSet(made))
  BY <1>5 DEF IsList
<1> DEFINE T == ToSet(made)
<1> HIDE DEF T
<1>10. made # <<>> => Head(made) \in T
  BY <1>9 DEF T
<1>11. made = <<>> => ToSet(made) = {}
  BY DEF ToSet
<1> QED BY <1>3, <1>5, <1>8, <1>10, <1>11 DEF made, T

\* What a decision that passes has searched for.
Searched(c, made, case) ==
    /\ \E x \in made : x.on \in case.places
    /\ \A w \in case.wishes : \E x \in made : w \in x.right
    /\ c \in {"activities", "transportation", "readiness"} =>
         case.places \subseteq {x.on : x \in made}
    /\ c \in {"hotels", "restaurants", "transportation"} =>
         \A x \in made : x.on \in case.places

LEMMA NoneFails == \A check, ok : Fails(check, ok) = {} <=> ok
  BY DEF Fails

LEMMA FlightsPass ==
    ASSUME NEW t, IsList(t.calls), NEW case, FlightsFailed(t, case) = {}
    PROVE  Searched("flights", ToSet(Searches(t.calls)), case)
<1> DEFINE calls == Searches(t.calls)
           made == ToSet(calls)
           first == IF calls = <<>> THEN {} ELSE {Head(calls)}
<1>1. /\ Fails("called", first # {}) = {}
      /\ Fails("place", first # {} /\ \A x \in first : x.on \in case.places) = {}
      /\ {w \in case.wishes : \A x \in first : w \notin x.right} = {}
  BY DEF FlightsFailed
<1>2. first # {} /\ \A x \in first : x.on \in case.places
  BY <1>1, NoneFails
<1>3. first \subseteq made
  BY SearchesAre
<1> HIDE DEF first, made
<1>4. \E x \in made : x.on \in case.places
  BY <1>2, <1>3
<1>5. \A w \in case.wishes : \E x \in made : w \in x.right
  BY <1>1, <1>3
<1> QED BY <1>4, <1>5 DEF Searched, made

LEMMA HotelsPass ==
    ASSUME NEW t, NEW case, HotelsFailed(t, case) = {}
    PROVE  Searched("hotels", ToSet(Searches(t.calls)), case)
<1> DEFINE made == ToSet(Searches(t.calls))
<1>1. /\ Fails("place", made # {} /\ \A x \in made : x.on \in case.places) = {}
      /\ {w \in case.wishes : made = {} \/ \E x \in made : w \notin x.right} = {}
  BY DEF HotelsFailed
<1> HIDE DEF made
<1>2. made # {} /\ \A x \in made : x.on \in case.places
  BY <1>1, NoneFails
<1> QED BY <1>1, <1>2 DEF Searched, made

LEMMA ActivitiesPass ==
    ASSUME NEW t, NEW case, case.places # {}, ActivitiesFailed(t, case) = {}
    PROVE  Searched("activities", ToSet(Searches(t.calls)), case)
<1> DEFINE made == ToSet(Searches(t.calls))
<1>1. /\ Fails("place", case.places \subseteq {x.on : x \in made}) = {}
      /\ Forgotten(case.wishes, made) = {}
  BY DEF ActivitiesFailed
<1> HIDE DEF made
<1>2. case.places \subseteq {x.on : x \in made}
  BY <1>1, NoneFails
<1>3. \A w \in case.wishes : \E x \in made : w \in x.right
  BY <1>1 DEF Forgotten
<1> QED BY <1>2, <1>3 DEF Searched, made

LEMMA RestaurantsPass ==
    ASSUME NEW t, IsList(t.calls), NEW case, RestaurantsFailed(t, case) = {}
    PROVE  Searched("restaurants", ToSet(Searches(t.calls)), case)
<1> DEFINE calls == Searches(t.calls)
           made == ToSet(calls)
<1>1. /\ Fails("place", calls # <<>> /\ \A x \in made : x.on \in case.places) = {}
      /\ Forgotten(case.wishes, made) = {}
  BY DEF RestaurantsFailed
<1>2. calls # <<>> /\ \A x \in made : x.on \in case.places
  BY <1>1, NoneFails
<1>3. Head(calls) \in made
  BY <1>2, SearchesAre
<1> HIDE DEF made
<1>4. \A w \in case.wishes : \E x \in made : w \in x.right
  BY <1>1 DEF Forgotten
<1> QED BY <1>2, <1>3, <1>4 DEF Searched, made

LEMMA TransportationPass ==
    ASSUME NEW t, NEW case, case.places # {}, TransportationFailed(t, case) = {}
    PROVE  Searched("transportation", ToSet(Searches(t.calls)), case)
<1> DEFINE made == ToSet(Searches(t.calls))
           of(p) == {x \in made : x.on = p}
<1>1. /\ Fails("place", \A p \in case.places : of(p) # {}) = {}
      /\ Fails("unrequested", made # {} /\ \A x \in made : x.on \in case.places /\ ~x.extra) = {}
      /\ {w \in case.wishes :
            \E p \in case.places : of(p) = {} \/ \E x \in of(p) : w \notin x.right} = {}
  BY DEF TransportationFailed
<1> HIDE DEF made
<1>2. \A p \in case.places : of(p) # {}
  BY <1>1, NoneFails
<1>3. made # {} /\ \A x \in made : x.on \in case.places
  BY <1>1, NoneFails
<1>4. \A w \in case.wishes : \E x \in made : w \in x.right
  BY <1>1, <1>2
<1> QED BY <1>2, <1>3, <1>4 DEF Searched, made

LEMMA ReadinessPass ==
    ASSUME NEW t, NEW case, case.places # {}, ReadinessFailed(t, case) = {}
    PROVE  Searched("readiness", ToSet(Searches(t.calls)), case)
<1> DEFINE made == ToSet(Searches(t.calls))
<1>1. /\ Fails("place", case.places \subseteq {x.on : x \in made}) = {}
      /\ {w \in case.wishes : \A x \in made : w \notin x.right} = {}
  BY DEF ReadinessFailed
<1> HIDE DEF made
<1>2. case.places \subseteq {x.on : x \in made}
  BY <1>1, NoneFails
<1> QED BY <1>1, <1>2 DEF Searched, made

\* What is kept of a run has its searches, or none.
LEMMA NoSearch == IsList(<<>>) /\ ToSet(Searches(<<>>)) = {}
<1>1. IsList(<<>>) /\ ToSet(<<>>) = {}
  BY DEF IsList, ToSet
<1> QED BY <1>1, SearchesAre

LEMMA KeptSearches ==
    ASSUME NEW c, NEW run, IsRun(run)
    PROVE  LET t == KeptOf(c, run)
           IN  /\ IsList(t.calls)
               /\ ToSet(Searches(t.calls)) \in {{}, ToSet(Searches(run.calls))}
<1> DEFINE t == KeptOf(c, run)
<1>1. IsList(run.calls)
  BY DEF IsRun, IsList
<1>2. CASE run.error # "none"
  <2>1. t.calls = <<>>
    BY <1>2 DEF KeptOf, Kept, KeptReadiness, Nothing
  <2> QED BY <2>1, NoSearch
<1>3. CASE run.error = "none" /\ c # "readiness"
  <2>1. t = run
    BY <1>3 DEF KeptOf, Kept
  <2> QED BY <1>1, <2>1
<1>4. CASE run.error = "none" /\ c = "readiness"
  <2> DEFINE plan == [tool |-> "plan", on |-> "none", right |-> {}, legal |-> TRUE, extra |-> FALSE]
             made == Searches(run.calls)
             calls == <<plan>> \o made
  <2>1. t.calls = calls
    <3>1. \A x, y : [run EXCEPT !.calls = x, !.outputs = y].calls = x
      BY DEF IsRun
    <3> QED BY <1>4, <3>1 DEF KeptOf, KeptReadiness
  <2>2. IsList(made) /\ ToSet(made) = {x \in ToSet(run.calls) : IsSearch(x)}
    BY <1>1, SearchesAre
  <2>3. ~IsSearch(plan)
    BY DEF IsSearch
  <2> HIDE DEF plan, made
  <2>4. made \in Seq(ToSet(made))
    BY <2>2 DEF IsList
  <2> DEFINE T == ToSet(made)
             All == {plan} \cup T
  <2>5. calls \in Seq(All) /\ Len(calls) = Len(made) + 1 /\ Len(made) \in Nat
        /\ calls[1] = plan /\ \A k \in 1..Len(made) : calls[k + 1] = made[k]
    <3> HIDE DEF T
    <3>1. made \in Seq(T)
      BY <2>4 DEF T
    <3>2. made \in Seq(All) /\ <<plan>> \in Seq(All) /\ Len(<<plan>>) = 1 /\ <<plan>>[1] = plan
      BY <3>1
    <3> HIDE DEF All
    <3> QED BY <3>2
  <2>6. T = {made[k] : k \in 1..Len(made)}
    BY <2>2, ListIs
  <2> HIDE DEF calls
  <2>7. IsList(calls)
    BY <2>5, ListTyped
  <2>8. ToSet(calls) = {calls[k] : k \in 1..Len(calls)}
    BY <2>7, ListIs
  <2> HIDE DEF T
  <2>9. ToSet(calls) = All
    <3>1. \A k \in 1..Len(calls) : k = 1 \/ \E i \in 1..Len(made) : k = i + 1
      <4>1. \A k \in 1..Len(calls) : k = 1 \/ (k - 1 \in 1..Len(made) /\ k = (k - 1) + 1)
        BY <2>5
      <4> QED BY <4>1
    <3>2. ToSet(calls) \subseteq All
      BY <2>5, <2>6, <2>8, <3>1
    <3>3. \A i \in 1..Len(made) : i + 1 \in 1..Len(calls)
      BY <2>5
    <3>4. 1 \in 1..Len(calls)
      BY <2>5
    <3>5. All \subseteq ToSet(calls)
      BY <2>5, <2>6, <2>8, <3>3, <3>4
    <3> QED BY <3>2, <3>5
  <2>10. ToSet(Searches(calls)) = {x \in All : IsSearch(x)}
    BY <2>7, <2>9, SearchesAre
  <2>11. {x \in All : IsSearch(x)} = T
    BY <2>2, <2>3 DEF T
  <2> QED BY <2>1, <2>7, <2>10, <2>11 DEF T, made
<1> QED BY <1>2, <1>3, <1>4

LEMMA DecisionsAreJudged == DecisionsAreChecked
<1> SUFFICES ASSUME NEW c \in Specialists \ CacheOnly, NEW run \in Decided, NEW case \in Asked,
                    FailedOf(c, KeptOf(c, run), case) = {}
             PROVE  Searched(c, ToSet(Searches(run.calls)), case)
  BY DEF DecisionsAreChecked, Searched
<1> DEFINE t == KeptOf(c, run)
           made == ToSet(Searches(t.calls))
<1>1. IsRun(run) /\ case.places # {}
  BY TrialsAssumption
<1>2. IsList(t.calls) /\ made \in {{}, ToSet(Searches(run.calls))}
  BY <1>1, KeptSearches
<1>3. Searched(c, made, case)
  <2> HIDE DEF t
  <2>1. CASE c = "flights"
    <3>1. FlightsFailed(t, case) = {}
      BY <2>1 DEF FailedOf, t
    <3> QED BY <1>2, <2>1, <3>1, FlightsPass
  <2>2. CASE c = "hotels"
    <3>1. HotelsFailed(t, case) = {}
      BY <2>2 DEF FailedOf, t
    <3> QED BY <2>2, <3>1, HotelsPass
  <2>3. CASE c = "activities"
    <3>1. ActivitiesFailed(t, case) = {}
      BY <2>3 DEF FailedOf, t
    <3> QED BY <1>1, <2>3, <3>1, ActivitiesPass
  <2>4. CASE c = "restaurants"
    <3>1. RestaurantsFailed(t, case) = {}
      BY <2>4 DEF FailedOf, t
    <3> QED BY <1>2, <2>4, <3>1, RestaurantsPass
  <2>5. CASE c = "transportation"
    <3>1. TransportationFailed(t, case) = {}
      BY <2>5 DEF FailedOf, t
    <3> QED BY <1>1, <2>5, <3>1, TransportationPass
  <2>6. CASE c = "readiness"
    <3>1. ReadinessFailed(t, case) = {}
      BY <2>6 DEF FailedOf, t
    <3> QED BY <1>1, <2>6, <3>1, ReadinessPass
  <2> QED BY <2>1, <2>2, <2>3, <2>4, <2>5, <2>6 DEF Specialists, CacheOnly
<1>4. made # {}
  BY <1>3 DEF Searched
<1> QED BY <1>2, <1>3, <1>4

-----------------------------------------------------------------------------
(* The harness *)

HarnessInv == RunInv /\ OfflineInv

LEMMA HarnessInvInit ==
    ASSUME HarnessInit
    PROVE  HarnessInv
  BY RunInit, OfflineInit DEF HarnessInit, HarnessInv

LEMMA HarnessInvNext ==
    ASSUME HarnessInv, [HarnessNext]_harnessVars
    PROVE  HarnessInv'
<1>1. CASE Next /\ UNCHANGED baselineVars
  BY <1>1, RunNext, OfflineNext DEF HarnessInv
<1>2. CASE BaselinesNext /\ UNCHANGED vars
  BY <1>2, RunStutters, OfflineNext DEF HarnessInv
<1>3. CASE UNCHANGED harnessVars
  BY <1>3, RunStutters, OfflineNext DEF HarnessInv, harnessVars
<1> QED BY <1>1, <1>2, <1>3 DEF HarnessNext

LEMMA HarnessInvHolds == HarnessSpec => []HarnessInv
<1>1. HarnessInit => HarnessInv
  BY HarnessInvInit
<1>2. HarnessInv /\ [HarnessNext]_harnessVars => HarnessInv'
  BY HarnessInvNext
<1> QED BY <1>1, <1>2, PTL DEF HarnessSpec

\* What the harness keeps is what it says it is: files of the code they are kept
\* under, scores of the code that was started, reports of the runs and the grader
\* they cite, rows of one run, verified manifests that were gated, and an index of
\* complete ones (baseline_store.py, offline_baselines.py).
THEOREM RecordsAreAlwaysTrue == HarnessSpec => []RecordsAreTrue
<1>1. HarnessInv => RecordsAreTrue
  <2> SUFFICES ASSUME HarnessInv PROVE RecordsAreTrue
    OBVIOUS
  <2>1. RunInv /\ OfflineInv
    BY DEF HarnessInv
  <2>2. TypeOK /\ KeptUnderItsCode /\ ScoresItsOwnCode
    BY <2>1, TypesHold, FilesAreKeptUnderTheirCode, ScoresAreOfItsOwnCode
  <2>3. ReportsScoreWhatTheyCite /\ RowsAreOfOneRun
    BY <2>1, ReportsCiteWhatTheyScore, RowsOfOneRun
  <2>4. VerifiedWasGated /\ IndexIsBacked
    BY <2>1, VerifiedIsEarned DEF OfflineInv
  <2> QED BY <2>2, <2>3, <2>4 DEF RecordsAreTrue
<1> QED BY <1>1, HarnessInvHolds, PTL

\* A process that is told its report is recorded finds its own figures in a
\* complete report (record_baseline_report).
THEOREM RecordedIsAlwaysFound == HarnessSpec => []RecordedIsFound
<1>1. HarnessInv => RecordedIsFound
  BY RecordedAreFound DEF HarnessInv
<1> QED BY <1>1, HarnessInvHolds, PTL

\* A winner is the better run whichever stands first, and neither run failed for
\* an outside cause; a judge is trusted only if he tells answers apart, and is if he
\* scores like people; a decision that passes its checks searched for what the case
\* asks; and a recorded report is found (rubrics.py, l3_pairwise.py, calibration.py,
\* l1_evaluate.py). For any runs, labels, moods of the judge and cases.
THEOREM VerdictsAreAlwaysEarned == HarnessSpec => []VerdictsAreEarned
<1>1. HarnessInv => VerdictsAreEarned
  BY RecordedAreFound, WinnersAreJudged, TrustIsJudged, DecisionsAreJudged
  DEF HarnessInv, VerdictsAreEarned
<1> QED BY <1>1, HarnessInvHolds, PTL

LEMMA HonestSteps ==
    ASSUME HarnessInv, HarnessNext
    PROVE  Preserved /\ ConflictIsReal /\ ManifestsStay
<1>1. RunInv /\ OfflineInv
  BY DEF HarnessInv
<1>2. CASE Next /\ UNCHANGED baselineVars
  <2>1. Preserved /\ ConflictIsReal
    BY <1>1, <1>2, NextPreserves, ConflictsAreReal
  <2>2. ManifestsStay
    BY <1>2 DEF ManifestsStay, baselineVars
  <2> QED BY <2>1, <2>2
<1>3. CASE BaselinesNext /\ UNCHANGED vars
  <2>1. Preserved /\ ConflictIsReal
    BY <1>3 DEF Preserved, ConflictIsReal, vars
  <2>2. ManifestsStay
    BY <1>1, <1>3, NoManifestIsRewritten
  <2> QED BY <2>1, <2>2
<1> QED BY <1>2, <1>3 DEF HarnessNext

\* No step changes a preserved run, a complete report or a complete manifest, and
\* none raises a conflict for repeating what a complete report records
\* (preserve_baseline_run, record_baseline_report, create_offline_baselines).
THEOREM BaselineIsAlwaysHonest == HarnessSpec => BaselineIsHonest
<1>1. HarnessInv /\ [HarnessNext]_harnessVars
        => [Preserved /\ ConflictIsReal /\ ManifestsStay]_harnessVars
  <2> SUFFICES ASSUME HarnessInv, HarnessNext
               PROVE  Preserved /\ ConflictIsReal /\ ManifestsStay
    OBVIOUS
  <2> QED BY HonestSteps
<1> QED BY <1>1, HarnessInvHolds, PTL DEF HarnessSpec, BaselineIsHonest
=============================================================================
