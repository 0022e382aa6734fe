--------------------------- MODULE EvaluationHarness ----------------------------
(***************************************************************************)
(* The evaluation harness (edd): processes that evaluate a component, or   *)
(* processes that create offline baselines. The two share no files, so     *)
(* they are explored one or the other.                                     *)
(***************************************************************************)
EXTENDS EvaluationRun, OfflineBaselines

CONSTANTS
  Contenders,   \* runs that the judge is asked to compare
  Labellings,   \* lists of runs that it is calibrated against
  Decided,      \* runs whose decisions are checked ...
  Asked         \* ... for these cases

\* A run is an error, calls, outputs and an answer; a case names a place.
IsRun(t) ==
    t \in [error : Errors, calls : Seq(ToSet(t.calls)), outputs : SUBSET Outputs,
           owed : BOOLEAN, answer : BOOLEAN, worth : Int]

ASSUME TrialsAssumption ==
    /\ \A t \in Contenders \cup Decided : IsRun(t)
    /\ \A labelled \in Labellings : IsList(labelled) /\ \A t \in ToSet(labelled) : IsRun(t)
    /\ \A case \in Asked : case.places # {}

VARIABLE offline    \* whether it is offline baselines that are made

harnessVars == <<offline, vars, baselineVars>>

HarnessInit ==
    /\ Init
    /\ BaselinesInit
    /\ offline \in BOOLEAN
    /\ offline => component = "flights"

HarnessNext ==
    \/ ~offline /\ Next /\ UNCHANGED <<offline, baselineVars>>
    \/ offline /\ BaselinesNext /\ UNCHANGED <<offline, vars>>

HarnessSpec ==
    /\ HarnessInit /\ [][HarnessNext]_harnessVars
    /\ \A p \in Processes :
         WF_harnessVars(~offline /\ Step(p) /\ UNCHANGED <<offline, baselineVars>>)
    /\ \A p \in Makers :
         WF_harnessVars(offline /\ MakerStep(p) /\ UNCHANGED <<offline, vars>>)

-----------------------------------------------------------------------------
\* What the harness keeps is what it says it is: KeptUnderItsCode,
\* ScoresItsOwnCode, ReportsScoreWhatTheyCite, RowsAreOfOneRun of the runs, and
\* VerifiedWasGated and IndexIsBacked of the offline baselines.
RecordsAreTrue ==
    /\ TypeOK /\ KeptUnderItsCode /\ ScoresItsOwnCode /\ ReportsScoreWhatTheyCite
    /\ RowsAreOfOneRun
    /\ VerifiedWasGated /\ IndexIsBacked

\* A verdict for one of two models does not depend on which slot an answer
\* stood in nor on which model is named first, and is only given between runs
\* of which neither failed for an outside cause, for the better answer
\* (edd/rubrics.py: compare_pairwise; l3_pairwise.py: judge_pairwise).
WinnersAreEarned ==
    \A c \in Specialists, mood \in Moods, s \in Contenders, t \in Contenders :
      LET a == KeptOf(c, s)
          b == KeptOf(c, t)
          verdict == BattleOf(c, mood, a, b)
      IN  /\ verdict.winner = Deswap(BattleOf(c, mood, b, a).winner)
          /\ verdict.winner \in {"A", "B"} =>
               /\ verdict.winner = Better(a, b)
               /\ {OutcomeOf(c, a), OutcomeOf(c, b)} \cap Ineligible = {}

\* A judge that says the same of everything, or nothing, is never trusted; one
\* that says what people say is, as soon as their labels differ
\* (edd/calibration.py: run_calibration).
TrustIsEarned ==
    \A labelled \in Labellings :
      LET judged == {t \in ToSet(labelled) : t.answer /\ t.outputs # {}}
          differ == \E s \in judged, t \in judged : s.worth # t.worth
      IN  /\ \A mood \in {"stuck", "down", "broken"} : ~Calibration(mood, labelled).trusted
          /\ \A mood \in {"fair", "flaky"} : Calibration(mood, labelled).trusted = differ

\* A decision that passes every check looked for a place of the request, for
\* each of them where a request has several, and carried each wish; only
\* flights, activities and readiness let a search elsewhere pass beside it
\* (l1_evaluate.py of each specialist; hotels: a right first call does not hide
\* a later one).
DecisionsAreChecked ==
    \A c \in Specialists \ CacheOnly, run \in Decided, case \in Asked :
      LET made == ToSet(Searches(run.calls)) IN
      FailedOf(c, KeptOf(c, run), case) = {} =>
        /\ \E x \in made : x.on \in case.places
        /\ \A w \in case.wishes : \E x \in made : w \in x.right
        /\ c \in {"activities", "transportation", "readiness"} =>
             case.places \subseteq {x.on : x \in made}
        /\ c \in {"hotels", "restaurants", "transportation"} =>
             \A x \in made : x.on \in case.places

\* What the harness concludes is earned: WinnersAreEarned, TrustIsEarned,
\* DecisionsAreChecked, and RecordedIsFound of the reports.
VerdictsAreEarned ==
    RecordedIsFound /\ WinnersAreEarned /\ TrustIsEarned /\ DecisionsAreChecked

\* Nothing that is preserved changes and no conflict is raised for repeating it
\* (preserve_baseline_run, record_baseline_report, create_offline_baselines).
ManifestsStay ==
    \A n \in Names, i \in DOMAIN Gated :
      manifests[n][i].state = "whole" => manifests'[n][i] = manifests[n][i]

BaselineIsHonest == [][Preserved /\ ConflictIsReal /\ ManifestsStay]_harnessVars

\* Every process and every creation of a baseline ends.
HarnessEnds ==
    /\ EvaluationEnds
    /\ \A p \in Makers : maker[p].pc = "gate" ~> maker[p].pc \in {"failed", "done"}
=============================================================================
