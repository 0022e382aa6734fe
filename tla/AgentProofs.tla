------------------------------ MODULE AgentProofs ------------------------------
(***************************************************************************)
(* Proofs about the agent.  Of the travel graph, for every configuration   *)
(* of a deployment, every set of requests a conversation moves among and   *)
(* any number of messages: stages are gated by the results of the present  *)
(* trip, the handbook is rendered from a current plan, and an edit that    *)
(* was asked for is performed before it is.  Of the specialists it sends   *)
(* out, for any stays, tools, windows and answers: what a stage reports is *)
(* what its calls came to, and the fares it shows are the best it got.     *)
(***************************************************************************)
EXTENDS TravelGraph, Specialists, Sums, FiniteSetTheorems, FunctionTheorems, TLAPS

-----------------------------------------------------------------------------
(* Numbers: what Max chooses. *)

\* A set of naturals with an upper bound has a maximum: its least upper bound.
LEMMA BoundedMaximum ==
    ASSUME NEW S, S \subseteq Nat, S # {}, NEW b \in Nat, \A y \in S : y <= b
    PROVE  Max(S) \in S /\ \A y \in S : y <= Max(S)
<1> DEFINE bounds == {n \in Nat : \A y \in S : y <= n}
           m == Min(bounds)
<1>1. bounds \subseteq Nat /\ b \in bounds
  OBVIOUS
<1>2. m \in bounds /\ \A n \in bounds : m <= n
  BY <1>1, MinIsLeast
<1>3. m \in Nat /\ \A y \in S : y <= m
  BY <1>2
<1>4. m \in S
  <2>1. SUFFICES ASSUME m \notin S PROVE FALSE
    OBVIOUS
  <2>2. PICK x \in S : TRUE
    OBVIOUS
  <2>3. \A y \in S : y \in Nat /\ y < m
    BY <1>3, <2>1
  <2>4. m - 1 \in Nat /\ \A y \in S : y <= m - 1
    BY <1>3, <2>2, <2>3
  <2> QED
    BY <1>2, <1>3, <2>4
<1> HIDE DEF m
<1>5. \E x \in S : \A y \in S : x >= y
  BY <1>3, <1>4
<1>6. Max(S) \in S /\ \A y \in S : Max(S) >= y
  BY <1>5 DEF Max
<1> QED
  BY <1>6

LEMMA FiniteIsBounded ==
    ASSUME NEW S, S \subseteq Nat, IsFiniteSet(S)
    PROVE  \E b \in Nat : \A y \in S : y <= b
<1> DEFINE sizes == {n \in Nat : \E T \in SUBSET Nat :
                        /\ IsFiniteSet(T) /\ Cardinality(T) = n
                        /\ \A b \in Nat : \E y \in T : ~ (y <= b)}
<1>1. SUFFICES ASSUME sizes # {} PROVE FALSE
  BY FS_CardinalityType
<1>2. sizes \subseteq Nat
  OBVIOUS
<1>3. Min(sizes) \in sizes /\ \A n \in sizes : Min(sizes) <= n
  BY <1>1, <1>2, MinIsLeast
<1>4. PICK T \in SUBSET Nat : /\ IsFiniteSet(T) /\ Cardinality(T) = Min(sizes)
                             /\ \A b \in Nat : \E y \in T : ~ (y <= b)
  BY <1>3
<1>5. PICK x \in T : ~ (x <= 0)
  BY <1>4
<1> DEFINE R == T \ {x}
<1>6. IsFiniteSet(R) /\ Cardinality(R) = Min(sizes) - 1 /\ R \in SUBSET Nat
  BY <1>4, <1>5, FS_RemoveElement
<1> HIDE DEF R
<1>7. Cardinality(R) \in Nat /\ Cardinality(R) \notin sizes
  <2>1. Cardinality(R) \in Nat
    BY <1>6, FS_CardinalityType
  <2>2. Min(sizes) \in Nat
    BY <1>3
  <2>3. ~ (Min(sizes) <= Cardinality(R))
    BY <1>6, <2>1, <2>2
  <2> QED
    BY <1>3, <2>1, <2>3
<1>8. PICK b \in Nat : \A y \in R : y <= b
  BY <1>6, <1>7
<1>9. x + b \in Nat /\ \A y \in T : y <= x + b
  BY <1>5, <1>8 DEF R
<1> QED
  BY <1>4, <1>9

LEMMA StaysAreBounded ==
    ASSUME NEW r \in AllRequests
    PROVE  r.trip \in Trips /\ r.stays \in 1..MaxStays
<1> DEFINE S == {q.stays : q \in AllRequests}
<1>1. \A q \in AllRequests : q.stays \in Nat \ {0}
  BY GraphAssumption DEF AllRequests, TripRequest
<1>2. S \subseteq Nat /\ r.stays \in S /\ r.stays > 0
  BY <1>1
<1>3. IsFiniteSet(S)
  <2> DEFINE f == [q \in AllRequests |-> q.stays]
  <2>1. f \in Surjection(AllRequests, S)
    BY DEF Surjection
  <2> QED
    BY <2>1, GraphAssumption, FS_Surjection
<1>4. PICK b \in Nat : \A y \in S : y <= b
  BY <1>2, <1>3, FiniteIsBounded
<1>5. Max(S) \in S /\ \A y \in S : y <= Max(S)
  BY <1>2, <1>4, BoundedMaximum
<1> QED
  BY <1>2, <1>5 DEF MaxStays, Trips

(* Statuses, and the one a gate reports. *)

LEMMA StatusesAre ==
    Statuses = {"absent", "completed", "needs_user_input", "stale", "blocked_external",
                "no_inventory", "failed"}
<1>1. DOMAIN StatusPriority = 1..5
  BY DEF StatusPriority
<1>2. {StatusPriority[i] : i \in 1..5} =
        {StatusPriority[1], StatusPriority[2], StatusPriority[3], StatusPriority[4],
         StatusPriority[5]}
  OBVIOUS
<1> QED
  BY <1>1, <1>2 DEF Statuses, StatusPriority

LEMMA FirstOfIsStatus == ASSUME NEW S PROVE FirstOf(S) \in Statuses
<1> DEFINE found == {i \in DOMAIN StatusPriority : StatusPriority[i] \in S}
<1>1. CASE found = {}
  BY <1>1, StatusesAre DEF FirstOf
<1>2. CASE found # {}
  <2>1. found \subseteq Nat
    BY DEF StatusPriority
  <2>2. Min(found) \in found
    BY <1>2, <2>1, MinIsLeast
  <2>3. FirstOf(S) = StatusPriority[Min(found)]
    BY <1>2 DEF FirstOf
  <2> QED
    BY <2>2, <2>3 DEF Statuses
<1> QED
  BY <1>1, <1>2

-----------------------------------------------------------------------------
(* The inductive invariant. *)

\* Where a run is before its request is understood, while it makes a plan of a
\* selection, and with a plan at hand.
Opening == {"triage", "shallow_reply", "intake", "end"}
Preflighting == {"readiness_preflight", "safety_warning", "readiness"}
Staying == {"hotel_stay", "hotel_fan_in", "hotel_gate"}
Selecting == {"draft_itinerary", "transportation", "itinerary", "human_review",
              "render_handbook"}
Budgeting == {"budget", "budget_review"}
Planned == {"human_review", "render_handbook"}

\* A budget may be computed without a selection, and then no plan is made of it.
InSelection == node \in Selecting \/ (node \in Budgeting /\ "itinerary" \in routing)

\* The results of S, where they are asked for and completed, are of this trip.
Current(S) ==
    \A c \in routing \cap S :
      results[c].status = "completed" => results[c].of.trip = request.trip
Completed(S) ==
    \A c \in routing \cap S :
      results[c].status = "completed" /\ results[c].of.trip = request.trip

Searched == Discoverers \cup {"readiness"}

Shapes ==
    /\ TypeOK
    /\ request \in TripRequest(Conf.targets) \cup {None}
    /\ request # None => request.stays \in 1..MaxStays
    /\ results \in [Components -> [status : Statuses, of : FingerprintOf]]

\* A revision belongs to the request that was understood, and each message has one.
RequestIsKnown ==
    /\ node \notin Opening => request # None
    /\ request # None => revision > 0
    /\ node \in {"triage", "intake"} => revision < turns

\* A readiness report is of the trip that its result is of.
ReportsAreDated ==
    /\ results["readiness_preflight"].status = "completed" => kept.preflight # None
    /\ kept.preflight # None =>
         /\ results["readiness_preflight"].of # None
         /\ kept.preflight.trips = {results["readiness_preflight"].of.trip}
    /\ results["readiness"].status = "completed" =>
         /\ kept.readiness # None /\ results["readiness"].of # None
         /\ kept.readiness.trips = {results["readiness"].of.trip}
    /\ node = "safety_warning" => results["readiness_preflight"].status = "completed"

\* What the stages before a selection have seen to.
StagesAreOrdered ==
    /\ node \in Preflighting => "readiness" \in routing
    /\ node = "discovery" => Completed({"readiness"})
    /\ node = "component_gate" =>
         \/ Current(Searched)
         \/ "readiness" \in routing /\ results["readiness"].status # "completed"
    /\ node \in {"trip_skeleton"} \cup Staying => Completed(Searched)
    /\ node \in Staying => kept.skeleton # None /\ kept.skeleton.trip = request.trip
    /\ node = "hotel_gate" => results["hotels"].of.trip = request.trip

SelectionIsGated ==
    InSelection =>
      /\ kept.skeleton # None /\ kept.skeleton.trip = request.trip
      /\ Completed(Searched \cup {"hotels"})

PlanIsCurrent == node \in Planned => kept.plan = CurrentPlan

\* A change that is asked for is still to be made, or has been made.
EditIsUnderWay ==
    edited # None =>
      /\ node \in Selecting \cup Budgeting \cup {"end"}
      /\ node = "draft_itinerary" => feedback # 0 /\ kept.draft = edited
      /\ node \in (Selecting \cup Budgeting) \ {"draft_itinerary"} => kept.draft # edited

GraphInv ==
    /\ Shapes /\ RequestIsKnown /\ ReportsAreDated /\ StagesAreOrdered
    /\ SelectionIsGated /\ PlanIsCurrent /\ EditIsUnderWay

-----------------------------------------------------------------------------
(* Every step keeps the invariant. *)

USE DEF Opening, Preflighting, Staying, Selecting, Budgeting, Planned, Searched,
        Discoverers, Components, Agents, Gates, Nodes,
        At, Goto, Interrupt, trip, data, Conf, InSelection, Completed, Current,
        DiscoveryOr, PlanOr, DependentStage

\* The fingerprints of a request that was understood are of its trip.
LEMMA FingerprintsAre ==
    ASSUME GraphInv, request # None
    PROVE  /\ RequestedTopics \subseteq Topics /\ request.trip \in Trips
           /\ SafetyFingerprint \in Fingerprints /\ SafetyFingerprint.trip = request.trip
           /\ SafetyFingerprint # None
           /\ \A topics \in SUBSET Topics :
                /\ Fingerprint(topics) \in Fingerprints /\ Fingerprint(topics) # None
                /\ Fingerprint(topics).trip = request.trip
<1>1. request \in TripRequest(Conf.targets) /\ question \subseteq Topics
  BY GraphAssumption DEF GraphInv, Shapes, TypeOK
<1>2. RequestedTopics \subseteq Topics /\ request.trip \in Trips
  BY <1>1 DEF RequestedTopics, TripRequest
<1>3. "safety" \in Topics
  BY GraphAssumption
<1>4. \A topics \in SUBSET Topics :
        Fingerprint(topics) \in Fingerprints /\ Fingerprint(topics).trip = request.trip
  BY <1>2 DEF Fingerprint, Fingerprints
<1> QED
  BY <1>2, <1>3, <1>4, NoneAssumption DEF SafetyFingerprint

\* So is a result that any node but readiness leaves.
LEMMA PlainIs ==
    ASSUME GraphInv, request # None, NEW status \in Statuses
    PROVE  /\ Plain(status) \in [status : Statuses, of : FingerprintOf]
           /\ Plain(status).status = status /\ Plain(status).of # None
           /\ Plain(status).of.trip = request.trip
BY FingerprintsAre DEF Plain, Result, FingerprintOf

\* A report that a run composes is none of the absent ones.
LEMMA ReportsAre ==
    ASSUME NEW trips \in SUBSET Trips, NEW safe \in BOOLEAN
    PROVE  /\ Report(trips, safe) \in Reports /\ Report(trips, safe) # None
           /\ Report(trips, safe).trips = trips
BY NoneAssumption DEF Report, Reports

\* What is left of a readiness run, under its key and beside it.
LEMMA ReadinessLeaves ==
    ASSUME GraphInv, NEW key \in {"readiness_preflight", "readiness"},
           NEW artefact \in {"preflight", "readiness"}, NEW outcome \in Statuses,
           NEW fingerprint \in FingerprintOf, NEW report \in Reports,
           Readiness(key, artefact, outcome, fingerprint, report)
    PROVE  /\ results' \in [Components -> [status : Statuses, of : FingerprintOf]]
           /\ results'[key].status = outcome
           /\ outcome # "failed" => results'[key].of = fingerprint
           /\ \A c \in Components \ {key} : results'[c] = results[c]
           /\ DOMAIN kept' = DOMAIN kept
           /\ kept'[artefact] = IF HasReport(outcome) THEN report ELSE None
           /\ \A f \in DOMAIN kept \ {artefact} : kept'[f] = kept[f]
BY DEF GraphInv, Shapes, TypeOK, NoArtefacts, Readiness, Result, FingerprintOf,
   Reports, HasReport

\* A run that waits, is cut or is resumed keeps everything but how it rests.
LEMMA RunRests ==
    ASSUME GraphInv, UNCHANGED profile,
           Resume \/ Cut \/ BudgetReviewWaits \/ HumanReviewWaits \/ BudgetRaises
    PROVE  GraphInv'
<1>1. Shapes'
  <2>1. CASE Resume
    BY <2>1, GraphAssumption DEF GraphInv, Shapes, RequestIsKnown, TypeOK,
       FingerprintOf, Fingerprints, TripRequest, Drafts, Reports, Skeletons,
       NoArtefacts, Resume
  <2>2. CASE Cut
    BY <2>2, GraphAssumption DEF GraphInv, Shapes, RequestIsKnown, TypeOK,
       FingerprintOf, Fingerprints, TripRequest, Drafts, Reports, Skeletons,
       NoArtefacts, Cut
  <2>3. CASE BudgetReviewWaits
    BY <2>3, GraphAssumption DEF GraphInv, Shapes, RequestIsKnown, TypeOK,
       FingerprintOf, Fingerprints, TripRequest, Drafts, Reports, Skeletons,
       NoArtefacts, BudgetReviewWaits
  <2>4. CASE HumanReviewWaits
    BY <2>4, GraphAssumption DEF GraphInv, Shapes, RequestIsKnown, TypeOK,
       FingerprintOf, Fingerprints, TripRequest, Drafts, Reports, Skeletons,
       NoArtefacts, HumanReviewWaits
  <2>5. CASE BudgetRaises
    BY <2>5, GraphAssumption DEF GraphInv, Shapes, RequestIsKnown, TypeOK,
       FingerprintOf, Fingerprints, TripRequest, Drafts, Reports, Skeletons,
       NoArtefacts, BudgetRaises
  <2> QED
    BY <2>1, <2>2, <2>3, <2>4, <2>5
<1>2. RequestIsKnown' /\ ReportsAreDated'
  BY <1>1, NoneAssumption DEF GraphInv, Shapes, TypeOK, RequestIsKnown,
     ReportsAreDated, Resume, Cut, BudgetReviewWaits, HumanReviewWaits, BudgetRaises
<1>3. StagesAreOrdered' /\ SelectionIsGated'
  BY <1>1, NoneAssumption DEF GraphInv, Shapes, TypeOK, RequestIsKnown,
     ReportsAreDated, StagesAreOrdered, SelectionIsGated, Resume, Cut,
     BudgetReviewWaits, HumanReviewWaits, BudgetRaises
<1>4. PlanIsCurrent' /\ EditIsUnderWay'
  BY <1>1 DEF GraphInv, Shapes, TypeOK, RequestIsKnown, PlanIsCurrent, EditIsUnderWay,
     CurrentPlan, Resume, Cut, BudgetReviewWaits, HumanReviewWaits, BudgetRaises
<1> QED
  BY <1>1, <1>2, <1>3, <1>4 DEF GraphInv

\* A message, its triage and an answer without a plan.
LEMMA TurnOpens ==
    ASSUME GraphInv, UNCHANGED profile, Chat \/ Triage \/ Reply \/ IntakeFails
    PROVE  GraphInv'
<1>1. Shapes'
  <2>1. CASE Chat
    BY <2>1, GraphAssumption DEF GraphInv, Shapes, RequestIsKnown, TypeOK,
       FingerprintOf, Fingerprints, TripRequest, Drafts, Reports, Skeletons,
       NoArtefacts, Chat, AfterTriage
  <2>2. CASE Triage
    BY <2>2, GraphAssumption DEF GraphInv, Shapes, RequestIsKnown, TypeOK,
       FingerprintOf, Fingerprints, TripRequest, Drafts, Reports, Skeletons,
       NoArtefacts, Triage, AfterTriage
  <2>3. CASE Reply
    BY <2>3, GraphAssumption DEF GraphInv, Shapes, RequestIsKnown, TypeOK,
       FingerprintOf, Fingerprints, TripRequest, Drafts, Reports, Skeletons,
       NoArtefacts, Reply, AfterTriage
  <2>4. CASE IntakeFails
    BY <2>4, GraphAssumption DEF GraphInv, Shapes, RequestIsKnown, TypeOK,
       FingerprintOf, Fingerprints, TripRequest, Drafts, Reports, Skeletons,
       NoArtefacts, IntakeFails, AfterTriage
  <2> QED
    BY <2>1, <2>2, <2>3, <2>4
<1>2. RequestIsKnown' /\ ReportsAreDated'
  BY <1>1, NoneAssumption DEF GraphInv, Shapes, TypeOK, RequestIsKnown,
     ReportsAreDated, Chat, Triage, Reply, IntakeFails, AfterTriage
<1>3. StagesAreOrdered' /\ SelectionIsGated'
  BY <1>1, NoneAssumption DEF GraphInv, Shapes, TypeOK, RequestIsKnown,
     ReportsAreDated, StagesAreOrdered, SelectionIsGated, Chat, Triage, Reply,
     IntakeFails, AfterTriage
<1>4. PlanIsCurrent' /\ EditIsUnderWay'
  BY <1>1 DEF GraphInv, Shapes, TypeOK, RequestIsKnown, PlanIsCurrent, EditIsUnderWay,
     CurrentPlan, Chat, Triage, Reply, IntakeFails, AfterTriage
<1> QED
  BY <1>1, <1>2, <1>3, <1>4 DEF GraphInv

\* A selection or a review that ends the turn.
LEMMA TurnEndsEarly ==
    ASSUME GraphInv, UNCHANGED profile,
           DraftFails \/ DraftUnmet \/ Rejected \/ NeedsClarification
    PROVE  GraphInv'
<1>1. Shapes'
  <2>1. CASE DraftFails
    BY <2>1, GraphAssumption, StatusesAre DEF GraphInv, Shapes, RequestIsKnown, TypeOK,
       FingerprintOf, Fingerprints, TripRequest, Drafts, Reports, Skeletons,
       NoArtefacts, DraftFails, Plain, Result, Fingerprint, Noted
  <2>2. CASE DraftUnmet
    BY <2>2, GraphAssumption, StatusesAre DEF GraphInv, Shapes, RequestIsKnown, TypeOK,
       FingerprintOf, Fingerprints, TripRequest, Drafts, Reports, Skeletons,
       NoArtefacts, DraftUnmet, Plain, Result, Fingerprint, Noted
  <2>3. CASE Rejected
    BY <2>3, GraphAssumption, StatusesAre DEF GraphInv, Shapes, RequestIsKnown, TypeOK,
       FingerprintOf, Fingerprints, TripRequest, Drafts, Reports, Skeletons,
       NoArtefacts, Rejected, Plain, Result, Fingerprint, Noted
  <2>4. CASE NeedsClarification
    BY <2>4, GraphAssumption, StatusesAre DEF GraphInv, Shapes, RequestIsKnown, TypeOK,
       FingerprintOf, Fingerprints, TripRequest, Drafts, Reports, Skeletons,
       NoArtefacts, NeedsClarification, Plain, Result, Fingerprint, Noted
  <2> QED
    BY <2>1, <2>2, <2>3, <2>4
<1>2. RequestIsKnown' /\ ReportsAreDated'
  <2>1. CASE DraftFails
    BY <2>1, <1>1, NoneAssumption, StatusesAre DEF GraphInv, Shapes, TypeOK,
       RequestIsKnown, ReportsAreDated, DraftFails, Plain, Result, Fingerprint, Noted
  <2>2. CASE DraftUnmet
    BY <2>2, <1>1, NoneAssumption, StatusesAre DEF GraphInv, Shapes, TypeOK,
       RequestIsKnown, ReportsAreDated, DraftUnmet, Plain, Result, Fingerprint, Noted
  <2>3. CASE Rejected
    BY <2>3, <1>1, NoneAssumption, StatusesAre DEF GraphInv, Shapes, TypeOK,
       RequestIsKnown, ReportsAreDated, Rejected, Plain, Result, Fingerprint, Noted
  <2>4. CASE NeedsClarification
    BY <2>4, <1>1, NoneAssumption, StatusesAre DEF GraphInv, Shapes, TypeOK,
       RequestIsKnown, ReportsAreDated, NeedsClarification, Plain, Result, Fingerprint,
       Noted
  <2> QED
    BY <2>1, <2>2, <2>3, <2>4
<1>3. StagesAreOrdered' /\ SelectionIsGated'
  BY <1>1, NoneAssumption DEF GraphInv, Shapes, TypeOK, RequestIsKnown,
     ReportsAreDated, StagesAreOrdered, SelectionIsGated, DraftFails, DraftUnmet,
     Rejected, NeedsClarification, Plain, Result, Fingerprint, Noted
<1>4. PlanIsCurrent' /\ EditIsUnderWay'
  BY <1>1 DEF GraphInv, Shapes, TypeOK, RequestIsKnown, PlanIsCurrent, EditIsUnderWay,
     CurrentPlan, DraftFails, DraftUnmet, Rejected, NeedsClarification, Plain, Result,
     Fingerprint, Noted
<1> QED
  BY <1>1, <1>2, <1>3, <1>4 DEF GraphInv

\* A review that lets the plan pass goes on to what has been computed.
LEMMA ReviewsPass ==
    ASSUME GraphInv, UNCHANGED profile, BudgetReviewPasses \/ HumanReviewPasses \/ Approved
    PROVE  GraphInv'
<1>1. Shapes'
  <2>1. CASE BudgetReviewPasses
    BY <2>1, GraphAssumption DEF GraphInv, Shapes, RequestIsKnown, TypeOK,
       FingerprintOf, Fingerprints, TripRequest, Drafts, Reports, Skeletons,
       NoArtefacts, BudgetReviewPasses, AfterBudgetReview
  <2>2. CASE HumanReviewPasses
    BY <2>2, GraphAssumption DEF GraphInv, Shapes, RequestIsKnown, TypeOK,
       FingerprintOf, Fingerprints, TripRequest, Drafts, Reports, Skeletons,
       NoArtefacts, HumanReviewPasses, AfterBudgetReview
  <2>3. CASE Approved
    BY <2>3, GraphAssumption DEF GraphInv, Shapes, RequestIsKnown, TypeOK,
       FingerprintOf, Fingerprints, TripRequest, Drafts, Reports, Skeletons,
       NoArtefacts, Approved, AfterBudgetReview
  <2> QED
    BY <2>1, <2>2, <2>3
<1>2. RequestIsKnown' /\ ReportsAreDated'
  BY <1>1, NoneAssumption DEF GraphInv, Shapes, TypeOK, RequestIsKnown,
     ReportsAreDated, BudgetReviewPasses, HumanReviewPasses, Approved, AfterBudgetReview
<1>3. StagesAreOrdered' /\ SelectionIsGated'
  BY <1>1, NoneAssumption DEF GraphInv, Shapes, TypeOK, RequestIsKnown,
     ReportsAreDated, StagesAreOrdered, SelectionIsGated, BudgetReviewPasses,
     HumanReviewPasses, Approved, AfterBudgetReview
<1>4. PlanIsCurrent' /\ EditIsUnderWay'
  BY <1>1 DEF GraphInv, Shapes, TypeOK, RequestIsKnown, PlanIsCurrent, EditIsUnderWay,
     CurrentPlan, BudgetReviewPasses, HumanReviewPasses, Approved, AfterBudgetReview
<1> QED
  BY <1>1, <1>2, <1>3, <1>4 DEF GraphInv

\* An edit of the selection: what is rendered must differ from the draft of now.
LEMMA EditStarts ==
    ASSUME GraphInv, UNCHANGED profile, Edited
    PROVE  GraphInv'
<1>1. Shapes'
  BY GraphAssumption DEF GraphInv, Shapes, RequestIsKnown, TypeOK, FingerprintOf,
     Fingerprints, TripRequest, Drafts, Reports, Skeletons, NoArtefacts, Edited, Noted
<1>2. RequestIsKnown' /\ ReportsAreDated'
  BY <1>1, NoneAssumption DEF GraphInv, Shapes, TypeOK, RequestIsKnown,
     ReportsAreDated, Edited, Noted
<1>3. StagesAreOrdered' /\ SelectionIsGated'
  BY <1>1, NoneAssumption DEF GraphInv, Shapes, TypeOK, RequestIsKnown,
     ReportsAreDated, StagesAreOrdered, SelectionIsGated, Edited, Noted
<1>4. PlanIsCurrent' /\ EditIsUnderWay'
  BY <1>1 DEF GraphInv, Shapes, TypeOK, RequestIsKnown, PlanIsCurrent, EditIsUnderWay,
     CurrentPlan, Edited, Noted
<1> QED
  BY <1>1, <1>2, <1>3, <1>4 DEF GraphInv

\* The handbook node changes nothing the plan is compiled from.
LEMMA HandbookRenders ==
    ASSUME GraphInv, UNCHANGED profile, RenderHandbook
    PROVE  GraphInv'
<1>1. Shapes'
  BY GraphAssumption, StatusesAre DEF GraphInv, Shapes, RequestIsKnown, TypeOK,
     FingerprintOf, Fingerprints, TripRequest, Drafts, Reports, Skeletons, NoArtefacts,
     RenderHandbook, Plain, Result, Fingerprint
<1>2. RequestIsKnown' /\ ReportsAreDated'
  BY <1>1, NoneAssumption, StatusesAre DEF GraphInv, Shapes, TypeOK, RequestIsKnown,
     ReportsAreDated, RenderHandbook, Plain, Result, Fingerprint
<1>3. StagesAreOrdered' /\ SelectionIsGated'
  BY <1>1, NoneAssumption DEF GraphInv, Shapes, TypeOK, RequestIsKnown,
     ReportsAreDated, StagesAreOrdered, SelectionIsGated, RenderHandbook, Plain,
     Result, Fingerprint
<1>4. PlanIsCurrent' /\ EditIsUnderWay'
  BY <1>1 DEF GraphInv, Shapes, TypeOK, RequestIsKnown, PlanIsCurrent, EditIsUnderWay,
     CurrentPlan, RenderHandbook, Plain, Result, Fingerprint
<1> QED
  BY <1>1, <1>2, <1>3, <1>4 DEF GraphInv

\* Only a plan that compiled, of the artefacts of now, goes to review.
LEMMA PlanCompiles ==
    ASSUME GraphInv, UNCHANGED profile, ItineraryCompiles \/ ItineraryFails
    PROVE  GraphInv'
<1>1. Shapes'
  <2>1. CASE ItineraryCompiles
    BY <2>1, GraphAssumption, StatusesAre DEF GraphInv, Shapes, RequestIsKnown, TypeOK,
       FingerprintOf, Fingerprints, TripRequest, Drafts, Reports, Skeletons,
       NoArtefacts, ItineraryCompiles, Plain, Result, Fingerprint, AfterItinerary
  <2>2. CASE ItineraryFails
    BY <2>2, GraphAssumption, StatusesAre DEF GraphInv, Shapes, RequestIsKnown, TypeOK,
       FingerprintOf, Fingerprints, TripRequest, Drafts, Reports, Skeletons,
       NoArtefacts, ItineraryFails, Plain, Result, Fingerprint, AfterItinerary
  <2> QED
    BY <2>1, <2>2
<1>2. RequestIsKnown' /\ ReportsAreDated'
  <2>1. CASE ItineraryCompiles
    BY <2>1, <1>1, NoneAssumption, StatusesAre DEF GraphInv, Shapes, TypeOK,
       RequestIsKnown, ReportsAreDated, ItineraryCompiles, Plain, Result, Fingerprint,
       AfterItinerary
  <2>2. CASE ItineraryFails
    BY <2>2, <1>1, NoneAssumption, StatusesAre DEF GraphInv, Shapes, TypeOK,
       RequestIsKnown, ReportsAreDated, ItineraryFails, Plain, Result, Fingerprint,
       AfterItinerary
  <2> QED
    BY <2>1, <2>2
<1>3. StagesAreOrdered' /\ SelectionIsGated'
  <2>1. CASE ItineraryCompiles
    BY <2>1, <1>1, NoneAssumption DEF GraphInv, Shapes, TypeOK, RequestIsKnown,
       ReportsAreDated, StagesAreOrdered, SelectionIsGated, ItineraryCompiles, Plain,
       Result, Fingerprint, AfterItinerary
  <2>2. CASE ItineraryFails
    BY <2>2, <1>1, NoneAssumption DEF GraphInv, Shapes, TypeOK, RequestIsKnown,
       ReportsAreDated, StagesAreOrdered, SelectionIsGated, ItineraryFails, Plain,
       Result, Fingerprint, AfterItinerary
  <2> QED
    BY <2>1, <2>2
<1>4. PlanIsCurrent' /\ EditIsUnderWay'
  <2>1. CASE ItineraryCompiles
    BY <2>1, <1>1 DEF GraphInv, Shapes, TypeOK, RequestIsKnown, PlanIsCurrent,
       EditIsUnderWay, CurrentPlan, ItineraryCompiles, Plain, Result, Fingerprint,
       AfterItinerary
  <2>2. CASE ItineraryFails
    BY <2>2, <1>1 DEF GraphInv, Shapes, TypeOK, RequestIsKnown, PlanIsCurrent,
       EditIsUnderWay, CurrentPlan, ItineraryFails, Plain, Result, Fingerprint,
       AfterItinerary
  <2> QED
    BY <2>1, <2>2
<1> QED
  BY <1>1, <1>2, <1>3, <1>4 DEF GraphInv

\* The route is made of the draft, after a gated selection.
LEMMA DraftIsRouted ==
    ASSUME GraphInv, UNCHANGED profile, Transportation
    PROVE  GraphInv'
<1>1. Shapes'
  BY GraphAssumption DEF GraphInv, Shapes, RequestIsKnown, TypeOK, FingerprintOf,
     Fingerprints, TripRequest, Drafts, Reports, Skeletons, NoArtefacts,
     Transportation, AfterTransportation
<1>2. RequestIsKnown' /\ ReportsAreDated'
  BY <1>1, NoneAssumption DEF GraphInv, Shapes, TypeOK, RequestIsKnown,
     ReportsAreDated, Transportation, AfterTransportation
<1>3. StagesAreOrdered' /\ SelectionIsGated'
  BY <1>1, NoneAssumption DEF GraphInv, Shapes, TypeOK, RequestIsKnown,
     ReportsAreDated, StagesAreOrdered, SelectionIsGated, Transportation,
     AfterTransportation
<1>4. PlanIsCurrent' /\ EditIsUnderWay'
  BY <1>1 DEF GraphInv, Shapes, TypeOK, RequestIsKnown, PlanIsCurrent, EditIsUnderWay,
     CurrentPlan, Transportation, AfterTransportation
<1> QED
  BY <1>1, <1>2, <1>3, <1>4 DEF GraphInv

\* A new draft is of the gated skeleton, and not the draft that was to change.
LEMMA DraftIsSelected ==
    ASSUME GraphInv, UNCHANGED profile, DraftItinerary
    PROVE  GraphInv'
<1>1. Shapes'
  BY GraphAssumption, StatusesAre DEF GraphInv, Shapes, RequestIsKnown, TypeOK,
     FingerprintOf, Fingerprints, TripRequest, Drafts, Reports, Skeletons, NoArtefacts,
     SelectionIsGated, DraftItinerary, Plain, Result, Fingerprint, AfterDraft,
     SameSelection
<1>2. RequestIsKnown' /\ ReportsAreDated'
  BY <1>1, NoneAssumption, StatusesAre DEF GraphInv, Shapes, TypeOK, RequestIsKnown,
     ReportsAreDated, DraftItinerary, Plain, Result, Fingerprint, AfterDraft,
     SameSelection
<1>3. StagesAreOrdered' /\ SelectionIsGated'
  BY <1>1, NoneAssumption DEF GraphInv, Shapes, TypeOK, RequestIsKnown,
     ReportsAreDated, StagesAreOrdered, SelectionIsGated, DraftItinerary, Plain,
     Result, Fingerprint, AfterDraft, SameSelection
<1>4. PlanIsCurrent' /\ EditIsUnderWay'
  BY <1>1 DEF GraphInv, Shapes, TypeOK, RequestIsKnown, PlanIsCurrent, EditIsUnderWay,
     CurrentPlan, DraftItinerary, Plain, Result, Fingerprint, AfterDraft, SameSelection
<1> QED
  BY <1>1, <1>2, <1>3, <1>4 DEF GraphInv

\* The budget changes neither what was searched nor what was selected.
LEMMA BudgetIsComputed ==
    ASSUME GraphInv, UNCHANGED profile, Budget
    PROVE  GraphInv'
<1>1. /\ node = "budget" /\ UNCHANGED <<request, revision, routing, feedback, edited, stays>>
      /\ DOMAIN kept' = DOMAIN kept /\ kept'.preflight = kept.preflight
      /\ kept'.readiness = kept.readiness /\ kept'.skeleton = kept.skeleton
      /\ kept'.draft = kept.draft /\ kept'.route = kept.route
      /\ Goto("budget_review") /\ accepted' \in BOOLEAN
      /\ UNCHANGED <<question, pending>>
      /\ results' \in [Components -> [status : Statuses, of : FingerprintOf]]
      /\ \A c \in Components \ {"budget"} : results'[c] = results[c]
  <2>1. request.trip \in Trips
    BY DEF GraphInv, Shapes, TypeOK, RequestIsKnown, Budget
  <2>2. Plain("completed") \in [status : Statuses, of : FingerprintOf]
        /\ Plain("failed") \in [status : Statuses, of : FingerprintOf]
    BY <2>1, StatusesAre DEF Plain, Result, Fingerprint, Fingerprints, FingerprintOf
  <2>3. PICK report, outcome :
          /\ outcome \in {Plain("completed"), Plain("failed")}
          /\ kept' = [kept EXCEPT !.budget = report]
          /\ results' = [results EXCEPT !["budget"] = outcome]
    <3>1. CASE results' = [results EXCEPT !["budget"] = Plain("failed")]
               /\ kept' = [kept EXCEPT !.budget = None]
      BY <3>1
    <3>2. ASSUME NEW over \in BOOLEAN,
                 kept' = [kept EXCEPT !.budget =
                    [trip |-> request.trip, draft |-> kept.draft,
                     target |-> request.target, over |-> over]],
                 results' = [results EXCEPT !["budget"] = Plain("completed")]
          PROVE  \E report, outcome :
                   /\ outcome \in {Plain("completed"), Plain("failed")}
                   /\ kept' = [kept EXCEPT !.budget = report]
                   /\ results' = [results EXCEPT !["budget"] = outcome]
      BY <3>2
    <3> QED
      BY <3>1, <3>2, Zenon DEF Budget
  <2>4. /\ results' \in [Components -> [status : Statuses, of : FingerprintOf]]
        /\ \A c \in Components \ {"budget"} : results'[c] = results[c]
    BY <2>2, <2>3 DEF GraphInv, Shapes
  <2> QED
    BY <2>3, <2>4 DEF GraphInv, Shapes, TypeOK, NoArtefacts, Budget
<1>2. Shapes'
  BY GraphAssumption, StatusesAre, <1>1 DEF GraphInv, Shapes, RequestIsKnown, TypeOK,
     FingerprintOf, Fingerprints, TripRequest, Drafts, Reports, Skeletons, NoArtefacts,
     Plain, Result, Fingerprint
<1>3. RequestIsKnown' /\ ReportsAreDated'
  BY <1>2, NoneAssumption, StatusesAre, <1>1 DEF GraphInv, Shapes, TypeOK,
     RequestIsKnown, ReportsAreDated, Plain, Result, Fingerprint
<1>4. StagesAreOrdered' /\ SelectionIsGated'
  BY <1>2, NoneAssumption, <1>1 DEF GraphInv, Shapes, TypeOK, RequestIsKnown,
     ReportsAreDated, StagesAreOrdered, SelectionIsGated, Plain, Result, Fingerprint
<1>5. PlanIsCurrent' /\ EditIsUnderWay'
  BY <1>2, <1>1 DEF GraphInv, Shapes, TypeOK, RequestIsKnown, PlanIsCurrent,
     EditIsUnderWay, CurrentPlan, Plain, Result, Fingerprint
<1> QED
  BY <1>2, <1>3, <1>4, <1>5 DEF GraphInv

\* A budget decision may change the target, and not the trip.
LEMMA BudgetIsDecided ==
    ASSUME GraphInv, UNCHANGED profile, BudgetReviewDecides
    PROVE  GraphInv'
<1>1. /\ request' \in TripRequest(Conf.targets) /\ request' # None
      /\ request'.trip = request.trip /\ request'.stays = request.stays
  BY NoneAssumption DEF GraphInv, Shapes, TypeOK, RequestIsKnown, TripRequest,
     BudgetReviewDecides
<1>2. Shapes'
  BY GraphAssumption, <1>1 DEF GraphInv, Shapes, RequestIsKnown, TypeOK, FingerprintOf,
     Fingerprints, TripRequest, Drafts, Reports, Skeletons, NoArtefacts,
     BudgetReviewDecides, AfterBudgetReview
<1>3. RequestIsKnown' /\ ReportsAreDated'
  BY <1>2, NoneAssumption, <1>1 DEF GraphInv, Shapes, TypeOK, RequestIsKnown,
     ReportsAreDated, BudgetReviewDecides, AfterBudgetReview
<1>4. StagesAreOrdered' /\ SelectionIsGated'
  BY <1>2, NoneAssumption, <1>1 DEF GraphInv, Shapes, TypeOK, RequestIsKnown,
     ReportsAreDated, StagesAreOrdered, SelectionIsGated, BudgetReviewDecides,
     AfterBudgetReview
<1>5. PlanIsCurrent' /\ EditIsUnderWay'
  BY <1>2, <1>1 DEF GraphInv, Shapes, TypeOK, RequestIsKnown, PlanIsCurrent,
     EditIsUnderWay, CurrentPlan, BudgetReviewDecides, AfterBudgetReview
<1> QED
  BY <1>2, <1>3, <1>4, <1>5 DEF GraphInv

\* A merged request is a request of the configuration, and a revision of its own.
LEMMA RequestIsMerged ==
    ASSUME GraphInv, UNCHANGED profile, IntakeMerges
    PROVE  GraphInv'
<1>1. /\ request' \in TripRequest(Conf.targets) /\ request' # None
      /\ request'.trip \in Trips /\ request'.stays \in 1..MaxStays
  <2>1. request' \in Conf.requests /\ profile \in DOMAIN Profile
    BY DEF GraphInv, Shapes, TypeOK, IntakeMerges
  <2>2. request' \in AllRequests /\ request' \in TripRequest(Conf.targets)
    BY <2>1, GraphAssumption DEF AllRequests
  <2> QED
    BY <2>1, <2>2, StaysAreBounded, NoneAssumption
<1>2. Shapes'
  <2>1. /\ revision' \in 0..turns' /\ feedback' \in 0..revision' /\ turns' \in 0..Conf'.turns
        /\ question' \in Conf'.questions \cup {{}}
    BY GraphAssumption DEF GraphInv, Shapes, TypeOK, RequestIsKnown, IntakeMerges
  <2>2. /\ node' \in {"end", "supervisor"} /\ run' \in {"idle", "running"}
        /\ (run' = "idle" <=> node' = "end") /\ answer' = None
        /\ pending' \in BOOLEAN /\ accepted' \in BOOLEAN
    BY DEF IntakeMerges
  <2> QED
    BY <1>1, <2>1, <2>2 DEF GraphInv, Shapes, TypeOK, Drafts, IntakeMerges
<1>3. RequestIsKnown' /\ ReportsAreDated'
  BY <1>2, NoneAssumption, <1>1 DEF GraphInv, Shapes, TypeOK, RequestIsKnown,
     ReportsAreDated, IntakeMerges
<1>4. StagesAreOrdered' /\ SelectionIsGated'
  BY <1>2, NoneAssumption, <1>1 DEF GraphInv, Shapes, TypeOK, RequestIsKnown,
     ReportsAreDated, StagesAreOrdered, SelectionIsGated, IntakeMerges
<1>5. PlanIsCurrent' /\ EditIsUnderWay'
  BY <1>2, <1>1 DEF GraphInv, Shapes, TypeOK, RequestIsKnown, PlanIsCurrent,
     EditIsUnderWay, CurrentPlan, IntakeMerges
<1> QED
  BY <1>2, <1>3, <1>4, <1>5 DEF GraphInv

\* Only with a readiness result of this request does routing skip readiness.
LEMMA RequestIsRouted ==
    ASSUME GraphInv, UNCHANGED profile, Supervisor
    PROVE  GraphInv'
<1>1. Shapes'
  BY GraphAssumption DEF GraphInv, Shapes, RequestIsKnown, TypeOK, FingerprintOf,
     Fingerprints, TripRequest, Drafts, Reports, Skeletons, NoArtefacts, Supervisor,
     AfterSupervisor, NeedsSafetyPreflight, CompletedFor, SafetyFingerprint, Fingerprint
<1>2. RequestIsKnown' /\ ReportsAreDated'
  BY <1>1, NoneAssumption DEF GraphInv, Shapes, TypeOK, RequestIsKnown,
     ReportsAreDated, Supervisor, AfterSupervisor, NeedsSafetyPreflight, CompletedFor,
     SafetyFingerprint, Fingerprint
<1>3. StagesAreOrdered' /\ SelectionIsGated'
  BY <1>1, NoneAssumption DEF GraphInv, Shapes, TypeOK, RequestIsKnown,
     ReportsAreDated, StagesAreOrdered, SelectionIsGated, Supervisor, AfterSupervisor,
     NeedsSafetyPreflight, CompletedFor, SafetyFingerprint, Fingerprint
<1>4. PlanIsCurrent' /\ EditIsUnderWay'
  BY <1>1 DEF GraphInv, Shapes, TypeOK, RequestIsKnown, PlanIsCurrent, EditIsUnderWay,
     CurrentPlan, Supervisor, AfterSupervisor, NeedsSafetyPreflight, CompletedFor,
     SafetyFingerprint, Fingerprint
<1> QED
  BY <1>1, <1>2, <1>3, <1>4 DEF GraphInv

\* A preflight is dated by the request it was researched for.
LEMMA SafetyIsResearched ==
    ASSUME GraphInv, UNCHANGED profile, ReadinessPreflight
    PROVE  GraphInv'
<1>1. /\ At("readiness_preflight") /\ TRUE /\ request # None /\ profile' = profile
      /\ Goto(AfterPreflight)
      /\ UNCHANGED <<trip, pending, accepted, feedback, stays, edited, routing>>
  BY DEF GraphInv, RequestIsKnown, ReadinessPreflight
<1>2. PICK outcome \in ReadinessOutcomes, report \in Reports :
        /\ report # None /\ report.trips = {request.trip}
        /\ Readiness("readiness_preflight", "preflight", outcome, SafetyFingerprint, report)
  <2>1. PICK outcome \in ReadinessOutcomes :
          Readiness("readiness_preflight", "preflight", outcome, SafetyFingerprint,
                 Report({request.trip}, outcome = "completed"))
    BY DEF ReadinessPreflight
  <2> DEFINE report == Report({request.trip}, outcome = "completed")
  <2>2. report \in Reports /\ report # None /\ report.trips = {request.trip}
    <3>1. (outcome = "completed") \in BOOLEAN /\ {request.trip} \in SUBSET Trips
      BY <1>1, FingerprintsAre
    <3> QED
      BY <3>1, ReportsAre, Zenon
  <2>3. Readiness("readiness_preflight", "preflight", outcome, SafetyFingerprint, report)
    BY <2>1
  <2> HIDE DEF report
  <2> QED
    BY <2>2, <2>3
<1>3. outcome \in Statuses /\ SafetyFingerprint \in FingerprintOf
      /\ SafetyFingerprint.trip = request.trip /\ SafetyFingerprint # None
  BY <1>1, StatusesAre, FingerprintsAre DEF FingerprintOf, ReadinessOutcomes
<1>4. /\ results' \in [Components -> [status : Statuses, of : FingerprintOf]]
      /\ results'["readiness_preflight"].status = outcome
      /\ outcome # "failed" => results'["readiness_preflight"].of = SafetyFingerprint
      /\ \A c \in Components \ {"readiness_preflight"} : results'[c] = results[c]
      /\ DOMAIN kept' = DOMAIN kept
      /\ kept'["preflight"] = IF HasReport(outcome) THEN report ELSE None
      /\ \A f \in DOMAIN kept \ {"preflight"} : kept'[f] = kept[f]
  BY <1>2, <1>3, ReadinessLeaves
<1>5. Shapes'
  BY GraphAssumption, <1>1, <1>2, <1>3, <1>4 DEF GraphInv, Shapes, RequestIsKnown,
     TypeOK, FingerprintOf, Fingerprints, TripRequest, Drafts, Reports, Skeletons,
     NoArtefacts, HasReport, AfterPreflight
<1>6. RequestIsKnown' /\ ReportsAreDated'
  BY <1>5, NoneAssumption, <1>1, <1>2, <1>3, <1>4 DEF GraphInv, Shapes, TypeOK,
     RequestIsKnown, ReportsAreDated, NoArtefacts, Reports, ReadinessOutcomes,
     HasReport, AfterPreflight
<1>7. StagesAreOrdered' /\ SelectionIsGated'
  BY <1>5, NoneAssumption, <1>1, <1>2, <1>3, <1>4 DEF GraphInv, Shapes, TypeOK,
     RequestIsKnown, ReportsAreDated, StagesAreOrdered, SelectionIsGated, HasReport,
     AfterPreflight
<1>8. PlanIsCurrent' /\ EditIsUnderWay'
  BY <1>5, <1>1, <1>2, <1>3, <1>4 DEF GraphInv, Shapes, TypeOK, RequestIsKnown,
     PlanIsCurrent, EditIsUnderWay, CurrentPlan, HasReport, AfterPreflight
<1> QED
  BY <1>5, <1>6, <1>7, <1>8 DEF GraphInv

\* A preflight is exposed as readiness only when its fingerprint is current.
LEMMA SafetyIsShown ==
    ASSUME GraphInv, UNCHANGED profile, SafetyWarning
    PROVE  GraphInv'
<1>1. /\ At("safety_warning") /\ request # None /\ profile' = profile
      /\ Goto(AfterSafetyWarning) /\ SafetyFingerprint.trip = request.trip
      /\ UNCHANGED <<trip, pending, accepted, feedback, stays, edited, routing>>
  BY FingerprintsAre DEF GraphInv, RequestIsKnown, SafetyWarning
<1>2. /\ results' \in [Components -> [status : Statuses, of : FingerprintOf]]
      /\ DOMAIN kept' = DOMAIN kept
      /\ \A f \in DOMAIN kept \ {"readiness"} : kept'[f] = kept[f]
      /\ \/ /\ results'["readiness"] = results["readiness_preflight"]
            /\ results'["readiness_preflight"] = results["readiness_preflight"]
            /\ results["readiness_preflight"].of = SafetyFingerprint
            /\ kept'["readiness"] = kept["preflight"]
         \/ /\ results'["readiness_preflight"].status # "completed"
            /\ results'["readiness_preflight"].of = results["readiness_preflight"].of
            /\ results'["readiness"] = results["readiness"]
            /\ kept' = kept
      /\ \A c \in Components \ {"readiness", "readiness_preflight"} : results'[c] = results[c]
  <2>1. PICK verified \in BOOLEAN :
          LET current == results["readiness_preflight"].of = SafetyFingerprint IN
          IF current /\ verified
          THEN /\ results' = [results EXCEPT !["readiness"] = results["readiness_preflight"]]
               /\ kept' = [kept EXCEPT !.readiness = kept.preflight]
          ELSE /\ results' = [results EXCEPT !["readiness_preflight"].status =
                                 IF current THEN "failed" ELSE "stale"]
               /\ UNCHANGED kept
    BY DEF SafetyWarning
  <2>2. "failed" \in Statuses /\ "stale" \in Statuses
    BY StatusesAre
  <2> QED
    BY <2>1, <2>2 DEF GraphInv, Shapes, TypeOK, NoArtefacts
<1>3. Shapes'
  BY GraphAssumption, <1>1, <1>2 DEF GraphInv, Shapes, RequestIsKnown, TypeOK,
     FingerprintOf, Fingerprints, TripRequest, Drafts, Reports, Skeletons, NoArtefacts,
     AfterSafetyWarning
<1>4. RequestIsKnown' /\ ReportsAreDated'
  BY <1>3, NoneAssumption, <1>1, <1>2 DEF GraphInv, Shapes, TypeOK, RequestIsKnown,
     ReportsAreDated, NoArtefacts, AfterSafetyWarning
<1>5. StagesAreOrdered' /\ SelectionIsGated'
  BY <1>3, NoneAssumption, <1>1, <1>2 DEF GraphInv, Shapes, TypeOK, RequestIsKnown,
     ReportsAreDated, StagesAreOrdered, SelectionIsGated, NoArtefacts,
     AfterSafetyWarning
<1>6. PlanIsCurrent' /\ EditIsUnderWay'
  BY <1>3, <1>1, <1>2 DEF GraphInv, Shapes, TypeOK, RequestIsKnown, PlanIsCurrent,
     EditIsUnderWay, CurrentPlan, AfterSafetyWarning
<1> QED
  BY <1>3, <1>4, <1>5, <1>6 DEF GraphInv

\* Details are added only to a preflight of the same fingerprint.
LEMMA DetailsAreResearched ==
    ASSUME GraphInv, UNCHANGED profile, ResearchDetails
    PROVE  GraphInv'
<1>1. /\ At("readiness") /\ kept.preflight # None /\ request # None /\ profile' = profile
      /\ Goto(AfterReadiness)
      /\ UNCHANGED <<trip, pending, accepted, feedback, stays, edited, routing>>
  BY DEF GraphInv, RequestIsKnown, ResearchDetails
<1>2. PICK outcome \in DetailOutcomes, report \in Reports :
        /\ report # None /\ report.trips = kept.preflight.trips \cup {request.trip}
        /\ Readiness("readiness", "readiness", outcome, SafetyFingerprint, report)
  <2>1. PICK outcome \in DetailOutcomes :
          Readiness("readiness", "readiness", outcome, SafetyFingerprint,
                 Report(kept.preflight.trips \cup {request.trip}, kept.preflight.safe))
    BY DEF ResearchDetails
  <2> DEFINE report == Report(kept.preflight.trips \cup {request.trip}, kept.preflight.safe)
  <2>2. /\ report \in Reports /\ report # None
        /\ report.trips = kept.preflight.trips \cup {request.trip}
    <3>1. /\ kept.preflight.safe \in BOOLEAN
          /\ kept.preflight.trips \cup {request.trip} \in SUBSET Trips
      BY <1>1, FingerprintsAre DEF Reports, GraphInv, Shapes, TypeOK
    <3> QED
      BY <3>1, ReportsAre, Zenon
  <2>3. Readiness("readiness", "readiness", outcome, SafetyFingerprint, report)
    BY <2>1
  <2> HIDE DEF report
  <2> QED
    BY <2>2, <2>3
<1>3. outcome \in Statuses /\ SafetyFingerprint \in FingerprintOf
      /\ SafetyFingerprint.trip = request.trip /\ SafetyFingerprint # None
  BY <1>1, StatusesAre, FingerprintsAre DEF FingerprintOf, DetailOutcomes,
     ReadinessOutcomes
<1>4. /\ results' \in [Components -> [status : Statuses, of : FingerprintOf]]
      /\ results'["readiness"].status = outcome
      /\ outcome # "failed" => results'["readiness"].of = SafetyFingerprint
      /\ \A c \in Components \ {"readiness"} : results'[c] = results[c]
      /\ DOMAIN kept' = DOMAIN kept
      /\ kept'["readiness"] = IF HasReport(outcome) THEN report ELSE None
      /\ \A f \in DOMAIN kept \ {"readiness"} : kept'[f] = kept[f]
  BY <1>2, <1>3, ReadinessLeaves
<1>5. Shapes'
  BY GraphAssumption, <1>1, <1>2, <1>3, <1>4 DEF GraphInv, Shapes, RequestIsKnown,
     TypeOK, FingerprintOf, Fingerprints, TripRequest, Drafts, Reports, Skeletons,
     NoArtefacts, HasReport, AfterReadiness, DetailOutcomes, PreflightIsStale
<1>6. RequestIsKnown' /\ ReportsAreDated'
  BY <1>5, NoneAssumption, <1>1, <1>2, <1>3, <1>4 DEF GraphInv, Shapes, TypeOK,
     RequestIsKnown, ReportsAreDated, NoArtefacts, HasReport, AfterReadiness,
     DetailOutcomes, PreflightIsStale
<1>7. StagesAreOrdered' /\ SelectionIsGated'
  BY <1>5, NoneAssumption, <1>1, <1>2, <1>3, <1>4 DEF GraphInv, Shapes, TypeOK,
     RequestIsKnown, ReportsAreDated, StagesAreOrdered, SelectionIsGated, NoArtefacts,
     HasReport, AfterReadiness, DetailOutcomes, PreflightIsStale
<1>8. PlanIsCurrent' /\ EditIsUnderWay'
  BY <1>5, <1>1, <1>2, <1>3, <1>4 DEF GraphInv, Shapes, TypeOK, RequestIsKnown,
     PlanIsCurrent, EditIsUnderWay, CurrentPlan, HasReport, AfterReadiness,
     DetailOutcomes, PreflightIsStale
<1> QED
  BY <1>5, <1>6, <1>7, <1>8 DEF GraphInv

\* So are the topics researched without a preflight.
LEMMA TopicsAreResearched ==
    ASSUME GraphInv, UNCHANGED profile, ResearchTopics
    PROVE  GraphInv'
<1>1. /\ At("readiness") /\ kept.preflight = None /\ request # None /\ profile' = profile
      /\ Goto(AfterReadiness)
      /\ UNCHANGED <<trip, pending, accepted, feedback, stays, edited, routing>>
  BY DEF GraphInv, RequestIsKnown, ResearchTopics
<1>2. PICK outcome \in ReadinessOutcomes, report \in Reports :
        /\ report # None /\ report.trips = {request.trip}
        /\ Readiness("readiness", "readiness", outcome, Fingerprint(RequestedTopics), report)
  <2>1. PICK outcome \in ReadinessOutcomes :
          Readiness("readiness", "readiness", outcome, Fingerprint(RequestedTopics),
                    Report({request.trip},
                           outcome = "completed" /\ "safety" \in RequestedTopics))
    BY DEF ResearchTopics
  <2> DEFINE report == Report({request.trip},
                              outcome = "completed" /\ "safety" \in RequestedTopics)
  <2>2. report \in Reports /\ report # None /\ report.trips = {request.trip}
    <3>1. /\ (outcome = "completed" /\ "safety" \in RequestedTopics) \in BOOLEAN
          /\ {request.trip} \in SUBSET Trips
      BY <1>1, FingerprintsAre
    <3> QED
      BY <3>1, ReportsAre, Zenon
  <2>3. Readiness("readiness", "readiness", outcome, Fingerprint(RequestedTopics), report)
    BY <2>1
  <2> HIDE DEF report
  <2> QED
    BY <2>2, <2>3
<1>3. outcome \in Statuses /\ Fingerprint(RequestedTopics) \in FingerprintOf
      /\ Fingerprint(RequestedTopics).trip = request.trip /\ Fingerprint(RequestedTopics) # None
  BY <1>1, StatusesAre, FingerprintsAre DEF FingerprintOf, ReadinessOutcomes
<1>4. /\ results' \in [Components -> [status : Statuses, of : FingerprintOf]]
      /\ results'["readiness"].status = outcome
      /\ outcome # "failed" => results'["readiness"].of = Fingerprint(RequestedTopics)
      /\ \A c \in Components \ {"readiness"} : results'[c] = results[c]
      /\ DOMAIN kept' = DOMAIN kept
      /\ kept'["readiness"] = IF HasReport(outcome) THEN report ELSE None
      /\ \A f \in DOMAIN kept \ {"readiness"} : kept'[f] = kept[f]
  BY <1>2, <1>3, ReadinessLeaves
<1>5. Shapes'
  BY GraphAssumption, <1>1, <1>2, <1>3, <1>4 DEF GraphInv, Shapes, RequestIsKnown,
     TypeOK, FingerprintOf, Fingerprints, TripRequest, Drafts, Reports, Skeletons,
     NoArtefacts, HasReport, AfterReadiness
<1>6. RequestIsKnown' /\ ReportsAreDated'
  BY <1>5, NoneAssumption, <1>1, <1>2, <1>3, <1>4 DEF GraphInv, Shapes, TypeOK,
     RequestIsKnown, ReportsAreDated, NoArtefacts, HasReport, AfterReadiness
<1>7. StagesAreOrdered' /\ SelectionIsGated'
  BY <1>5, NoneAssumption, <1>1, <1>2, <1>3, <1>4 DEF GraphInv, Shapes, TypeOK,
     RequestIsKnown, ReportsAreDated, StagesAreOrdered, SelectionIsGated, NoArtefacts,
     HasReport, AfterReadiness
<1>8. PlanIsCurrent' /\ EditIsUnderWay'
  BY <1>5, <1>1, <1>2, <1>3, <1>4 DEF GraphInv, Shapes, TypeOK, RequestIsKnown,
     PlanIsCurrent, EditIsUnderWay, CurrentPlan, HasReport, AfterReadiness
<1> QED
  BY <1>5, <1>6, <1>7, <1>8 DEF GraphInv

\* Every requested search is replaced by one of the current trip.
LEMMA DiscoverySearches ==
    ASSUME GraphInv, UNCHANGED profile, Discovery
    PROVE  GraphInv'
<1>1. /\ At("discovery") /\ request # None /\ profile' = profile
      /\ Goto("component_gate")
      /\ UNCHANGED <<trip, pending, accepted, feedback, stays, edited, routing, kept>>
  BY DEF GraphInv, RequestIsKnown, Discovery
<1>2. /\ results' \in [Components -> [status : Statuses, of : FingerprintOf]]
      /\ \A c \in routing \cap Discoverers :
           results'[c].of # None /\ results'[c].of.trip = request.trip
      /\ \A c \in Components \ Discoverers : results'[c] = results[c]
  <2>1. PICK outcome \in [routing \cap Discoverers -> Outcomes] :
          results' = [c \in Components |->
              IF c \in DOMAIN outcome THEN Plain(outcome[c]) ELSE results[c]]
    BY DEF Discovery
  <2>2. \A c \in routing \cap Discoverers : outcome[c] \in Statuses
    BY <2>1, StatusesAre DEF Outcomes
  <2>3. \A c \in routing \cap Discoverers :
          /\ Plain(outcome[c]) \in [status : Statuses, of : FingerprintOf]
          /\ Plain(outcome[c]).of # None /\ Plain(outcome[c]).of.trip = request.trip
    BY <1>1, <2>2, PlainIs
  <2> QED
    BY <2>1, <2>3 DEF GraphInv, Shapes
<1>3. Shapes'
  BY GraphAssumption, <1>1, <1>2 DEF GraphInv, Shapes, RequestIsKnown, TypeOK,
     FingerprintOf, Fingerprints, TripRequest, Drafts, Reports, Skeletons, NoArtefacts
<1>4. RequestIsKnown' /\ ReportsAreDated'
  BY <1>3, NoneAssumption, <1>1, <1>2 DEF GraphInv, Shapes, TypeOK, RequestIsKnown,
     ReportsAreDated
<1>5. StagesAreOrdered' /\ SelectionIsGated'
  BY <1>3, NoneAssumption, <1>1, <1>2 DEF GraphInv, Shapes, TypeOK, RequestIsKnown,
     ReportsAreDated, StagesAreOrdered, SelectionIsGated
<1>6. PlanIsCurrent' /\ EditIsUnderWay'
  BY <1>3, <1>1, <1>2 DEF GraphInv, Shapes, TypeOK, RequestIsKnown, PlanIsCurrent,
     EditIsUnderWay, CurrentPlan
<1> QED
  BY <1>3, <1>4, <1>5, <1>6 DEF GraphInv

\* The gate lets a run pass when every requested search completed.
LEMMA ComponentsAreGated ==
    ASSUME GraphInv, UNCHANGED profile, ComponentGate
    PROVE  GraphInv'
<1>1. /\ At("component_gate") /\ request # None /\ profile' = profile /\ pending' \in BOOLEAN
      /\ UNCHANGED <<trip, accepted, feedback, data, edited, routing>>
  BY DEF GraphInv, Shapes, TypeOK, RequestIsKnown, ComponentGate, Gate
<1>2. \/ Goto("end")
      \/ /\ Goto(DependentStage)
         /\ \A c \in routing \cap (Discoverers \cup {"readiness"}) :
              results[c].status = "completed"
  BY DEF ComponentGate, Gate, Blocked
<1>3. Shapes'
  BY GraphAssumption, <1>1, <1>2 DEF GraphInv, Shapes, RequestIsKnown, TypeOK,
     FingerprintOf, Fingerprints, TripRequest, Drafts, Reports, Skeletons, NoArtefacts
<1>4. RequestIsKnown' /\ ReportsAreDated'
  BY <1>3, NoneAssumption, <1>1, <1>2 DEF GraphInv, Shapes, TypeOK, RequestIsKnown,
     ReportsAreDated
<1>5. StagesAreOrdered' /\ SelectionIsGated'
  BY <1>3, NoneAssumption, <1>1, <1>2 DEF GraphInv, Shapes, TypeOK, RequestIsKnown,
     ReportsAreDated, StagesAreOrdered, SelectionIsGated
<1>6. PlanIsCurrent' /\ EditIsUnderWay'
  BY <1>3, <1>1, <1>2 DEF GraphInv, Shapes, TypeOK, RequestIsKnown, PlanIsCurrent,
     EditIsUnderWay, CurrentPlan, SelectionIsGated
<1> QED
  BY <1>3, <1>4, <1>5, <1>6 DEF GraphInv

\* A skeleton is of the trip of the request.
LEMMA SkeletonIsMade ==
    ASSUME GraphInv, UNCHANGED profile, TripSkeleton
    PROVE  GraphInv'
<1>1. /\ At("trip_skeleton") /\ request # None /\ profile' = profile
      /\ UNCHANGED <<trip, pending, accepted, feedback, results, stays, edited, routing>>
  BY DEF GraphInv, RequestIsKnown, TripSkeleton
<1>2. /\ DOMAIN kept' = DOMAIN kept
      /\ \A f \in DOMAIN kept \ {"skeleton"} : kept'[f] = kept[f]
      /\ \/ Goto("end") /\ kept' = kept
         \/ /\ Goto(AfterTripSkeleton)
            /\ kept'["skeleton"] \in Skeletons /\ kept'["skeleton"] # None
            /\ kept'["skeleton"].trip = request.trip
  <2>1. \/ Goto("end") /\ kept' = kept
        \/ /\ Goto(AfterTripSkeleton)
           /\ kept' = [kept EXCEPT !.skeleton =
                          [trip |-> request.trip, stays |-> request.stays]]
    BY DEF TripSkeleton
  <2>2. [trip |-> request.trip, stays |-> request.stays] \in Skeletons
    BY <1>1 DEF GraphInv, Shapes, TypeOK, Skeletons
  <2> QED
    BY <2>1, <2>2, NoneAssumption DEF GraphInv, Shapes, TypeOK, NoArtefacts
<1>3. Shapes'
  BY GraphAssumption, <1>1, <1>2 DEF GraphInv, Shapes, RequestIsKnown, TypeOK,
     NoArtefacts, AfterTripSkeleton, Drafts, Reports
<1>4. RequestIsKnown' /\ ReportsAreDated'
  BY <1>3, NoneAssumption, <1>1, <1>2 DEF GraphInv, Shapes, TypeOK, RequestIsKnown,
     ReportsAreDated, NoArtefacts, AfterTripSkeleton
<1>5. StagesAreOrdered' /\ SelectionIsGated'
  BY <1>3, NoneAssumption, <1>1, <1>2 DEF GraphInv, Shapes, TypeOK, RequestIsKnown,
     ReportsAreDated, StagesAreOrdered, SelectionIsGated, NoArtefacts, AfterTripSkeleton
<1>6. PlanIsCurrent' /\ EditIsUnderWay'
  BY <1>3, <1>1, <1>2 DEF GraphInv, Shapes, TypeOK, RequestIsKnown, PlanIsCurrent,
     EditIsUnderWay, CurrentPlan, AfterTripSkeleton
<1> QED
  BY <1>3, <1>4, <1>5, <1>6 DEF GraphInv

\* Each stay of the skeleton is searched for its own trip.
LEMMA StaysAreSearched ==
    ASSUME GraphInv, UNCHANGED profile, HotelStay
    PROVE  GraphInv'
<1>1. /\ At("hotel_stay") /\ request # None /\ profile' = profile /\ Goto("hotel_fan_in")
      /\ UNCHANGED <<trip, pending, accepted, feedback, results, edited, routing, kept>>
  BY DEF GraphInv, RequestIsKnown, HotelStay
<1>2. \A i \in 1..MaxStays : stays'[i] = None \/ stays'[i] \in [trip : Trips, status : Outcomes]
  <2>1. PICK outcome \in [1..kept.skeleton.stays -> Outcomes] :
          stays' = [i \in 1..MaxStays |->
              IF i \in DOMAIN outcome
              THEN [trip |-> kept.skeleton.trip, status |-> outcome[i]]
              ELSE stays[i]]
    BY DEF HotelStay
  <2>2. kept.skeleton.trip \in Trips
    BY <1>1 DEF GraphInv, Shapes, TypeOK, StagesAreOrdered, Skeletons
  <2> QED
    BY <2>1, <2>2 DEF GraphInv, Shapes, TypeOK
<1>3. Shapes'
  BY GraphAssumption, <1>1, <1>2 DEF GraphInv, Shapes, RequestIsKnown, TypeOK,
     FingerprintOf, Fingerprints, TripRequest, Drafts, Reports, Skeletons, NoArtefacts
<1>4. RequestIsKnown' /\ ReportsAreDated'
  BY <1>3, NoneAssumption, <1>1, <1>2 DEF GraphInv, Shapes, TypeOK, RequestIsKnown,
     ReportsAreDated
<1>5. StagesAreOrdered' /\ SelectionIsGated'
  BY <1>3, NoneAssumption, <1>1, <1>2 DEF GraphInv, Shapes, TypeOK, RequestIsKnown,
     ReportsAreDated, StagesAreOrdered, SelectionIsGated
<1>6. PlanIsCurrent' /\ EditIsUnderWay'
  BY <1>3, <1>1, <1>2 DEF GraphInv, Shapes, TypeOK, RequestIsKnown, PlanIsCurrent,
     EditIsUnderWay, CurrentPlan
<1> QED
  BY <1>3, <1>4, <1>5, <1>6 DEF GraphInv

\* The merged result is a status, and of the trip of the request.
LEMMA StaysAreMerged ==
    ASSUME GraphInv, UNCHANGED profile, HotelFanIn
    PROVE  GraphInv'
<1>1. /\ At("hotel_fan_in") /\ request # None /\ profile' = profile /\ Goto("hotel_gate")
      /\ UNCHANGED <<trip, pending, accepted, feedback, stays, edited, routing, kept>>
  BY DEF GraphInv, RequestIsKnown, HotelFanIn
<1>2. /\ results' \in [Components -> [status : Statuses, of : FingerprintOf]]
      /\ results'["hotels"].of # None /\ results'["hotels"].of.trip = request.trip
      /\ \A c \in Components \ {"hotels"} : results'[c] = results[c]
  <2> DEFINE statuses == {stays[i].status : i \in {i \in 1..MaxStays : stays[i] # None}}
             status == IF statuses = {"completed"} THEN "completed" ELSE FirstOf(statuses)
  <2>1. results' = [results EXCEPT !["hotels"] = Plain(status)]
    BY DEF HotelFanIn
  <2>2. status \in Statuses
    BY StatusesAre, FirstOfIsStatus
  <2> HIDE DEF status
  <2>3. /\ Plain(status) \in [status : Statuses, of : FingerprintOf]
        /\ Plain(status).of # None /\ Plain(status).of.trip = request.trip
    BY <1>1, <2>2, PlainIs
  <2> QED
    BY <2>1, <2>3 DEF GraphInv, Shapes
<1>3. Shapes'
  BY GraphAssumption, <1>1, <1>2 DEF GraphInv, Shapes, RequestIsKnown, TypeOK,
     FingerprintOf, Fingerprints, TripRequest, Drafts, Reports, Skeletons, NoArtefacts
<1>4. RequestIsKnown' /\ ReportsAreDated'
  BY <1>3, NoneAssumption, <1>1, <1>2 DEF GraphInv, Shapes, TypeOK, RequestIsKnown,
     ReportsAreDated
<1>5. StagesAreOrdered' /\ SelectionIsGated'
  BY <1>3, NoneAssumption, <1>1, <1>2 DEF GraphInv, Shapes, TypeOK, RequestIsKnown,
     ReportsAreDated, StagesAreOrdered, SelectionIsGated
<1>6. PlanIsCurrent' /\ EditIsUnderWay'
  BY <1>3, <1>1, <1>2 DEF GraphInv, Shapes, TypeOK, RequestIsKnown, PlanIsCurrent,
     EditIsUnderWay, CurrentPlan
<1> QED
  BY <1>3, <1>4, <1>5, <1>6 DEF GraphInv

\* So does the gate of the hotels.
LEMMA HotelsAreGated ==
    ASSUME GraphInv, UNCHANGED profile, HotelGate
    PROVE  GraphInv'
<1>1. /\ At("hotel_gate") /\ request # None /\ profile' = profile /\ pending' \in BOOLEAN
      /\ UNCHANGED <<trip, accepted, feedback, data, edited, routing>>
  BY DEF GraphInv, Shapes, TypeOK, RequestIsKnown, HotelGate, Gate
<1>2. \/ Goto("end")
      \/ /\ Goto(PlanOr("end"))
         /\ \A c \in routing \cap {"hotels"} : results[c].status = "completed"
  BY DEF HotelGate, Gate, Blocked
<1>3. Shapes'
  BY GraphAssumption, <1>1, <1>2 DEF GraphInv, Shapes, RequestIsKnown, TypeOK,
     FingerprintOf, Fingerprints, TripRequest, Drafts, Reports, Skeletons, NoArtefacts
<1>4. RequestIsKnown' /\ ReportsAreDated'
  BY <1>3, NoneAssumption, <1>1, <1>2 DEF GraphInv, Shapes, TypeOK, RequestIsKnown,
     ReportsAreDated
<1>5. StagesAreOrdered' /\ SelectionIsGated'
  BY <1>3, NoneAssumption, <1>1, <1>2 DEF GraphInv, Shapes, TypeOK, RequestIsKnown,
     ReportsAreDated, StagesAreOrdered, SelectionIsGated
<1>6. PlanIsCurrent' /\ EditIsUnderWay'
  BY <1>3, <1>1, <1>2 DEF GraphInv, Shapes, TypeOK, RequestIsKnown, PlanIsCurrent,
     EditIsUnderWay, CurrentPlan, SelectionIsGated
<1> QED
  BY <1>3, <1>4, <1>5, <1>6 DEF GraphInv

-----------------------------------------------------------------------------
(* The invariant holds from the start, and so do the properties. *)

\* An empty thread of any configuration.
LEMMA GraphInit ==
    ASSUME Init
    PROVE  GraphInv
<1>1. Conf.turns \in Nat
  BY GraphAssumption DEF Init
<1>2. "absent" \in Statuses
  BY StatusesAre
<1>3. Absent \in [status : Statuses, of : FingerprintOf]
  BY <1>2 DEF Absent, Result, FingerprintOf
<1>4. Shapes
  <2>1. results \in [Components -> [status : Statuses, of : FingerprintOf]]
    BY <1>3 DEF Init
  <2>2. /\ DOMAIN kept = DOMAIN NoArtefacts
        /\ kept.preflight \in Reports /\ kept.readiness \in Reports
        /\ kept.skeleton \in Skeletons \cup {None}
        /\ kept.draft \in Drafts \cup {None} /\ kept.route \in Drafts \cup {None}
    BY DEF Init, NoArtefacts, Reports
  <2>3. /\ turns \in 0..Conf.turns /\ revision \in 0..turns /\ feedback \in 0..revision
        /\ \A i \in 1..MaxStays : stays[i] = None
        /\ pending \in BOOLEAN /\ accepted \in BOOLEAN /\ request = None
    <3>1. turns = 0 /\ revision = 0 /\ feedback = 0 /\ stays = [i \in 1..MaxStays |-> None]
      BY DEF Init
    <3>2. pending = FALSE /\ accepted = FALSE /\ request = None
      BY DEF Init
    <3>3. turns \in 0..Conf.turns /\ revision \in 0..turns /\ feedback \in 0..revision
      BY <1>1, <3>1
    <3> QED
      BY <3>1, <3>2, <3>3
  <2>4. /\ DOMAIN results = Components
        /\ \A c \in Components :
              results[c].status \in Statuses /\ results[c].of \in FingerprintOf
    BY <2>1
  <2>5. /\ node = "end" /\ run = "idle" /\ answer = None /\ profile \in DOMAIN Profile
        /\ question = {} /\ routing = {} /\ edited = None
    BY DEF Init
  <2> QED
    BY <2>1, <2>2, <2>3, <2>4, <2>5 DEF Shapes, TypeOK
<1>5. RequestIsKnown /\ ReportsAreDated
  BY <1>1 DEF Init, RequestIsKnown, ReportsAreDated, Absent, Result, NoArtefacts
<1>6. StagesAreOrdered /\ SelectionIsGated /\ PlanIsCurrent /\ EditIsUnderWay
  BY DEF Init, StagesAreOrdered, SelectionIsGated, PlanIsCurrent, EditIsUnderWay
<1> QED
  BY <1>4, <1>5, <1>6 DEF GraphInv

\* Every step of the API and of a node.
LEMMA GraphNext ==
    ASSUME GraphInv, [Next]_vars
    PROVE  GraphInv'
<1>1. CASE UNCHANGED vars
  BY <1>1 DEF vars, GraphInv, Shapes, TypeOK, FingerprintOf, Drafts, RequestIsKnown,
     ReportsAreDated, StagesAreOrdered, SelectionIsGated, PlanIsCurrent, CurrentPlan,
     EditIsUnderWay
<1>2. CASE Next
  <2>1. UNCHANGED profile
    BY <1>2 DEF Next
  <2>2. CASE Resume \/ Cut \/ BudgetReviewWaits \/ HumanReviewWaits \/ BudgetRaises
    BY <2>1, <2>2, RunRests
  <2>3. CASE Chat \/ Triage \/ Reply \/ IntakeFails
    BY <2>1, <2>3, TurnOpens
  <2>4. CASE DraftFails \/ DraftUnmet \/ Rejected \/ NeedsClarification
    BY <2>1, <2>4, TurnEndsEarly
  <2>5. CASE BudgetReviewPasses \/ HumanReviewPasses \/ Approved
    BY <2>1, <2>5, ReviewsPass
  <2>6. CASE IntakeMerges
    BY <2>1, <2>6, RequestIsMerged
  <2>7. CASE Supervisor
    BY <2>1, <2>7, RequestIsRouted
  <2>8. CASE ReadinessPreflight
    BY <2>1, <2>8, SafetyIsResearched
  <2>9. CASE SafetyWarning
    BY <2>1, <2>9, SafetyIsShown
  <2>10. CASE ResearchDetails
    BY <2>1, <2>10, DetailsAreResearched
  <2>11. CASE ResearchTopics
    BY <2>1, <2>11, TopicsAreResearched
  <2>12. CASE Discovery
    BY <2>1, <2>12, DiscoverySearches
  <2>13. CASE ComponentGate
    BY <2>1, <2>13, ComponentsAreGated
  <2>14. CASE TripSkeleton
    BY <2>1, <2>14, SkeletonIsMade
  <2>15. CASE HotelStay
    BY <2>1, <2>15, StaysAreSearched
  <2>16. CASE HotelFanIn
    BY <2>1, <2>16, StaysAreMerged
  <2>17. CASE HotelGate
    BY <2>1, <2>17, HotelsAreGated
  <2>18. CASE DraftItinerary
    BY <2>1, <2>18, DraftIsSelected
  <2>19. CASE Transportation
    BY <2>1, <2>19, DraftIsRouted
  <2>20. CASE Budget
    BY <2>1, <2>20, BudgetIsComputed
  <2>21. CASE BudgetReviewDecides
    BY <2>1, <2>21, BudgetIsDecided
  <2>22. CASE ItineraryCompiles \/ ItineraryFails
    BY <2>1, <2>22, PlanCompiles
  <2>23. CASE Edited
    BY <2>1, <2>23, EditStarts
  <2>24. CASE RenderHandbook
    BY <2>1, <2>24, HandbookRenders
  <2> QED
    BY <1>2, <2>2, <2>3, <2>4, <2>5, <2>6, <2>7, <2>8, <2>9, <2>10, <2>11, <2>12,
       <2>13, <2>14, <2>15, <2>16, <2>17, <2>18, <2>19, <2>20, <2>21, <2>22, <2>23,
       <2>24 DEF Next, NodeStep
<1> QED
  BY <1>1, <1>2

LEMMA GraphInvHolds == Spec => []GraphInv
<1>1. Init => GraphInv
  BY GraphInit
<1>2. GraphInv /\ [Next]_vars => GraphInv'
  BY GraphNext
<1> QED
  BY <1>1, <1>2, PTL DEF Spec

\* Whatever is cut, resumed, edited or asked for anew, a selection starts only
\* from a skeleton and from completed searches of the present trip, and parallel
\* searches are constrained by a readiness report of that trip alone: the gates
\* and routers of src/agent/stage4_graph.py, for every configuration.
THEOREM StagesAreGatedHolds == Spec => []StagesAreGated
<1>1. GraphInv => TypeOK
  BY DEF GraphInv, Shapes
<1>2. GraphInv => PlanningIsGated
  BY DEF GraphInv, SelectionIsGated, PlanningIsGated
<1>3. GraphInv => ConstraintsAreThisTrip
  <2>1. SUFFICES ASSUME GraphInv, node = "discovery", "readiness" \in routing
                 PROVE  kept.readiness # None /\ kept.readiness.trips = {request.trip}
    BY DEF ConstraintsAreThisTrip
  <2>2. results["readiness"].status = "completed" /\ results["readiness"].of.trip = request.trip
    BY <2>1 DEF GraphInv, StagesAreOrdered
  <2> QED
    BY <2>1, <2>2 DEF GraphInv, ReportsAreDated
<1>4. GraphInv => StagesAreGated
  BY <1>1, <1>2, <1>3 DEF StagesAreGated
<1> QED
  BY <1>4, GraphInvHolds, PTL

\* render_handbook_node never meets a plan that is missing or whose artefact
\* fingerprint is not that of the request and the artefacts of the moment.
THEOREM RenderFindsCurrentPlanHolds == Spec => []RenderFindsCurrentPlan
<1>1. GraphInv => RenderFindsCurrentPlan
  BY DEF GraphInv, PlanIsCurrent, RenderFindsCurrentPlan
<1> QED
  BY <1>1, GraphInvHolds, PTL

\* A change of the draft that the traveller asked for at human_review_node was
\* made before a handbook of that turn is rendered.
THEOREM EditIsPerformedHolds == Spec => []EditIsPerformed
<1>1. GraphInv => EditIsPerformed
  BY DEF GraphInv, EditIsUnderWay, EditIsPerformed
<1> QED
  BY <1>1, GraphInvHolds, PTL

--------------------------------------------------------------------------------
(* Division and rounding, for the sample of departures. *)

\* divmod: quotient and remainder of a division by a positive number.
LEMMA DivMod ==
    ASSUME NEW a \in Int, NEW n \in Nat \ {0}
    PROVE  /\ a \div n \in Int
           /\ a % n \in Nat /\ a % n < n
           /\ a = n * (a \div n) + (a % n)
  OBVIOUS

\* What round returns lies within half of the quotient.
LEMMA RoundedIsNear ==
    ASSUME NEW n \in Int, NEW d \in Nat \ {0}
    PROVE  /\ Rounded(n, d) \in {n \div d, n \div d + 1}
           /\ Rounded(n, d) = n \div d => 2 * (n % d) <= d
           /\ Rounded(n, d) = n \div d + 1 => 2 * (n % d) >= d
<1> DEFINE q == n \div d
           r == n % d
<1>1. q \in Int /\ r \in Nat
  BY DivMod
<1>2. Rounded(n, d) = IF 2 * r < d \/ (2 * r = d /\ q % 2 = 0) THEN q ELSE q + 1
  BY DEF Rounded
<1> HIDE DEF q, r
<1>3. CASE 2 * r < d \/ (2 * r = d /\ q % 2 = 0)
  <2>1. Rounded(n, d) = q
    BY <1>2, <1>3
  <2>2. 2 * r <= d
    BY <1>1, <1>3
  <2>3. q # q + 1
    BY <1>1
  <2> QED
    BY <2>1, <2>2, <2>3 DEF q, r
<1>4. CASE ~(2 * r < d \/ (2 * r = d /\ q % 2 = 0))
  <2>1. Rounded(n, d) = q + 1
    BY <1>2, <1>4
  <2>2. 2 * r >= d
    BY <1>1, <1>4
  <2>3. q # q + 1
    BY <1>1
  <2> QED
    BY <2>1, <2>2, <2>3 DEF q, r
<1> QED
  BY <1>3, <1>4

\* A product is not rounded, ...
LEMMA RoundedProduct ==
    ASSUME NEW b \in Int, NEW d \in Nat \ {0}
    PROVE  Rounded(b * d, d) = b
<1> DEFINE n == b * d
           q == n \div d
           r == n % d
<1>1. n \in Int /\ q \in Int /\ r \in Nat /\ r < d /\ n = d * q + r
  BY DivMod
<1>2. n = d * b
  OBVIOUS
<1> HIDE DEF n, q, r
<1>3. d * (b - q) = r
  BY <1>1, <1>2
<1>4. b - q = 0
  <2>1. CASE b - q >= 1
    <3>1. d * (b - q) >= d
      BY <1>1, <2>1
    <3> QED
      BY <1>1, <1>3, <3>1
  <2>2. CASE b - q <= -1
    <3>1. d * (b - q) <= -d
      BY <1>1, <2>2
    <3> QED
      BY <1>1, <1>3, <3>1
  <2> QED
    BY <1>1, <2>1, <2>2
<1>5. r = 0 /\ q = b
  BY <1>1, <1>3, <1>4
<1>6. Rounded(n, d) \in {q, q + 1} /\ (Rounded(n, d) = q + 1 => 2 * r >= d)
  BY <1>1, RoundedIsNear DEF q, r
<1> QED
  BY <1>1, <1>5, <1>6 DEF n

\* ... and numbers more than d apart are rounded to different ones.
LEMMA RoundedGrows ==
    ASSUME NEW m \in Int, NEW n \in Int, NEW d \in Nat \ {0}, n - m > d
    PROVE  Rounded(m, d) < Rounded(n, d)
<1> DEFINE q == m \div d
           r == m % d
           p == n \div d
           s == n % d
<1>1. /\ q \in Int /\ r \in Nat /\ r < d /\ m = d * q + r
      /\ p \in Int /\ s \in Nat /\ s < d /\ n = d * p + s
  BY DivMod
<1>2. /\ Rounded(m, d) \in {q, q + 1} /\ Rounded(n, d) \in {p, p + 1}
      /\ Rounded(m, d) = q + 1 => 2 * r >= d
      /\ Rounded(n, d) = p => 2 * s <= d
  BY RoundedIsNear
<1> HIDE DEF q, r, p, s
<1>3. d * (p - q) + s - r > d
  BY <1>1
<1>4. p > q
  <2>1. SUFFICES ASSUME p - q <= 0 PROVE FALSE
    BY <1>1
  <2>2. d * (p - q) <= 0
    BY <1>1, <2>1
  <2> QED
    BY <1>1, <1>3, <2>2
<1>5. CASE p >= q + 2
  BY <1>1, <1>2, <1>5
<1>6. CASE p = q + 1
  <2>1. d * (p - q) = d
    BY <1>1, <1>6
  <2>2. s > r
    BY <1>1, <1>3, <2>1
  <2> QED
    BY <1>1, <1>2, <1>6, <2>2
<1> QED
  BY <1>1, <1>4, <1>5, <1>6

\* A sample has as many departures as it may, the first and the last among them.
LEMMA SampleSpreads ==
    ASSUME NEW total \in Nat, NEW limit \in Nat, limit > 1, total > limit
    PROVE  /\ Sample(total, limit) \subseteq 0..(total - 1)
           /\ {0, total - 1} \subseteq Sample(total, limit)
           /\ Cardinality(Sample(total, limit)) = limit
<1> DEFINE N == total - 1
           M == limit - 1
           f == [k \in 0..M |-> Rounded(k * N, M)]
           S == Sample(total, limit)
<1>1. N \in Nat /\ M \in Nat \ {0} /\ N > M
  OBVIOUS
<1>2. S = {f[k] : k \in 0..M}
  BY DEF Sample
<1>3. \A k \in 0..M : f[k] = Rounded(k * N, M)
  OBVIOUS
<1>d. DOMAIN f = 0..M
  OBVIOUS
<1> HIDE DEF f, S, N, M
<1>4. ASSUME NEW j \in 0..M, NEW k \in 0..M, j < k
      PROVE  f[j] < f[k]
  <2>1. j * N \in Int /\ k * N \in Int /\ k * N - j * N = (k - j) * N
    BY <1>1
  <2>2. (k - j) * N >= N
    BY <1>1, <1>4
  <2>3. k * N - j * N > M
    BY <1>1, <2>1, <2>2
  <2> QED
    BY <1>1, <1>3, <2>1, <2>3, RoundedGrows
<1>5. f[0] = 0 /\ f[M] = N
  <2>1. 0 * N = 0 * M /\ M * N = N * M /\ 0 \in 0..M /\ M \in 0..M
    BY <1>1
  <2>2. Rounded(0 * M, M) = 0
    BY <1>1, RoundedProduct
  <2>3. Rounded(N * M, M) = N
    BY <1>1, RoundedProduct
  <2> QED
    BY <1>3, <2>1, <2>2, <2>3
<1>6. \A k \in 0..M : f[k] \in Int
  <2> TAKE k \in 0..M
  <2>1. k * N \in Int
    BY <1>1
  <2>2. (k * N) \div M \in Int
    BY <1>1, <2>1, DivMod
  <2>3. Rounded(k * N, M) \in {(k * N) \div M, (k * N) \div M + 1}
    BY <1>1, <2>1, RoundedIsNear
  <2> QED
    BY <1>3, <2>2, <2>3
<1>7. \A k \in 0..M : 0 <= f[k] /\ f[k] <= N
  <2> TAKE k \in 0..M
  <2>1. k = 0 \/ f[0] < f[k]
    BY <1>1, <1>4
  <2>2. k = M \/ f[k] < f[M]
    BY <1>1, <1>4
  <2> QED
    BY <1>1, <1>5, <1>6, <2>1, <2>2
<1>8. S \subseteq 0..N
  BY <1>1, <1>2, <1>6, <1>7
<1>9. {0, N} \subseteq S
  BY <1>1, <1>2, <1>5
<1>10. Cardinality(S) = limit
  <2>1. f \in Bijection(0..M, S)
    <3>1. f \in [0..M -> S]
      BY <1>2, <1>d, <1>3 DEF f
    <3>2. IsInjective(f)
      <4>1. ASSUME NEW j \in 0..M, NEW k \in 0..M, f[j] = f[k]
            PROVE  j = k
        BY <1>1, <1>4, <1>6, <4>1
      <4> QED
        BY <1>d, <4>1 DEF IsInjective
    <3> QED
      BY <1>2, <3>1, <3>2 DEF Bijection, Injection, Surjection
  <2>2. IsFiniteSet(0..M) /\ Cardinality(0..M) = M + 1
    BY <1>1, FS_Interval
  <2>3. Cardinality(S) = Cardinality(0..M)
    BY <2>1, <2>2, FS_Bijection DEF ExistsBijection
  <2> QED
    BY <1>1, <2>2, <2>3 DEF M
<1> QED
  BY <1>8, <1>9, <1>10 DEF N, S

-----------------------------------------------------------------------------
(* The inductive invariant: what requests, calls and executors may be.      *)

ToolNames == UNION {Tools[k] : k \in DOMAIN Tools}

RequestPhases == {"waiting", "posted", "asleep", "ended"}
Ends == {"none", "answer", "spent"} \cup Failures

\* A request has ended with an answer or a failure or is under way, and has
\* attempts left; only an answer brings offers.
SoundRequest ==
    {q \in [to : Providers, day : Int, phase : RequestPhases, tries : Nat, end : Ends,
            offers : Seq(Int)] :
       /\ q.tries < Attempts[q.to]
       /\ q.end = "none" <=> q.phase # "ended"
       /\ q.offers # <<>> => q.end = "answer"}

Failed(q) == q.end \notin {"none", "answer"}

\* The search of a window has a request for each day of its sample.
SearchesSample(w, requests) ==
    LET days == Ascending(Departures(TotalPairs(w), Limit(w))) IN
      /\ w \in Asked /\ WindowIsValid(w) /\ TotalPairs(w) > 0
      /\ Len(requests) = Len(days)
      /\ \A i \in DOMAIN days : requests[i].day = days[i]

\* A call has its text only when its requests have ended, and the text says what
\* they brought.
SoundCall ==
    {call \in [tool : ToolNames, window : Windows, requests : Seq(SoundRequest),
               text : Marks \cup {"none"}] :
       /\ call.text = "none" => call.requests # <<>>
       /\ call.text # "none" => \A i \in DOMAIN call.requests : Ended(call.requests[i])
       /\ call.text = "external" => \E i \in DOMAIN call.requests : Failed(call.requests[i])
       /\ call.tool = "window" /\ call.requests # <<>> =>
            SearchesSample(call.window, call.requests)
       /\ call.tool = "search" => Len(call.requests) = 1
       /\ call.tool \in {"search", "window"} /\ call.text = "found" =>
            \E i \in DOMAIN call.requests : Found(call.requests[i])}

\* What an executor has heard and ends with was said to it.
SoundRun ==
    {x \in [phase : Phases, round : 0..MaxRounds[component], heard : SUBSET Marks,
            places : {0, 1}, trouble : BOOLEAN, status : TaskStatuses \cup {"none"}] :
       /\ x.phase = "ended" <=> x.status # "none"
       /\ x.heard # {} \/ x.phase = "acting" => x.round > 0
       /\ "external" \in x.heard \/ x.status = "external" => x.trouble = TRUE
       /\ x.status = "completed" =>
            /\ x.heard # {} /\ x.heard \cap {"nothing", "external"} = {}
            /\ component \in Structured => x.places > 0}

\* The result is made of the results of executors that have all ended.
ResultIsAggregated ==
    result # "none" =>
      /\ \A r \in Active : runs[r].phase = "ended"
      /\ result = "completed" => \A r \in Active : runs[r].status = "completed"
      /\ result = "external" => \E r \in Active : runs[r].status = "external"

PermitsAreKept == Cardinality(Held) <= Permits /\ Cardinality(Thinking) <= ModelPermits

StageInv ==
    /\ component \in Explored
    /\ runs \in [Runs -> SoundRun]
    /\ calls \in [Runs -> Seq(SoundCall)]
    /\ result \in TaskStatuses \cup {"none"}
    /\ ResultIsAggregated /\ PermitsAreKept

-----------------------------------------------------------------------------
(* Departures of a window.                                                  *)

\* The departures asked for are in the window, one at least and no more than the
\* limit.
LEMMA DeparturesFit ==
    ASSUME NEW w \in Windows, TotalPairs(w) > 0
    PROVE  /\ Limit(w) \in Nat \ {0} /\ TotalPairs(w) \in Nat
           /\ Departures(TotalPairs(w), Limit(w)) \subseteq 0..(TotalPairs(w) - 1)
           /\ IsFiniteSet(Departures(TotalPairs(w), Limit(w)))
           /\ Departures(TotalPairs(w), Limit(w)) # {}
           /\ Cardinality(Departures(TotalPairs(w), Limit(w))) <= Limit(w)
           /\ TotalPairs(w) > Limit(w) =>
                Cardinality(Departures(TotalPairs(w), Limit(w))) = Limit(w)
<1> DEFINE total == TotalPairs(w)
           limit == Limit(w)
           D == Departures(total, limit)
<1>1. w.latest \in Int /\ w.duration \in Int /\ w.asked \in Int
  BY DEF Windows
<1>2. limit \in Nat \ {0}
  BY <1>1, PairLimitAssumption DEF Limit
<1>3. total \in Nat \ {0}
  BY <1>1 DEF TotalPairs
<1>d. D = Departures(total, limit)
  OBVIOUS
<1> HIDE DEF total, limit, D
<1>4. IsFiniteSet(0..(total - 1)) /\ Cardinality(0..(total - 1)) = total
  BY <1>3, FS_Interval
<1>5. CASE total <= limit
  <2>1. D = 0..(total - 1)
    BY <1>5, <1>d DEF Departures
  <2>2. 0 \in D
    BY <2>1, <1>3
  <2> QED
    BY <1>2, <1>3, <1>4, <1>5, <2>1, <2>2 DEF total, limit, D
<1>6. CASE total > limit /\ limit = 1
  <2>1. D = {total \div 2}
    BY <1>2, <1>3, <1>6, <1>d DEF Departures
  <2>2. total \div 2 \in 0..(total - 1)
    <3>1. /\ total \div 2 \in Int /\ total % 2 \in Nat /\ total % 2 < 2
          /\ total = 2 * (total \div 2) + (total % 2)
      BY <1>3, DivMod
    <3> QED
      BY <1>3, <3>1
  <2>3. IsFiniteSet(D) /\ Cardinality(D) = 1
    BY <2>1, FS_Singleton
  <2> QED
    BY <1>2, <1>3, <1>6, <2>1, <2>2, <2>3 DEF total, limit, D
<1>7. CASE total > limit /\ limit # 1
  <2>1. D = Sample(total, limit)
    BY <1>2, <1>3, <1>7, <1>d DEF Departures
  <2>2. D \subseteq 0..(total - 1) /\ {0, total - 1} \subseteq D /\ Cardinality(D) = limit
    BY <1>2, <1>3, <1>7, <2>1, SampleSpreads
  <2>3. IsFiniteSet(D)
    BY <1>4, <2>2, FS_Subset
  <2> QED
    BY <1>2, <1>3, <1>7, <2>2, <2>3 DEF total, limit, D
<1> QED
  BY <1>2, <1>3, <1>5, <1>6, <1>7

-----------------------------------------------------------------------------
(* Requests and calls as they start.                                        *)

LEMMA ToolsAre ==
    /\ DOMAIN Tools = {"flights", "hotels", "restaurants", "activities", "transportation"}
    /\ ToolNames = {"search", "cheapest", "window", "month", "confirm", "airports", "lookup",
                    "hotels", "rates", "places", "nearby", "events", "route"}
<1>1. DOMAIN Tools = {"flights", "hotels", "restaurants", "activities", "transportation"}
  BY DEF Tools
<1>2. ToolNames = Tools["flights"] \cup Tools["hotels"] \cup Tools["restaurants"]
                  \cup Tools["activities"] \cup Tools["transportation"]
  BY <1>1 DEF ToolNames
<1> QED
  BY <1>1, <1>2 DEF Tools

LEMMA NewRequest ==
    ASSUME NEW to \in Providers, NEW day \in Int
    PROVE  /\ Request(to, day) \in SoundRequest
           /\ Request(to, day).phase = "waiting" /\ Request(to, day).day = day
           /\ Request(to, day).end = "none" /\ Request(to, day).offers = <<>>
<1>1. 0 < Attempts[to]
  BY TransportAssumption
<1>2. <<>> \in Seq(Int)
  OBVIOUS
<1> QED
  BY <1>1, <1>2 DEF Request, SoundRequest, RequestPhases, Ends

NoneSent(call) == \A i \in DOMAIN call.requests : call.requests[i].phase = "waiting"

LEMMA NoWindowIs == NoWindow \in Windows
  BY DEF NoWindow, Windows

LEMMA OneIsSound ==
    ASSUME NEW tool \in ToolNames \ {"window"}, NEW to \in Providers, NEW day \in Int,
           NEW w \in Windows
    PROVE  Call(tool, w, <<Request(to, day)>>) \in SoundCall
           /\ NoneSent(Call(tool, w, <<Request(to, day)>>))
<1> DEFINE q == Request(to, day)
           s == <<q>>
           call == Call(tool, w, s)
<1>1. q \in SoundRequest /\ q.phase = "waiting"
  BY NewRequest
<1> HIDE DEF q
<1>2. s \in Seq(SoundRequest) /\ s # <<>> /\ Len(s) = 1 /\ DOMAIN s = {1} /\ s[1] = q
  BY <1>1
<1> HIDE DEF s
<1>3. /\ call \in [tool : ToolNames, window : Windows, requests : Seq(SoundRequest),
                   text : Marks \cup {"none"}]
      /\ call.tool = tool /\ call.requests = s /\ call.text = "none"
  BY <1>2 DEF Call
<1> HIDE DEF call
<1>4. call \in SoundCall
  BY <1>2, <1>3 DEF SoundCall
<1>5. NoneSent(call)
  BY <1>1, <1>2, <1>3 DEF NoneSent
<1> QED
  BY <1>4, <1>5 DEF call, s, q

LEMMA AtOnceIsSound ==
    ASSUME NEW tool \in ToolNames \ {"search"}, NEW call \in AtOnce(tool)
    PROVE  call \in SoundCall /\ NoneSent(call)
<1>1. <<>> \in Seq(SoundRequest) /\ DOMAIN <<>> = {}
  OBVIOUS
<1>2. /\ call \in [tool : ToolNames, window : Windows, requests : Seq(SoundRequest),
                   text : Marks \cup {"none"}]
      /\ call.tool = tool /\ call.requests = <<>> /\ call.text = "neutral"
  BY <1>1, NoWindowIs DEF AtOnce, Call, Marks
<1>3. call \in SoundCall
  BY <1>1, <1>2 DEF SoundCall
<1>4. NoneSent(call)
  BY <1>1, <1>2 DEF NoneSent
<1> QED
  BY <1>3, <1>4

LEMMA WindowCallIsSound ==
    ASSUME NEW w \in Asked, NEW call \in WindowCall(w)
    PROVE  call \in SoundCall /\ NoneSent(call)
<1>1. "window" \in ToolNames \ {"search"} /\ w \in Windows
  BY ToolsAre, TransportAssumption
<1>2. CASE ~(WindowIsValid(w) /\ TotalPairs(w) > 0)
  BY <1>1, <1>2, AtOnceIsSound DEF WindowCall
<1>3. CASE WindowIsValid(w) /\ TotalPairs(w) > 0
  <2> DEFINE D == Departures(TotalPairs(w), Limit(w))
             days == Ascending(D)
             s == [i \in DOMAIN days |-> Request("duffel", days[i])]
  <2>1. D \subseteq Int /\ IsFiniteSet(D) /\ D # {}
    BY <1>1, <1>3, DeparturesFit
  <2>2. call = Call("window", w, s)
    BY <1>3 DEF WindowCall
  <2> HIDE DEF D
  <2>3. Cardinality(D) \in Nat /\ days \in Seq(D) /\ DOMAIN days = 1..Cardinality(D)
        /\ Len(days) = Cardinality(D)
    BY <2>1, AscendingSorts
  <2>4. Cardinality(D) # 0
    BY <2>1, FS_EmptySet
  <2> HIDE DEF days
  <2>5. \A i \in DOMAIN days : s[i] = Request("duffel", days[i])
    OBVIOUS
  <2>6. DOMAIN s = 1..Cardinality(D)
    BY <2>3
  <2>7. \A i \in DOMAIN days :
          s[i] \in SoundRequest /\ s[i].phase = "waiting" /\ s[i].day = days[i]
    <3> TAKE i \in DOMAIN days
    <3>1. days[i] \in D
      BY <2>3
    <3>2. days[i] \in Int /\ "duffel" \in Providers
      BY <2>1, <3>1 DEF Providers
    <3> QED
      BY <2>5, <3>2, NewRequest
  <2>8. s \in Seq(SoundRequest) /\ Len(s) = Cardinality(D)
    <3>1. s \in [1..Cardinality(D) -> SoundRequest]
      BY <2>3, <2>7
    <3> HIDE DEF s
    <3> QED
      BY <2>3, <3>1
  <2> HIDE DEF s
  <2>9. s # <<>>
    BY <2>3, <2>4, <2>8
  <2>10. SearchesSample(w, s)
    BY <1>3, <2>3, <2>7, <2>8 DEF SearchesSample, D, days
  <2>11. /\ call \in [tool : ToolNames, window : Windows, requests : Seq(SoundRequest),
                      text : Marks \cup {"none"}]
         /\ call.tool = "window" /\ call.window = w /\ call.requests = s /\ call.text = "none"
    BY <1>1, <2>2, <2>8 DEF Call
  <2>12. call \in SoundCall
    BY <2>9, <2>10, <2>11 DEF SoundCall
  <2> QED
    BY <2>3, <2>6, <2>7, <2>11, <2>12 DEF NoneSent
<1> QED
  BY <1>2, <1>3

LEMMA MonthCallIsSound ==
    ASSUME NEW n \in 0..MonthDays, NEW call \in MonthCall(n)
    PROVE  call \in SoundCall /\ NoneSent(call)
<1>1. "month" \in ToolNames \ {"search", "window"} /\ "duffel" \in Providers /\ n \in Int
  BY ToolsAre, TransportAssumption DEF Providers
<1>2. CASE n = 0
  BY <1>1, <1>2, AtOnceIsSound DEF MonthCall
<1>3. CASE n # 0
  <2> DEFINE w == [NoWindow EXCEPT !.asked = n]
  <2>1. call = Call("month", w, <<Request("duffel", 1)>>)
    BY <1>3 DEF MonthCall
  <2>2. w \in Windows
    BY <1>1, NoWindowIs DEF Windows
  <2> HIDE DEF w
  <2> QED
    BY <1>1, <2>1, <2>2, OneIsSound
<1> QED
  BY <1>2, <1>3

\* Whatever a model asks for starts as a sound call that has sent nothing.
LEMMA StartedIsSound ==
    ASSUME NEW tool \in ToolNames, NEW call \in Started(tool)
    PROVE  call \in SoundCall /\ NoneSent(call)
<1>1. ASSUME NEW to \in Providers, call \in One(tool, to), tool # "window"
      PROVE  call \in SoundCall /\ NoneSent(call)
  BY <1>1, NoWindowIs, OneIsSound DEF One
<1>2. ASSUME call \in AtOnce(tool), tool # "search"
      PROVE  call \in SoundCall /\ NoneSent(call)
  BY <1>2, AtOnceIsSound
<1>3. CASE tool = "window"
  <2>1. \E w \in Asked : call \in WindowCall(w)
    BY <1>3 DEF Started
  <2> QED
    BY <2>1, WindowCallIsSound
<1>4. CASE tool = "month"
  <2>1. \E n \in 0..MonthDays : call \in MonthCall(n)
    BY <1>4 DEF Started
  <2> QED
    BY <2>1, MonthCallIsSound
<1>5. Providers = {"duffel", "hotelbeds", "rates", "maps"}
  BY DEF Providers
<1>6. CASE tool = "search"
  BY <1>1, <1>5, <1>6 DEF Started, SearchFlights
<1>7. CASE tool = "cheapest"
  BY <1>1, <1>5, <1>7 DEF Started, GetCheapestFlight
<1>8. CASE tool = "confirm"
  BY <1>1, <1>5, <1>8 DEF Started, ConfirmFlightPrice
<1>9. CASE tool = "airports"
  BY <1>1, <1>5, <1>9 DEF Started, SearchNearbyAirports
<1>10. CASE tool = "lookup"
  BY <1>2, <1>10 DEF Started, LookupIataCode
<1>11. CASE tool = "hotels"
  BY <1>1, <1>5, <1>11 DEF Started, SearchHotels
<1>12. CASE tool = "rates"
  BY <1>1, <1>5, <1>12 DEF Started, CheckHotelRate
<1>13. CASE tool = "places"
  BY <1>1, <1>5, <1>13 DEF Started, SearchPlacesText
<1>14. CASE tool = "nearby"
  BY <1>1, <1>2, <1>5, <1>14 DEF Started, SearchPlacesNearby
<1>15. CASE tool = "events"
  BY <1>2, <1>15 DEF Started, SearchDatedEvents
<1>16. CASE tool = "route"
  BY <1>1, <1>2, <1>5, <1>16 DEF Started, ComputeRoute
<1> QED
  BY <1>3, <1>4, <1>6, <1>7, <1>8, <1>9, <1>10, <1>11, <1>12, <1>13, <1>14, <1>15, <1>16,
     ToolsAre

-----------------------------------------------------------------------------
(* What a step of a call leaves.                                            *)

CallsAreSound == calls \in [Runs -> Seq(SoundCall)]

Replaces(r, c, call) == calls' = [calls EXCEPT ![r] = [calls[r] EXCEPT ![c] = call]]

\* A call is replaced and nothing else.
LEMMA CallUpdate ==
    ASSUME NEW r \in Runs, NEW c, NEW call \in SoundCall, CallsAreSound, c \in DOMAIN calls[r],
           Replaces(r, c, call)
    PROVE  /\ CallsAreSound'
           /\ \A s \in Runs : DOMAIN calls'[s] = DOMAIN calls[s]
           /\ calls'[r][c] = call
           /\ \A s \in Runs : \A b \in DOMAIN calls[s] :
                s # r \/ b # c => calls'[s][b] = calls[s][b]
<1> DEFINE l == [calls[r] EXCEPT ![c] = call]
<1>1. calls[r] \in Seq(SoundCall) /\ calls \in [Runs -> Seq(SoundCall)]
  BY DEF CallsAreSound
<1>2. /\ l \in Seq(SoundCall) /\ DOMAIN l = DOMAIN calls[r] /\ l[c] = call
      /\ \A b \in DOMAIN calls[r] : b # c => l[b] = calls[r][b]
  BY <1>1
<1>3. calls' = [calls EXCEPT ![r] = l]
  BY DEF Replaces
<1> HIDE DEF l
<1>4. calls' \in [Runs -> Seq(SoundCall)] /\ calls'[r] = l
      /\ \A s \in Runs \ {r} : calls'[s] = calls[s]
  BY <1>1, <1>2, <1>3
<1> QED
  BY <1>2, <1>4 DEF CallsAreSound

\* What is held after a call was replaced, by its requests.
LEMMA HeldAfter ==
    ASSUME NEW r \in Runs, NEW c, NEW call \in SoundCall, CallsAreSound, c \in DOMAIN calls[r],
           NEW slots \in SUBSET Slots, Held \subseteq slots,
           Replaces(r, c, call),
           \A i \in DOMAIN call.requests :
              IsOut(call.requests[i]) =>
                \/ i \in DOMAIN Requests(r, c) /\ IsOut(Requests(r, c)[i])
                \/ <<r, c, i>> \in slots
    PROVE  Held' \subseteq slots
<1>1. /\ CallsAreSound'
      /\ \A s \in Runs : DOMAIN calls'[s] = DOMAIN calls[s]
      /\ calls'[r][c] = call
      /\ \A s \in Runs : \A b \in DOMAIN calls[s] :
           s # r \/ b # c => calls'[s][b] = calls[s][b]
  BY CallUpdate
<1>2. ASSUME NEW s \in Runs, NEW b \in 1..2, NEW i \in Positions, <<s, b, i>> \in Held'
      PROVE  <<s, b, i>> \in slots
  <2>1. /\ b \in DOMAIN calls'[s] /\ i \in DOMAIN calls'[s][b].requests
        /\ IsOut(calls'[s][b].requests[i]) /\ <<s, b, i>> \in Slots
    BY <1>2 DEF Held, IsSent, Requests, Slots
  <2>2. CASE s # r \/ b # c
    <3>1. calls'[s][b] = calls[s][b] /\ b \in DOMAIN calls[s]
      BY <1>1, <2>1, <2>2
    <3>2. <<s, b, i>> \in Held
      BY <2>1, <3>1 DEF Held, IsSent, Requests
    <3> QED
      BY <3>2
  <2>3. CASE s = r /\ b = c
    <3>1. i \in DOMAIN call.requests /\ IsOut(call.requests[i])
      BY <1>1, <2>1, <2>3
    <3>2. CASE i \in DOMAIN Requests(r, c) /\ IsOut(Requests(r, c)[i])
      <4>1. <<r, c, i>> \in Held
        BY <2>1, <2>3, <3>2 DEF Held, IsSent
      <4> QED
        BY <2>3, <4>1
    <3> QED
      BY <2>3, <3>1, <3>2
  <2> QED
    BY <2>2, <2>3
<1>3. Held' \subseteq Slots
  BY DEF Held, Slots
<1>4. \A slot \in Slots : \E s \in Runs, b \in 1..2, i \in Positions : slot = <<s, b, i>>
  BY DEF Slots
<1> QED
  BY <1>2, <1>3, <1>4

LEMMA SlotsAreFinite == IsFiniteSet(Slots)
<1>1. IsFiniteSet(1..2) /\ IsFiniteSet(Positions) /\ IsFiniteSet(Runs)
  <2>1. 1 \in Int /\ 2 \in Int /\ PairLimit \in Int /\ MonthDays \in Int
    BY PairLimitAssumption, TransportAssumption
  <2>2. /\ IsFiniteSet(1..2) /\ IsFiniteSet(1..PairLimit) /\ IsFiniteSet(1..MonthDays)
        /\ IsFiniteSet(Runs)
    BY <2>1, FS_Interval, TransportAssumption, Zenon
  <2>3. IsFiniteSet((1..PairLimit) \cup (1..MonthDays))
    BY <2>2, FS_Union
  <2> QED
    BY <2>2, <2>3, FS_Union DEF Positions
<1>2. IsFiniteSet((1..2) \X Positions) /\ IsFiniteSet(Runs \X (1..2))
  BY <1>1, FS_Product
<1> DEFINE A == Runs \X ((1..2) \X Positions)
           f == [a \in A |-> <<a[1], a[2][1], a[2][2]>>]
<1>3. IsFiniteSet(A)
  BY <1>1, <1>2, FS_Product
<1>4. f \in Surjection(A, Slots)
  <2>1. f \in [A -> Slots]
    BY DEF Slots
  <2>2. ASSUME NEW slot \in Slots PROVE \E a \in A : f[a] = slot
    <3>1. PICK s \in Runs, b \in 1..2, i \in Positions : slot = <<s, b, i>>
      BY DEF Slots
    <3>2. <<s, <<b, i>>>> \in A /\ f[<<s, <<b, i>>>>] = slot
      BY <3>1
    <3> QED
      BY <3>2
  <2> QED
    BY <2>1, <2>2 DEF Surjection
<1> QED
  BY <1>3, <1>4, FS_Surjection

LEMMA FewerAreHeld ==
    ASSUME PermitsAreKept, Held' \subseteq Held
    PROVE  Cardinality(Held') <= Permits
<1>1. IsFiniteSet(Held)
  BY SlotsAreFinite, FS_Subset DEF Held
<1>2. Cardinality(Held') <= Cardinality(Held) /\ IsFiniteSet(Held')
  BY <1>1, FS_Subset
<1>3. Cardinality(Held) \in Nat /\ Cardinality(Held') \in Nat
  BY <1>1, <1>2, FS_CardinalityType
<1> QED
  BY <1>2, <1>3, TransportAssumption DEF PermitsAreKept

-----------------------------------------------------------------------------
(* Every step of a call keeps calls sound and permits.                      *)

LEMMA CallsAre ==
    ASSUME NEW r \in Runs, NEW c, CallsAreSound, c \in DOMAIN calls[r]
    PROVE  /\ calls[r][c] \in SoundCall /\ calls[r] \in Seq(SoundCall)
           /\ Requests(r, c) \in Seq(SoundRequest)
           /\ Requests(r, c) = calls[r][c].requests
<1>1. calls[r] \in Seq(SoundCall)
  BY DEF CallsAreSound
<1>2. calls[r][c] \in SoundCall
  BY <1>1
<1>3. calls[r][c].requests \in Seq(SoundRequest)
  BY <1>2 DEF SoundCall
<1> QED
  BY <1>1, <1>2, <1>3 DEF Requests

\* A request step puts a sound request in the place of one that has not ended,
\* and takes a permit only if one is free.
LEMMA RequestIsPut ==
    ASSUME NEW r \in Runs, NEW c, NEW i, CallsAreSound, c \in DOMAIN calls[r],
           i \in DOMAIN Requests(r, c), RequestStep(r, c, i)
    PROVE  \E q \in SoundRequest :
             /\ Put(r, c, i, q) /\ q.day = Requests(r, c)[i].day
             /\ Requests(r, c)[i].phase # "ended"
             /\ IsOut(q) => Cardinality(Held) < Permits
<1> DEFINE old == Requests(r, c)[i]
           Shape == [to : Providers, day : Int, phase : RequestPhases, tries : Nat,
                     end : Ends, offers : Seq(Int)]
<1>1. old \in SoundRequest
  BY CallsAre
<1>2. /\ old \in Shape /\ old.tries < Attempts[old.to] /\ old.to \in Providers
      /\ old.end = "none" <=> old.phase # "ended"
      /\ old.offers # <<>> => old.end = "answer"
  BY <1>1 DEF SoundRequest
<1>3. old.phase # "ended" => old.offers = <<>> /\ old.end = "none"
  BY <1>2
<1>4. 0 < Attempts[old.to]
  BY <1>2, TransportAssumption
<1>5. /\ \A p \in {"waiting", "posted", "asleep", "ended"} : p \in RequestPhases
      /\ \A e \in {"none", "answer", "spent"} \cup Failures : e \in Ends
  BY DEF RequestPhases, Ends
<1>o. old = Requests(r, c)[i]
  OBVIOUS
<1> HIDE DEF old
<1>6. CASE Post(r, c, i)
  <2> DEFINE q == [old EXCEPT !.phase = "posted"]
  <2>1. old.phase = "waiting" /\ (old.to = "duffel" => Cardinality(Held) < Permits)
        /\ Put(r, c, i, q)
    BY <1>6, <1>o DEF Post
  <2>2. /\ q \in Shape /\ q.tries = old.tries /\ q.to = old.to /\ q.end = old.end
        /\ q.phase = "posted" /\ q.offers = old.offers /\ q.day = old.day
    BY <1>2, <1>5
  <2> HIDE DEF q
  <2>3. q \in SoundRequest
    BY <1>2, <1>3, <2>1, <2>2 DEF SoundRequest
  <2> QED
    BY <1>o, <2>1, <2>2, <2>3 DEF IsOut
<1>7. CASE Answer(r, c, i)
  <2>1. PICK offers \in Answers[old.to] :
          Put(r, c, i, [old EXCEPT !.phase = "ended", !.tries = 0, !.end = "answer",
                                   !.offers = offers])
    BY <1>7, <1>o DEF Answer
  <2> DEFINE q == [old EXCEPT !.phase = "ended", !.tries = 0, !.end = "answer",
                              !.offers = offers]
  <2>2. offers \in Seq(Int)
    BY <1>2, <2>1, TransportAssumption
  <2>3. /\ q \in Shape /\ q.tries = 0 /\ q.to = old.to /\ q.end = "answer"
        /\ q.phase = "ended" /\ q.day = old.day
    BY <1>2, <1>5, <2>2
  <2>4. Put(r, c, i, q) /\ old.phase = "posted"
    BY <1>7, <1>o, <2>1 DEF Answer
  <2> HIDE DEF q
  <2>5. q \in SoundRequest
    BY <1>4, <2>3 DEF SoundRequest
  <2> QED
    BY <1>o, <2>3, <2>4, <2>5 DEF IsOut
<1>8. CASE Fail(r, c, i)
  <2>1. PICK f \in Failures :
          Put(r, c, i, [old EXCEPT !.phase = "ended", !.tries = 0, !.end = f])
    BY <1>8, <1>o DEF Fail
  <2> DEFINE q == [old EXCEPT !.phase = "ended", !.tries = 0, !.end = f]
  <2>2. f \in Ends /\ f # "none"
    BY <1>5 DEF Failures
  <2>3. /\ q \in Shape /\ q.tries = 0 /\ q.to = old.to /\ q.end = f
        /\ q.phase = "ended" /\ q.day = old.day /\ q.offers = old.offers
    BY <1>2, <1>5, <2>2
  <2>4. Put(r, c, i, q) /\ old.phase = "posted"
    BY <1>8, <1>o, <2>1 DEF Fail
  <2> HIDE DEF q
  <2>5. q \in SoundRequest
    BY <1>3, <1>4, <2>2, <2>3, <2>4 DEF SoundRequest
  <2> QED
    BY <1>o, <2>3, <2>4, <2>5 DEF IsOut
<1>9. CASE Retry(r, c, i)
  <2>1. old.phase = "posted"
    BY <1>9, <1>o DEF Retry
  <2>2. CASE old.tries + 1 < Attempts[old.to]
    <3> DEFINE n == old.tries + 1
               q == [old EXCEPT !.phase = "asleep", !.tries = n]
    <3>1. Put(r, c, i, q)
      BY <1>9, <1>o, <2>2 DEF Retry
    <3>2. n \in Nat /\ n < Attempts[old.to]
      BY <1>2, <2>2
    <3> HIDE DEF n
    <3>3. /\ q \in Shape /\ q.tries = n /\ q.to = old.to /\ q.end = old.end
          /\ q.phase = "asleep" /\ q.day = old.day /\ q.offers = old.offers
      BY <1>2, <1>5, <3>2
    <3> HIDE DEF q
    <3>4. q \in SoundRequest
      BY <1>3, <2>1, <3>2, <3>3 DEF SoundRequest
    <3> QED
      BY <1>o, <2>1, <3>1, <3>3, <3>4 DEF IsOut
  <2>3. CASE ~(old.tries + 1 < Attempts[old.to])
    <3> DEFINE q == [old EXCEPT !.phase = "ended", !.tries = 0, !.end = "spent"]
    <3>1. Put(r, c, i, q)
      BY <1>9, <1>o, <2>3 DEF Retry
    <3>2. /\ q \in Shape /\ q.tries = 0 /\ q.to = old.to /\ q.end = "spent"
          /\ q.phase = "ended" /\ q.day = old.day /\ q.offers = old.offers
      BY <1>2, <1>5
    <3> HIDE DEF q
    <3>3. q \in SoundRequest
      BY <1>3, <1>4, <2>1, <3>2 DEF SoundRequest
    <3> QED
      BY <1>o, <2>1, <3>1, <3>2, <3>3 DEF IsOut
  <2> QED
    BY <2>2, <2>3
<1>10. CASE Wake(r, c, i)
  <2> DEFINE q == [old EXCEPT !.phase = "waiting"]
  <2>1. old.phase = "asleep" /\ Put(r, c, i, q)
    BY <1>10, <1>o DEF Wake
  <2>2. /\ q \in Shape /\ q.tries = old.tries /\ q.to = old.to /\ q.end = old.end
        /\ q.phase = "waiting" /\ q.offers = old.offers /\ q.day = old.day
    BY <1>2, <1>5
  <2> HIDE DEF q
  <2>3. q \in SoundRequest
    BY <1>2, <1>3, <2>1, <2>2 DEF SoundRequest
  <2> QED
    BY <1>o, <2>1, <2>2, <2>3 DEF IsOut
<1> QED
  BY <1>6, <1>7, <1>8, <1>9, <1>10 DEF RequestStep

LEMMA RequestStepKeeps ==
    ASSUME NEW r \in Runs, NEW c, NEW i, CallsAreSound, PermitsAreKept, c \in DOMAIN calls[r],
           i \in DOMAIN Requests(r, c), RequestStep(r, c, i)
    PROVE  CallsAreSound' /\ Cardinality(Held') <= Permits
<1> DEFINE call == calls[r][c]
           requests == Requests(r, c)
<1>1. PICK q \in SoundRequest :
        /\ Put(r, c, i, q) /\ q.day = requests[i].day
        /\ requests[i].phase # "ended"
        /\ IsOut(q) => Cardinality(Held) < Permits
  BY RequestIsPut
<1> DEFINE s == [requests EXCEPT ![i] = q]
           new == [call EXCEPT !.requests = s]
<1>2. call \in SoundCall /\ requests \in Seq(SoundRequest) /\ requests = call.requests
  BY CallsAre
<1>3. /\ s \in Seq(SoundRequest) /\ Len(s) = Len(requests) /\ DOMAIN s = DOMAIN requests
      /\ s[i] = q /\ (\A j \in DOMAIN requests : j # i => s[j] = requests[j])
      /\ \A j \in DOMAIN requests : s[j].day = requests[j].day
  BY <1>1, <1>2
<1>4. calls' = [calls EXCEPT ![r] = [calls[r] EXCEPT ![c] = new]]
  BY <1>1, <1>2 DEF Put
<1>5. call.text = "none"
  BY <1>1, <1>2 DEF SoundCall, Ended
<1>6. requests # <<>> /\ s # <<>>
  BY <1>2, <1>3
<1>7. /\ new.requests = s /\ new.text = "none" /\ new.tool = call.tool
      /\ new.window = call.window
      /\ new \in [tool : ToolNames, window : Windows, requests : Seq(SoundRequest),
                  text : Marks \cup {"none"}]
  <2> HIDE DEF s, requests
  <2> QED
    BY <1>2, <1>3, <1>5 DEF SoundCall
<1> HIDE DEF new, s, call, requests
<1>8. new \in SoundCall
  <2>1. new.tool = "window" => SearchesSample(new.window, new.requests)
    <3> SUFFICES ASSUME new.tool = "window" PROVE SearchesSample(new.window, s)
      BY <1>7
    <3>1. SearchesSample(call.window, requests)
      BY <1>2, <1>6, <1>7 DEF SoundCall
    <3> DEFINE days == Ascending(Departures(TotalPairs(call.window), Limit(call.window)))
    <3>2. /\ Len(requests) = Len(days) /\ call.window \in Asked /\ WindowIsValid(call.window)
          /\ TotalPairs(call.window) > 0
          /\ \A j \in DOMAIN days : requests[j].day = days[j]
      BY <3>1 DEF SearchesSample
    <3>3. days \in Seq(Departures(TotalPairs(call.window), Limit(call.window)))
      <4>1. call.window \in Windows
        BY <1>2 DEF SoundCall
      <4> QED
        BY <4>1, <3>2, DeparturesFit, AscendingSorts
    <3> HIDE DEF days
    <3>4. DOMAIN days = DOMAIN requests
      BY <1>2, <3>2, <3>3
    <3> QED
      BY <1>3, <1>7, <3>2, <3>4 DEF SearchesSample, days
  <2>2. new.tool = "search" => Len(new.requests) = 1
    BY <1>2, <1>3, <1>7 DEF SoundCall
  <2> QED
    BY <1>6, <1>7, <2>1, <2>2 DEF SoundCall
<1>9. Replaces(r, c, new)
  BY <1>4 DEF Replaces
<1>10. CallsAreSound'
  BY <1>8, <1>9, CallUpdate
<1>11. Cardinality(Held') <= Permits
  <2>1. CASE ~IsOut(q)
    <3>1. \A j \in DOMAIN new.requests : IsOut(new.requests[j]) =>
             j \in DOMAIN Requests(r, c) /\ IsOut(Requests(r, c)[j])
      BY <1>3, <1>7, <2>1 DEF requests
    <3>2. Held' \subseteq Held
      <4>1. Held \in SUBSET Slots
        BY DEF Held
      <4> QED
        BY <1>8, <1>9, <3>1, <4>1, HeldAfter
    <3> QED
      BY <3>2, FewerAreHeld
  <2>2. CASE IsOut(q)
    <3>1. Cardinality(Held) < Permits
      BY <1>1, <2>2
    <3>2. IsFiniteSet(Held) /\ Held \in SUBSET Slots
      BY SlotsAreFinite, FS_Subset DEF Held
    <3> DEFINE more == (Held \cup {<<r, c, i>>}) \cap Slots
    <3>3. IsFiniteSet(Held \cup {<<r, c, i>>}) /\
          Cardinality(Held \cup {<<r, c, i>>}) <= Cardinality(Held) + 1
      <4>1. Cardinality(Held) \in Nat
        BY <3>2, FS_CardinalityType
      <4>2. /\ IsFiniteSet(Held \cup {<<r, c, i>>})
            /\ \/ Cardinality(Held \cup {<<r, c, i>>}) = Cardinality(Held)
               \/ Cardinality(Held \cup {<<r, c, i>>}) = Cardinality(Held) + 1
        BY <3>2, FS_AddElement
      <4> QED
        BY <4>1, <4>2
    <3>4. Held' \subseteq Held \cup {<<r, c, i>>}
      <4>1. CASE <<r, c, i>> \in Slots
        <5>1. Held \cup {<<r, c, i>>} \in SUBSET Slots
          BY <3>2, <4>1
        <5>2. \A j \in DOMAIN new.requests : IsOut(new.requests[j]) =>
                 \/ j \in DOMAIN Requests(r, c) /\ IsOut(Requests(r, c)[j])
                 \/ <<r, c, j>> \in Held \cup {<<r, c, i>>}
          BY <1>3, <1>7 DEF requests
        <5> QED
          BY <1>8, <1>9, <5>1, <5>2, HeldAfter
      <4>2. CASE <<r, c, i>> \notin Slots
        <5>1. /\ \A s0 \in Runs : DOMAIN calls'[s0] = DOMAIN calls[s0]
              /\ calls'[r][c] = new
              /\ \A s0 \in Runs : \A b \in DOMAIN calls[s0] :
                   s0 # r \/ b # c => calls'[s0][b] = calls[s0][b]
          BY <1>8, <1>9, CallUpdate
        <5>2. ASSUME NEW slot \in Held' PROVE slot \in Held
          <6>1. PICK s0 \in Runs, b \in 1..2, k \in Positions : slot = <<s0, b, k>>
            BY DEF Held, Slots
          <6>2. /\ b \in DOMAIN calls'[s0] /\ k \in DOMAIN calls'[s0][b].requests
                /\ IsOut(calls'[s0][b].requests[k]) /\ <<s0, b, k>> \in Slots
            BY <5>2, <6>1 DEF Held, IsSent, Requests
          <6>3. CASE s0 # r \/ b # c
            BY <5>1, <6>1, <6>2, <6>3 DEF Held, IsSent, Requests
          <6>4. CASE s0 = r /\ b = c
            <7>1. k # i /\ k \in DOMAIN requests /\ IsOut(requests[k])
              BY <1>3, <1>7, <4>2, <5>1, <6>2, <6>4
            <7> QED
              BY <6>1, <6>2, <6>4, <7>1, <5>1 DEF Held, IsSent, requests
          <6> QED
            BY <6>3, <6>4
        <5> QED
          BY <5>2
      <4> QED
        BY <4>1, <4>2
    <3>5. IsFiniteSet(Held') /\ Cardinality(Held') <= Cardinality(Held \cup {<<r, c, i>>})
      BY <3>3, <3>4, FS_Subset
    <3>6. Cardinality(Held) \in Nat /\ Cardinality(Held') \in Nat
          /\ Cardinality(Held \cup {<<r, c, i>>}) \in Nat
      BY <3>2, <3>3, <3>5, FS_CardinalityType
    <3> QED
      BY <3>1, <3>3, <3>5, <3>6, TransportAssumption
  <2> QED
    BY <2>1, <2>2
<1> QED
  BY <1>10, <1>11

\* The text of a call says what its requests brought.
LEMMA TextsAreTrue ==
    ASSUME NEW call \in SoundCall, call.text = "none",
           \A q \in Range(call.requests) : Ended(q), NEW t \in Texts(call)
    PROVE  /\ t \in Marks
           /\ t = "external" => \E i \in DOMAIN call.requests : Failed(call.requests[i])
           /\ call.tool \in {"search", "window"} /\ t = "found" =>
                \E i \in DOMAIN call.requests : Found(call.requests[i])
<1> DEFINE all == call.requests
           last == all[Len(all)]
<1>1. all \in Seq(SoundRequest) /\ all # <<>>
  BY DEF SoundCall
<1>2. Len(all) \in DOMAIN all /\ last \in SoundRequest /\ last \in Range(all)
  BY <1>1 DEF Range
<1>3. last.end # "none"
  BY <1>2 DEF Ended, SoundRequest
<1>t. /\ t \in {"found", "neutral", "nothing", "external"} => t \in Marks
      /\ "found" # "external" /\ "neutral" # "external" /\ "nothing" # "external"
  BY DEF Marks
<1>r. Range(all) = {all[i] : i \in DOMAIN all}
  BY DEF Range
<1>a. all = call.requests /\ last = all[Len(all)]
  OBVIOUS
<1> HIDE DEF all, last
<1>4. CASE call.tool = "window"
  <2>1. \/ (\E q \in Range(all) : Found(q)) /\ t = "found"
        \/ t \in {"neutral", "nothing"}
    BY <1>4, <1>a DEF Texts
  <2> QED
    BY <1>t, <1>r, <1>a, <2>1
<1>5. CASE call.tool = "month"
  <2>1. t \in {"found", "nothing"}
    BY <1>5, <1>a DEF Texts
  <2> QED
    BY <1>5, <1>t, <2>1
<1>6. CASE call.tool \notin {"window", "month"}
  <2>1. CASE last.end # "answer"
    <3>1. t \in FailureTexts(call, last)
      BY <1>6, <2>1, <1>a DEF Texts
    <3>2. t \in {"neutral", "external"}
      BY <3>1 DEF FailureTexts
    <3>3. Failed(last)
      BY <1>3, <2>1 DEF Failed
    <3> QED
      BY <1>2, <1>t, <1>a, <3>2, <3>3
  <2>2. CASE last.end = "answer"
    <3>1. \/ last.offers # <<>> /\ t = "found"
          \/ t \in {"neutral", "nothing"}
      BY <1>6, <2>2, <1>a DEF Texts, Nothing
    <3>2. t = "found" => Found(last)
      BY <2>2, <3>1 DEF Found
    <3> QED
      BY <1>2, <1>t, <1>a, <3>1, <3>2
  <2> QED
    BY <2>1, <2>2
<1> QED
  BY <1>4, <1>5, <1>6

LEMMA SendKeeps ==
    ASSUME NEW r \in Runs, NEW c, CallsAreSound, PermitsAreKept, c \in DOMAIN calls[r],
           Send(r, c)
    PROVE  CallsAreSound' /\ Cardinality(Held') <= Permits
<1> DEFINE call == calls[r][c]
           requests == Requests(r, c)
<1>1. call \in SoundCall /\ requests \in Seq(SoundRequest) /\ requests = call.requests
  BY CallsAre
<1>2. PICK q \in Following(call) : calls' = [calls EXCEPT ![r][c].requests = Append(@, q)]
  BY DEF Send
<1>3. call.text = "none"
  BY DEF Send
<1>4. call.tool \in {"month", "confirm"} /\ \E day \in Int : q = Request("duffel", day)
  <2>1. Len(requests) \in Int
    BY <1>1
  <2> QED
    BY <1>1, <1>2, <2>1 DEF Following
<1>5. q \in SoundRequest /\ q.phase = "waiting"
  BY <1>4, NewRequest DEF Providers
<1> DEFINE s == Append(requests, q)
           new == [call EXCEPT !.requests = s]
<1>6. calls' = [calls EXCEPT ![r] = [calls[r] EXCEPT ![c] = new]]
  BY <1>1, <1>2
<1>7. /\ s \in Seq(SoundRequest) /\ s # <<>> /\ Len(s) = Len(requests) + 1
      /\ \A j \in DOMAIN s : s[j] = q \/ (j \in DOMAIN requests /\ s[j] = requests[j])
  BY <1>1, <1>5
<1>8. /\ new.requests = s /\ new.text = "none" /\ new.tool = call.tool
      /\ new \in [tool : ToolNames, window : Windows, requests : Seq(SoundRequest),
                  text : Marks \cup {"none"}]
  <2> HIDE DEF s, requests
  <2> QED
    BY <1>1, <1>3, <1>7 DEF SoundCall
<1> HIDE DEF new, s, call, requests
<1>9. new \in SoundCall
  BY <1>4, <1>7, <1>8 DEF SoundCall
<1>10. Replaces(r, c, new)
  BY <1>6 DEF Replaces
<1>11. CallsAreSound'
  BY <1>9, <1>10, CallUpdate
<1>12. \A j \in DOMAIN new.requests : IsOut(new.requests[j]) =>
         j \in DOMAIN Requests(r, c) /\ IsOut(Requests(r, c)[j])
  BY <1>5, <1>7, <1>8 DEF requests, IsOut
<1>13. Held' \subseteq Held
  <2>1. Held \in SUBSET Slots
    BY DEF Held
  <2> QED
    BY <1>9, <1>10, <1>12, <2>1, HeldAfter
<1> QED
  BY <1>11, <1>13, FewerAreHeld

LEMMA ReportKeeps ==
    ASSUME NEW r \in Runs, NEW c, CallsAreSound, PermitsAreKept, c \in DOMAIN calls[r],
           ReportText(r, c)
    PROVE  CallsAreSound' /\ Cardinality(Held') <= Permits
<1> DEFINE call == calls[r][c]
           requests == Requests(r, c)
<1>1. call \in SoundCall /\ requests \in Seq(SoundRequest) /\ requests = call.requests
  BY CallsAre
<1>2. call.text = "none" /\ \A q \in Range(call.requests) : Ended(q)
  BY DEF ReportText
<1>3. \A i \in DOMAIN requests : Ended(requests[i])
  BY <1>1, <1>2 DEF Range
<1>4. \E t \in Marks :
        /\ calls' = [calls EXCEPT ![r][c].text = t]
        /\ t = "external" => \E i \in DOMAIN requests : Failed(requests[i])
        /\ call.tool \in {"search", "window"} /\ t = "found" =>
             \E i \in DOMAIN requests : Found(requests[i])
  <2>1. CASE Following(call) = {}
    <3>1. PICK t \in Texts(call) : calls' = [calls EXCEPT ![r][c].text = t]
      BY <2>1 DEF ReportText
    <3> HIDE DEF call
    <3>2. /\ t \in Marks
          /\ t = "external" => \E i \in DOMAIN call.requests : Failed(call.requests[i])
          /\ call.tool \in {"search", "window"} /\ t = "found" =>
               \E i \in DOMAIN call.requests : Found(call.requests[i])
      BY <1>1, <1>2, TextsAreTrue
    <3> QED
      BY <1>1, <3>1, <3>2
  <2>2. CASE Following(call) # {}
    <3>1. calls' = [calls EXCEPT ![r][c].text = "neutral"]
      BY <2>2 DEF ReportText
    <3> QED
      BY <3>1 DEF Marks
  <2> QED
    BY <2>1, <2>2
<1>5. PICK t \in Marks :
        /\ calls' = [calls EXCEPT ![r][c].text = t]
        /\ t = "external" => \E i \in DOMAIN requests : Failed(requests[i])
        /\ call.tool \in {"search", "window"} /\ t = "found" =>
             \E i \in DOMAIN requests : Found(requests[i])
  BY <1>4
<1> DEFINE new == [call EXCEPT !.text = t]
<1>6. calls' = [calls EXCEPT ![r] = [calls[r] EXCEPT ![c] = new]]
  BY <1>5
<1>7. t # "none"
  BY DEF Marks
<1>8. /\ new.requests = requests /\ new.text = t /\ new.tool = call.tool
      /\ new.window = call.window
      /\ new \in [tool : ToolNames, window : Windows, requests : Seq(SoundRequest),
                  text : Marks \cup {"none"}]
  <2> HIDE DEF requests
  <2> QED
    BY <1>1 DEF SoundCall
<1> HIDE DEF new, call, requests
<1>9. new \in SoundCall
  <2>1. new.tool = "window" /\ new.requests # <<>> => SearchesSample(new.window, new.requests)
    BY <1>1, <1>8 DEF SoundCall
  <2>2. new.tool = "search" => Len(new.requests) = 1
    BY <1>1, <1>8 DEF SoundCall
  <2> QED
    BY <1>3, <1>5, <1>7, <1>8, <2>1, <2>2 DEF SoundCall
<1>10. Replaces(r, c, new)
  BY <1>6 DEF Replaces
<1>11. CallsAreSound'
  BY <1>9, <1>10, CallUpdate
<1>12. Held' \subseteq Held
  <2>1. Held \in SUBSET Slots
    BY DEF Held
  <2>2. \A j \in DOMAIN new.requests : IsOut(new.requests[j]) =>
           j \in DOMAIN Requests(r, c) /\ IsOut(Requests(r, c)[j])
    BY <1>8 DEF requests
  <2> QED
    BY <1>9, <1>10, <2>1, <2>2, HeldAfter
<1> QED
  BY <1>11, <1>12, FewerAreHeld

-----------------------------------------------------------------------------
(* Every step of an executor keeps the invariant.                           *)

LEMMA ActiveRuns == Active \subseteq Runs /\ Active # {}
  BY TransportAssumption DEF Active

\* The calls of a round begin or end: nothing of it is out.
LEMMA RoundKeeps ==
    ASSUME NEW r \in Runs, CallsAreSound, PermitsAreKept, NEW round \in Seq(SoundCall),
           \A c \in DOMAIN round : NoneSent(round[c]),
           calls' = [calls EXCEPT ![r] = round]
    PROVE  CallsAreSound' /\ Cardinality(Held') <= Permits
<1>1. /\ calls' \in [Runs -> Seq(SoundCall)] /\ calls'[r] = round
      /\ \A s \in Runs \ {r} : calls'[s] = calls[s]
  BY DEF CallsAreSound
<1>2. ASSUME NEW slot \in Held' PROVE slot \in Held
  <2>1. PICK s \in Runs, b \in 1..2, i \in Positions : slot = <<s, b, i>>
    BY DEF Held, Slots
  <2>2. /\ b \in DOMAIN calls'[s] /\ i \in DOMAIN calls'[s][b].requests
        /\ IsOut(calls'[s][b].requests[i]) /\ <<s, b, i>> \in Slots
    BY <1>2, <2>1 DEF Held, IsSent, Requests
  <2>3. s # r
    BY <1>1, <2>2 DEF NoneSent, IsOut
  <2> QED
    BY <1>1, <2>1, <2>2, <2>3 DEF Held, IsSent, Requests
<1> QED
  BY <1>1, <1>2, FewerAreHeld DEF CallsAreSound

LEMMA RunKeeps ==
    ASSUME StageInv, NEW r \in Active, NEW x \in SoundRun,
           runs[r].phase # "ended", runs' = [runs EXCEPT ![r] = x],
           UNCHANGED <<component, result>>,
           CallsAreSound', Cardinality(Held') <= Permits,
           x.phase = "thinking" => Cardinality(Thinking) < ModelPermits
    PROVE  StageInv'
<1>1. r \in Runs /\ runs \in [Runs -> SoundRun]
  BY ActiveRuns DEF StageInv
<1>2. SoundRun' = SoundRun
  BY DEF SoundRun, Structured
<1>3. /\ runs' \in [Runs -> SoundRun] /\ runs'[r] = x
      /\ \A s \in Runs \ {r} : runs'[s] = runs[s]
  BY <1>1
<1>4. ResultIsAggregated'
  <2>1. result = "none"
    BY DEF StageInv, ResultIsAggregated
  <2> QED
    BY <2>1 DEF ResultIsAggregated
<1>5. Cardinality(Thinking') <= ModelPermits
  <2>1. IsFiniteSet(Runs) /\ ModelPermits \in Nat
    BY TransportAssumption, ModelAssumption
  <2>2. IsFiniteSet(Thinking)
    BY <2>1, FS_Subset DEF Thinking
  <2>3. Cardinality(Thinking) \in Nat /\ Cardinality(Thinking) <= ModelPermits
    BY <2>2, FS_CardinalityType DEF StageInv, PermitsAreKept
  <2>4. CASE x.phase # "thinking"
    <3>1. Thinking' \subseteq Thinking
      BY <1>3, <2>4 DEF Thinking
    <3>2. Cardinality(Thinking') <= Cardinality(Thinking) /\ IsFiniteSet(Thinking')
      BY <2>2, <3>1, FS_Subset
    <3>3. Cardinality(Thinking') \in Nat
      BY <3>2, FS_CardinalityType
    <3> QED
      BY <2>1, <2>3, <3>2, <3>3
  <2>5. CASE x.phase = "thinking"
    <3>1. Thinking' \subseteq Thinking \cup {r}
      BY <1>3 DEF Thinking
    <3>2. /\ IsFiniteSet(Thinking \cup {r})
          /\ \/ Cardinality(Thinking \cup {r}) = Cardinality(Thinking)
             \/ Cardinality(Thinking \cup {r}) = Cardinality(Thinking) + 1
      BY <2>2, FS_AddElement
    <3>3. Cardinality(Thinking') <= Cardinality(Thinking \cup {r}) /\ IsFiniteSet(Thinking')
      BY <3>1, <3>2, FS_Subset
    <3>4. Cardinality(Thinking') \in Nat
      BY <3>3, FS_CardinalityType
    <3> QED
      BY <2>1, <2>3, <2>5, <3>2, <3>3, <3>4
  <2> QED
    BY <2>4, <2>5
<1> QED
  BY <1>2, <1>3, <1>4, <1>5 DEF StageInv, PermitsAreKept, CallsAreSound

RunShape ==
    [phase : Phases, round : 0..MaxRounds[component], heard : SUBSET Marks,
     places : {0, 1}, trouble : BOOLEAN, status : TaskStatuses \cup {"none"}]

LEMMA RunsAre ==
    ASSUME StageInv, NEW r \in Active
    PROVE  /\ r \in Runs /\ runs[r] \in SoundRun /\ runs[r] \in RunShape
           /\ runs \in [Runs -> SoundRun] /\ CallsAreSound /\ PermitsAreKept
           /\ Cardinality(Held) <= Permits
<1>1. r \in Runs /\ runs[r] \in SoundRun
  BY ActiveRuns DEF StageInv
<1> QED
  BY <1>1 DEF StageInv, SoundRun, RunShape, CallsAreSound, PermitsAreKept

\* An executor that only changes its phase.
LEMMA PhaseKeeps ==
    ASSUME StageInv, NEW r \in Active, NEW phase \in Phases \ {"ended", "acting"},
           runs[r].phase # "ended", runs' = [runs EXCEPT ![r].phase = phase],
           UNCHANGED <<calls, component, result>>,
           phase = "thinking" => Cardinality(Thinking) < ModelPermits
    PROVE  StageInv'
<1> DEFINE old == runs[r]
           x == [old EXCEPT !.phase = phase]
<1>1. /\ r \in Runs /\ old \in SoundRun /\ old \in RunShape /\ CallsAreSound
      /\ Cardinality(Held) <= Permits
  BY RunsAre
<1>2. runs' = [runs EXCEPT ![r] = x]
  OBVIOUS
<1>3. CallsAreSound' /\ Cardinality(Held') <= Permits
  BY <1>1 DEF CallsAreSound, Held, IsSent, Requests
<1>4. old.phase # "ended"
  OBVIOUS
<1> HIDE DEF old
<1>5. /\ x \in RunShape /\ x.phase = phase /\ x.round = old.round /\ x.heard = old.heard
      /\ x.places = old.places /\ x.trouble = old.trouble /\ x.status = old.status
  BY <1>1 DEF RunShape
<1> HIDE DEF x
<1>6. x \in SoundRun
  BY <1>1, <1>4, <1>5 DEF SoundRun, RunShape
<1> QED
  BY <1>2, <1>3, <1>4, <1>5, <1>6, RunKeeps DEF old

\* An executor that ends with a status that what it heard allows.
LEMMA EndKeeps ==
    ASSUME StageInv, NEW r \in Active, NEW s \in TaskStatuses, NEW trouble \in BOOLEAN,
           runs[r].phase # "ended",
           runs' = [runs EXCEPT ![r].phase = "ended", ![r].status = s,
                                ![r].trouble = trouble],
           UNCHANGED <<component, result>>,
           CallsAreSound', Cardinality(Held') <= Permits,
           runs[r].trouble => trouble, s = "external" => trouble,
           s = "completed" =>
             /\ runs[r].heard # {} /\ runs[r].heard \cap {"nothing", "external"} = {}
             /\ component \in Structured => runs[r].places > 0
    PROVE  StageInv'
<1> DEFINE old == runs[r]
           x == [old EXCEPT !.phase = "ended", !.status = s, !.trouble = trouble]
<1>1. r \in Runs /\ old \in SoundRun /\ old \in RunShape /\ runs \in [Runs -> SoundRun]
  BY RunsAre
<1>2. runs' = [runs EXCEPT ![r] = x]
  BY <1>1
<1>3. /\ old.phase # "ended" /\ (old.trouble => trouble)
      /\ s = "completed" =>
             /\ old.heard # {} /\ old.heard \cap {"nothing", "external"} = {}
             /\ component \in Structured => old.places > 0
  OBVIOUS
<1> HIDE DEF old
<1>4. /\ x.phase = "ended" /\ x.round = old.round /\ x.heard = old.heard
      /\ x.places = old.places /\ x.trouble = trouble /\ x.status = s
      /\ x \in RunShape
  BY <1>1 DEF RunShape, Phases
<1> HIDE DEF x
<1>5. s # "none"
  BY DEF TaskStatuses
<1>6. "external" \in old.heard \/ s = "external" => trouble = TRUE
  <2>1. "external" \in old.heard => old.trouble = TRUE
    BY <1>1 DEF SoundRun
  <2> QED
    BY <1>3, <2>1
<1>7. x.heard # {} => x.round > 0
  BY <1>1, <1>4 DEF SoundRun
<1>8. x \in SoundRun
  BY <1>3, <1>4, <1>5, <1>6, <1>7 DEF SoundRun, RunShape
<1> QED
  BY <1>2, <1>3, <1>4, <1>8, RunKeeps DEF old

\* A round of calls begins.
LEMMA CallToolsKeeps ==
    ASSUME StageInv, NEW r \in Active, CallTools(r)
    PROVE  StageInv'
<1> DEFINE old == runs[r]
           n == old.round + 1
           x == [old EXCEPT !.phase = "acting", !.round = n]
<1>1. /\ r \in Runs /\ old \in SoundRun /\ old \in RunShape /\ CallsAreSound
      /\ PermitsAreKept /\ runs \in [Runs -> SoundRun]
  BY RunsAre
<1>2. component \in Explored
  BY DEF StageInv
<1>3. \E round \in Seq(SoundCall) :
        /\ calls' = [calls EXCEPT ![r] = round]
        /\ \A c \in DOMAIN round : NoneSent(round[c])
  <2>0. PICK tools \in Rounds[component] : \E first \in Started(tools[1]) :
          IF Len(tools) = 1 THEN calls' = [calls EXCEPT ![r] = <<first>>]
          ELSE \E second \in Started(tools[2]) :
                 calls' = [calls EXCEPT ![r] = <<first, second>>]
    BY DEF CallTools
  <2>1. PICK first \in Started(tools[1]) :
          IF Len(tools) = 1 THEN calls' = [calls EXCEPT ![r] = <<first>>]
          ELSE \E second \in Started(tools[2]) :
                 calls' = [calls EXCEPT ![r] = <<first, second>>]
    BY <2>0
  <2>2. /\ component \in DOMAIN Tools
        /\ Tools[component] \subseteq ToolNames
        /\ \/ \E t \in Tools[component] : tools = <<t>>
           \/ \E t, u \in Tools[component] : tools = <<t, u>>
    BY <1>2, <2>1, ModelAssumption DEF ToolNames
  <2>3. CASE \E t \in Tools[component] : tools = <<t>>
    <3>1. Len(tools) = 1 /\ tools[1] \in ToolNames
      BY <2>2, <2>3
    <3>2. first \in SoundCall /\ NoneSent(first)
      BY <2>1, <3>1, StartedIsSound
    <3> DEFINE round == <<first>>
    <3>3. round \in Seq(SoundCall) /\ \A c \in DOMAIN round : NoneSent(round[c])
      BY <3>2
    <3>4. calls' = [calls EXCEPT ![r] = round]
      BY <2>1, <3>1
    <3> QED
      BY <3>3, <3>4
  <2>4. CASE \E t, u \in Tools[component] : tools = <<t, u>>
    <3>1. Len(tools) = 2 /\ tools[1] \in ToolNames /\ tools[2] \in ToolNames
      BY <2>2, <2>4
    <3>2. PICK second \in Started(tools[2]) : calls' = [calls EXCEPT ![r] = <<first, second>>]
      BY <2>1, <3>1
    <3>3. first \in SoundCall /\ NoneSent(first) /\ second \in SoundCall /\ NoneSent(second)
      BY <2>1, <3>1, <3>2, StartedIsSound
    <3> DEFINE round == <<first, second>>
    <3>4. round \in Seq(SoundCall) /\ \A c \in DOMAIN round : NoneSent(round[c])
      <4>1. DOMAIN round = {1, 2} /\ round[1] = first /\ round[2] = second
        OBVIOUS
      <4>2. round \in Seq(SoundCall)
        BY <3>3
      <4> QED
        BY <3>3, <4>1, <4>2
    <3> QED
      BY <3>2, <3>4
  <2> QED
    BY <2>2, <2>3, <2>4
<1>4. CallsAreSound' /\ Cardinality(Held') <= Permits
  BY <1>1, <1>3, RoundKeeps
<1>5. /\ runs' = [runs EXCEPT ![r] = x] /\ UNCHANGED <<component, result>>
      /\ old.phase = "thinking" /\ old.round < MaxRounds[component]
  BY <1>1 DEF CallTools
<1>6. MaxRounds[component] \in Nat /\ old.round \in 0..MaxRounds[component]
  BY <1>1, <1>2, ModelAssumption DEF RunShape
<1>7. n \in 0..MaxRounds[component] /\ n > 0
  BY <1>5, <1>6
<1> HIDE DEF old, n
<1>8. /\ x \in RunShape /\ x.phase = "acting" /\ x.round = n /\ x.heard = old.heard
      /\ x.places = old.places /\ x.trouble = old.trouble /\ x.status = old.status
  BY <1>1, <1>7 DEF RunShape, Phases
<1> HIDE DEF x
<1>9. x \in SoundRun
  BY <1>1, <1>5, <1>7, <1>8 DEF SoundRun, RunShape
<1> QED
  BY <1>4, <1>5, <1>8, <1>9, RunKeeps DEF old

\* The texts of a round are heard; a failed request among them is trouble.
LEMMA HearKeeps ==
    ASSUME StageInv, NEW r \in Active, Hear(r)
    PROVE  StageInv'
<1> DEFINE old == runs[r]
           heard == old.heard \cup {call.text : call \in Range(calls[r])}
           places == IF \E call \in Range(calls[r]) : HasPlaces(call) THEN 1 ELSE old.places
           trouble == old.trouble \/ HasTrouble(r)
           x == [old EXCEPT !.phase = "queued", !.heard = heard, !.places = places,
                            !.trouble = trouble]
<1>1. /\ r \in Runs /\ old \in SoundRun /\ old \in RunShape /\ CallsAreSound
      /\ PermitsAreKept /\ runs \in [Runs -> SoundRun]
  BY RunsAre
<1>2. /\ runs' = [runs EXCEPT ![r] = x] /\ UNCHANGED <<component, result>>
      /\ calls' = [calls EXCEPT ![r] = <<>>] /\ old.phase = "acting"
      /\ \A call \in Range(calls[r]) : call.text # "none"
  BY <1>1 DEF Hear
<1>3. CallsAreSound' /\ Cardinality(Held') <= Permits
  <2>1. <<>> \in Seq(SoundCall) /\ DOMAIN <<>> = {}
    OBVIOUS
  <2> QED
    BY <1>1, <1>2, <2>1, RoundKeeps
<1>4. \A c \in DOMAIN calls[r] : /\ calls[r][c] \in SoundCall /\ calls[r][c].text # "none"
                                 /\ calls[r][c].text \in Marks
  <2> TAKE c \in DOMAIN calls[r]
  <2>1. calls[r][c] \in SoundCall /\ calls[r][c] \in Range(calls[r])
    BY <1>1, CallsAre DEF Range
  <2> QED
    BY <1>2, <2>1 DEF SoundCall
<1>5. heard \in SUBSET Marks
  BY <1>1, <1>4 DEF RunShape, Range
<1>6. "external" \in heard => trouble
  <2>1. CASE "external" \in old.heard
    BY <1>1, <2>1 DEF SoundRun
  <2>2. CASE "external" \notin old.heard /\ "external" \in heard
    <3>1. PICK c \in DOMAIN calls[r] : calls[r][c].text = "external"
      BY <2>2 DEF Range
    <3>2. PICK i \in DOMAIN calls[r][c].requests : Failed(calls[r][c].requests[i])
      BY <1>4, <3>1 DEF SoundCall
    <3>3. HasTrouble(r)
      BY <3>1, <3>2 DEF HasTrouble, Requests, Failed, Range
    <3> QED
      BY <3>3
  <2> QED
    BY <2>1, <2>2
<1>7. trouble \in BOOLEAN /\ places \in {0, 1}
  BY <1>1 DEF RunShape
<1>8. old.status = "none" /\ old.round > 0
  BY <1>1, <1>2 DEF SoundRun
<1> HIDE DEF old, heard, places, trouble
<1>9. /\ x \in RunShape /\ x.phase = "queued" /\ x.round = old.round /\ x.heard = heard
      /\ x.trouble = trouble /\ x.status = old.status
  BY <1>1, <1>5, <1>7 DEF RunShape, Phases
<1> HIDE DEF x
<1>10. x \in SoundRun
  <2>1. "external" \in x.heard => x.trouble = TRUE
    BY <1>6, <1>7, <1>9
  <2>2. x.status = "none" /\ x.round > 0 /\ x.phase = "queued"
    BY <1>8, <1>9
  <2> QED
    BY <1>9, <2>1, <2>2 DEF SoundRun, RunShape
<1> QED
  BY <1>2, <1>3, <1>9, <1>10, RunKeeps DEF old

LEMMA RaiseKeeps ==
    ASSUME StageInv, NEW r \in Active, Raise(r)
    PROVE  StageInv'
<1>1. r \in Runs /\ CallsAreSound /\ PermitsAreKept /\ runs[r].phase = "acting"
      /\ calls' = [calls EXCEPT ![r] = <<>>] /\ UNCHANGED <<component, result>>
  BY RunsAre DEF Raise
<1>2. CallsAreSound' /\ Cardinality(Held') <= Permits
  <2>1. <<>> \in Seq(SoundCall) /\ DOMAIN <<>> = {}
    OBVIOUS
  <2> QED
    BY <1>1, <2>1, RoundKeeps
<1>3. PICK s \in {"external", "failed"} :
        runs' = [runs EXCEPT ![r].phase = "ended", ![r].status = s, ![r].trouble = TRUE]
  BY DEF Raise, ClassifiedError
<1>4. s \in TaskStatuses /\ s # "completed" /\ TRUE \in BOOLEAN
  BY DEF TaskStatuses
<1> QED
  BY <1>1, <1>2, <1>3, <1>4, EndKeeps

\* Words and texts are classified as SoundRun says.
LEMMA ConcludeKeeps ==
    ASSUME StageInv, NEW r \in Active, Conclude(r)
    PROVE  StageInv'
<1>1. PICK words \in Words :
        runs' = [runs EXCEPT
           ![r].phase = "ended",
           ![r].status = Classified(runs[r].heard, runs[r].places, words),
           ![r].trouble = @ \/ words = "external"]
  BY DEF Conclude
<1>2. r \in Runs /\ CallsAreSound /\ Cardinality(Held) <= Permits /\ runs[r].phase = "thinking"
      /\ UNCHANGED <<calls, component, result>> /\ runs[r] \in SoundRun /\ runs[r] \in RunShape
  BY RunsAre DEF Conclude
<1>3. CallsAreSound' /\ Cardinality(Held') <= Permits
  BY <1>2 DEF CallsAreSound, Held, IsSent, Requests
<1> DEFINE heard == runs[r].heard
           places == runs[r].places
           s == Classified(heard, places, words)
           trouble == runs[r].trouble \/ words = "external"
<1>4. runs' = [runs EXCEPT ![r].phase = "ended", ![r].status = s, ![r].trouble = trouble]
  BY <1>1
<1>5. trouble \in BOOLEAN /\ (runs[r].trouble => trouble)
  BY <1>2 DEF RunShape
<1>6. "external" \in heard => runs[r].trouble = TRUE
  BY <1>2 DEF SoundRun
<1>7. places \in {0, 1}
  BY <1>2 DEF RunShape
<1>8. /\ s \in TaskStatuses
      /\ s = "external" => "external" \in heard \cup {words}
      /\ s = "completed" => /\ heard # {} /\ heard \cap {"nothing", "external"} = {}
                            /\ component \in Structured => places > 0
  <2> HIDE DEF heard, places
  <2>1. s \in TaskStatuses
    BY DEF Classified, TaskStatuses
  <2>2. s = "external" => "external" \in heard \cup {words}
    BY DEF Classified
  <2>3. s = "completed" => /\ heard # {} /\ heard \cap {"nothing", "external"} = {}
                           /\ component \in Structured => places # 0
    BY DEF Classified
  <2> QED
    BY <1>7, <2>1, <2>2, <2>3
<1>9. s = "external" => trouble
  BY <1>6, <1>8
<1> HIDE DEF s, trouble
<1> QED
  BY <1>2, <1>3, <1>4, <1>5, <1>8, <1>9, EndKeeps

LEMMA OthersKeep ==
    ASSUME StageInv, NEW r \in Active,
           Unresolved(r) \/ Invoke(r) \/ Think(r) \/ ModelFails(r)
    PROVE  StageInv'
<1>1. r \in Runs /\ CallsAreSound /\ Cardinality(Held) <= Permits /\ runs[r] \in SoundRun
      /\ runs[r] \in RunShape /\ runs \in [Runs -> SoundRun]
  BY RunsAre
<1>2. UNCHANGED <<calls, component, result>>
  BY DEF Unresolved, Invoke, Think, ModelFails
<1>3. CallsAreSound' /\ Cardinality(Held') <= Permits
  BY <1>1, <1>2 DEF CallsAreSound, Held, IsSent, Requests
<1>4. "queued" \in Phases \ {"ended", "acting"} /\ "thinking" \in Phases \ {"ended", "acting"}
  BY DEF Phases
<1>5. CASE Unresolved(r)
  <2> DEFINE trouble == runs[r].trouble
             old == runs[r]
             x == [old EXCEPT !.phase = "ended", !.status = "failed"]
  <2>1. runs[r].phase = "ready" /\ runs' = [runs EXCEPT ![r] = x]
    BY <1>1, <1>5 DEF Unresolved
  <2>2. old \in SoundRun /\ old \in RunShape /\ old.phase = "ready"
    BY <1>1, <2>1
  <2> HIDE DEF old
  <2>3. /\ x \in RunShape /\ x.phase = "ended" /\ x.round = old.round /\ x.heard = old.heard
        /\ x.trouble = old.trouble /\ x.status = "failed"
    BY <2>2 DEF RunShape, Phases, TaskStatuses
  <2> HIDE DEF x
  <2>4. x \in SoundRun
    BY <2>2, <2>3 DEF SoundRun, RunShape
  <2> QED
    BY <1>2, <1>3, <2>1, <2>3, <2>4, RunKeeps
<1>6. CASE Invoke(r)
  BY <1>2, <1>4, <1>6, PhaseKeeps DEF Invoke
<1>7. CASE Think(r)
  BY <1>2, <1>4, <1>7, PhaseKeeps DEF Think
<1>8. CASE ModelFails(r)
  <2>1. PICK s \in {"external", "failed"} :
          runs' = [runs EXCEPT ![r].phase = "ended", ![r].status = s, ![r].trouble = TRUE]
    BY <1>8 DEF ModelFails, ClassifiedError
  <2>2. s \in TaskStatuses /\ s # "completed" /\ TRUE \in BOOLEAN /\ runs[r].phase # "ended"
    BY <1>8 DEF TaskStatuses, ModelFails
  <2> QED
    BY <1>2, <1>3, <2>1, <2>2, EndKeeps
<1> QED
  BY <1>5, <1>6, <1>7, <1>8

LEMMA ToolStepKeeps ==
    ASSUME StageInv, NEW r \in Active, ToolStep(r)
    PROVE  StageInv'
<1>1. r \in Runs /\ CallsAreSound /\ PermitsAreKept /\ UNCHANGED <<component, runs, result>>
  BY RunsAre DEF ToolStep
<1>2. PICK c \in DOMAIN calls[r] :
        \/ \E i \in DOMAIN Requests(r, c) : RequestStep(r, c, i)
        \/ Send(r, c) \/ ReportText(r, c)
  BY DEF ToolStep
<1>3. CallsAreSound' /\ Cardinality(Held') <= Permits
  <2>1. CASE \E i \in DOMAIN Requests(r, c) : RequestStep(r, c, i)
    BY <1>1, <2>1, RequestStepKeeps
  <2>2. CASE Send(r, c)
    BY <1>1, <2>2, SendKeeps
  <2>3. CASE ReportText(r, c)
    BY <1>1, <2>3, ReportKeeps
  <2> QED
    BY <1>2, <2>1, <2>2, <2>3
<1>4. SoundRun' = SoundRun /\ Thinking' = Thinking /\ (ResultIsAggregated <=> ResultIsAggregated')
  BY <1>1 DEF SoundRun, Structured, Thinking, ResultIsAggregated, Active
<1> QED
  BY <1>1, <1>3, <1>4 DEF StageInv, PermitsAreKept, CallsAreSound

\* The result is one of the statuses, and completed only if there is no other.
LEMMA AggregatedIs ==
    ASSUME NEW S \in SUBSET TaskStatuses, S # {}
    PROVE  /\ Aggregated(S) \in TaskStatuses
           /\ Aggregated(S) = "completed" => S = {"completed"}
           /\ Aggregated(S) \in S
<1> DEFINE order == <<"input", "external", "nothing", "failed">>
           First(i) == order[i] \in S /\ \A j \in 1..(i - 1) : order[j] \notin S
<1>1. CASE S = {"completed"}
  BY <1>1 DEF Aggregated, TaskStatuses
<1>2. CASE S # {"completed"}
  <2>1. PICK s \in S : s # "completed"
    BY <1>2
  <2>2. \E i \in 1..4 : order[i] \in S
    BY <2>1 DEF TaskStatuses
  <2>3. \E i \in 1..4 : First(i)
    <3>1. order[1] \in S \/ order[2] \in S \/ order[3] \in S \/ order[4] \in S
      BY <2>2
    <3>2. 1..(1 - 1) = {} /\ 1..(2 - 1) = {1} /\ 1..(3 - 1) = {1, 2} /\ 1..(4 - 1) = {1, 2, 3}
      OBVIOUS
    <3> HIDE DEF order
    <3>3. 1 \in 1..4 /\ 2 \in 1..4 /\ 3 \in 1..4 /\ 4 \in 1..4
      OBVIOUS
    <3> QED
      BY <3>1, <3>2, <3>3
  <2>4. Aggregated(S) = order[CHOOSE i \in 1..4 : First(i)]
    BY <1>2 DEF Aggregated
  <2>5. PICK i \in 1..4 : First(i) /\ Aggregated(S) = order[i]
    BY <2>3, <2>4
  <2>6. order[i] # "completed"
    OBVIOUS
  <2> QED
    BY <2>5, <2>6
<1> QED
  BY <1>1, <1>2

LEMMA FanInKeeps ==
    ASSUME StageInv, FanIn
    PROVE  StageInv'
<1> DEFINE S == {runs[r].status : r \in Active}
<1>1. /\ result' = Aggregated(S) /\ \A r \in Active : runs[r].phase = "ended"
      /\ UNCHANGED <<calls, component, runs>>
  BY DEF FanIn
<1>2. S \in SUBSET TaskStatuses /\ S # {}
  <2>1. ASSUME NEW r \in Active PROVE runs[r].status \in TaskStatuses
    BY <1>1, RunsAre DEF SoundRun
  <2> QED
    BY <2>1, ActiveRuns
<1>s. \A s \in S : \E r \in Active : runs[r].status = s
  OBVIOUS
<1>t. \A r \in Active : runs[r].status \in S
  OBVIOUS
<1> HIDE DEF S
<1>3. /\ result' \in TaskStatuses /\ result' \in S
      /\ result' = "completed" => S = {"completed"}
  BY <1>1, <1>2, AggregatedIs
<1>4. ResultIsAggregated'
  BY <1>1, <1>3, <1>s, <1>t DEF ResultIsAggregated, Active
<1>5. SoundRun' = SoundRun /\ PermitsAreKept'
  BY <1>1 DEF SoundRun, Structured, StageInv, PermitsAreKept, Held, IsSent, Requests, Thinking
<1> QED
  BY <1>1, <1>3, <1>4, <1>5 DEF StageInv

LEMMA StageInitial == StageInit => StageInv
<1> SUFFICES ASSUME StageInit PROVE StageInv
  OBVIOUS
<1>1. /\ component \in Explored /\ runs = [r \in Runs |-> Idle]
      /\ calls = [r \in Runs |-> <<>>] /\ result = "none"
  BY DEF StageInit
<1>2. Idle \in SoundRun
  <2>1. MaxRounds[component] \in Nat
    BY <1>1, ModelAssumption
  <2>2. 0 \in 0..MaxRounds[component]
    BY <2>1
  <2> QED
    BY <2>2 DEF Idle, SoundRun, Phases, Marks, TaskStatuses
<1>3. <<>> \in Seq(SoundCall)
  OBVIOUS
<1>4. Held = {} /\ Thinking = {}
  <2>1. Held = {}
    BY <1>1 DEF Held, IsSent, Slots
  <2>2. Thinking = {}
    BY <1>1 DEF Thinking, Idle
  <2> QED
    BY <2>1, <2>2
<1>5. PermitsAreKept
  BY <1>4, FS_EmptySet, TransportAssumption, ModelAssumption DEF PermitsAreKept
<1> QED
  BY <1>1, <1>2, <1>3, <1>5 DEF StageInv, ResultIsAggregated

LEMMA StageStep == StageInv /\ [StageNext]_stageVars => StageInv'
<1> SUFFICES ASSUME StageInv, [StageNext]_stageVars PROVE StageInv'
  OBVIOUS
<1>1. CASE UNCHANGED stageVars
  BY <1>1 DEF stageVars, StageInv, SoundRun, Structured, ResultIsAggregated, Active,
              PermitsAreKept, Held, IsSent, Requests, Thinking
<1>2. CASE FanIn
  BY <1>2, FanInKeeps
<1>3. ASSUME NEW r \in Active, Step(r) PROVE StageInv'
  BY <1>3, OthersKeep, CallToolsKeeps, ToolStepKeeps, HearKeeps, RaiseKeeps, ConcludeKeeps
     DEF Step
<1> QED
  BY <1>1, <1>2, <1>3 DEF StageNext

LEMMA StageIsSound == StageSpec => []StageInv
  BY StageInitial, StageStep, PTL DEF StageSpec

-----------------------------------------------------------------------------
(* What a component says of its search.                                     *)

\* A component is complete when it found something for every part of the task and
\* blocked when a provider failed, and no request is sent without a permit or more
\* often than its decorator allows (classify_component_result, hotel_fan_in_node).
THEOREM OutcomeIsAlwaysTrue == StageSpec => []OutcomeIsTrue
<1>1. StageInv => OutcomeIsTrue
  <2> SUFFICES ASSUME StageInv PROVE OutcomeIsTrue
    OBVIOUS
  <2>1. StageTypeOK
    <3>1. runs \in [Runs -> [phase : Phases, round : 0..MaxRounds[component],
                             heard : SUBSET Marks, places : {0, 1}, trouble : BOOLEAN,
                             status : TaskStatuses \cup {"none"}]]
      BY DEF StageInv, SoundRun
    <3>2. ASSUME NEW r \in Runs, NEW call \in Range(calls[r])
          PROVE  call \in SoundCall
      BY <3>2, CallsAre DEF StageInv, CallsAreSound, Range
    <3>3. ASSUME NEW r \in Runs, NEW call \in Range(calls[r])
          PROVE  /\ call.text \in Marks \cup {"none"}
                 /\ \A q \in Range(call.requests) :
                      /\ q.phase \in {"waiting", "posted", "asleep", "ended"}
                      /\ q.tries < Attempts[q.to]
                      /\ (q.end = "none") = (q.phase # "ended")
      <4>1. call.text \in Marks \cup {"none"} /\ call.requests \in Seq(SoundRequest)
        BY <3>2, <3>3 DEF SoundCall
      <4>2. ASSUME NEW q \in Range(call.requests)
            PROVE  /\ q.phase \in {"waiting", "posted", "asleep", "ended"}
                   /\ q.tries < Attempts[q.to]
                   /\ (q.end = "none") = (q.phase # "ended")
        <5>1. q \in SoundRequest
          BY <4>1, <4>2 DEF Range
        <5> QED
          BY <5>1 DEF SoundRequest, RequestPhases
      <4> QED
        BY <4>1, <4>2
    <3> QED
      BY <3>1, <3>3 DEF StageInv, PermitsAreKept, StageTypeOK
  <2>2. \A r \in Active : runs[r] \in SoundRun
    BY RunsAre
  <2>3. PlacesAreFound
    BY <2>2 DEF PlacesAreFound, SoundRun
  <2>4. HotelsNeedEveryStay
    <3> SUFFICES ASSUME component = "hotels", result = "completed", NEW r \in Runs
                 PROVE  /\ runs[r].status = "completed" /\ runs[r].round > 0
                        /\ runs[r].heard \cap {"nothing", "external"} = {}
      BY DEF HotelsNeedEveryStay
    <3>1. r \in Active /\ runs[r].status = "completed"
      BY DEF Active, StageInv, ResultIsAggregated
    <3> QED
      BY <2>2, <3>1 DEF SoundRun
  <2>5. BlockedOnlyByTrouble
    <3> SUFFICES ASSUME result = "external" PROVE \E r \in Active : runs[r].trouble
      BY DEF BlockedOnlyByTrouble
    <3>1. PICK r \in Active : runs[r].status = "external"
      BY DEF StageInv, ResultIsAggregated
    <3> QED
      BY <2>2, <3>1 DEF SoundRun
  <2> QED
    BY <2>1, <2>3, <2>4, <2>5 DEF OutcomeIsTrue
<1> QED
  BY <1>1, StageIsSound, PTL

-----------------------------------------------------------------------------
(* What a flight search passes on.                                          *)

Offer == [day : Int, amount : Int]

\* The offers in the order of their amounts: the same offers, sorted.
LEMMA ByAmountSorts ==
    ASSUME NEW options \in Seq(Offer)
    PROVE  /\ ByAmount(options) \in Seq(Offer)
           /\ Len(ByAmount(options)) = Len(options)
           /\ \A k \in DOMAIN ByAmount(options) :
                \E i \in DOMAIN options : ByAmount(options)[k] = options[i]
           /\ \A i \in DOMAIN options :
                \E k \in DOMAIN ByAmount(options) : ByAmount(options)[k] = options[i]
           /\ \A j, k \in DOMAIN ByAmount(options) :
                j < k => ByAmount(options)[j].amount <= ByAmount(options)[k].amount
<1> DEFINE places == DOMAIN options
           cheaper == {p \in places \X places :
                         \/ options[p[1]].amount < options[p[2]].amount
                         \/ options[p[1]].amount = options[p[2]].amount /\ p[1] < p[2]}
           order == InOrder(places, cheaper)
           sorted == [k \in DOMAIN order |-> options[order[k]]]
           n == Len(options)
<1>1. ByAmount(options) = sorted
  BY DEF ByAmount
<1>2. n \in Nat /\ places = 1..n /\ IsFiniteSet(places) /\ Cardinality(places) = n
  <2>1. n \in Nat /\ places = 1..n
    OBVIOUS
  <2>2. IsFiniteSet(1..n) /\ Cardinality(1..n) = n
    BY <2>1, FS_Interval
  <2> QED
    BY <2>1, <2>2
<1>3. \A i \in places : options[i] \in Offer /\ options[i].amount \in Int /\ i \in Int
  <2>1. \A i \in places : options[i] \in Offer /\ i \in Int
    OBVIOUS
  <2> QED
    BY <2>1 DEF Offer
<1>4. \A i, j \in places : <<i, j>> \in cheaper <=>
         \/ options[i].amount < options[j].amount
         \/ options[i].amount = options[j].amount /\ i < j
  OBVIOUS
<1> HIDE DEF cheaper, places
<1>5. IsOrder(cheaper, places)
  <2>1. \A i \in places : <<i, i>> \notin cheaper
    BY <1>3, <1>4
  <2>2. \A i, j \in places : i = j \/ <<i, j>> \in cheaper \/ <<j, i>> \in cheaper
    <3> TAKE i, j \in places
    <3>1. i \in Int /\ j \in Int /\ options[i].amount \in Int /\ options[j].amount \in Int
      BY <1>3
    <3>2. \/ i = j
          \/ options[i].amount < options[j].amount \/ options[j].amount < options[i].amount
          \/ options[i].amount = options[j].amount /\ i < j
          \/ options[j].amount = options[i].amount /\ j < i
      BY <3>1
    <3> QED
      BY <1>4, <3>2
  <2>3. \A i, j, k \in places : <<i, j>> \in cheaper /\ <<j, k>> \in cheaper
                                  => <<i, k>> \in cheaper
    BY <1>3, <1>4
  <2> QED
    BY <2>1, <2>2, <2>3 DEF IsOrder
<1>o. order = InOrder(places, cheaper)
  OBVIOUS
<1> HIDE DEF order, n
<1>6. /\ order \in Seq(places) /\ DOMAIN order = 1..n
      /\ \A i, j \in 1..n : <<order[i], order[j]>> \in cheaper <=> i < j
      /\ \A x \in places : \E i \in 1..n : order[i] = x
      /\ Len(order) = n
  <2> DEFINE o == InOrder(places, cheaper)
             card == Cardinality(places)
  <2>1. o \in Seq(places) /\ Len(o) = card /\ DOMAIN o = 1..card
    BY <1>2, <1>5, InOrderSorts
  <2>2. \A i, j \in 1..card : <<o[i], o[j]>> \in cheaper <=> i < j
    BY <1>2, <1>5, InOrderSorts, Zenon
  <2>3. ASSUME NEW x \in places PROVE \E i \in 1..card : o[i] = x
    <3>1. IsFiniteSet(places) /\ IsOrder(cheaper, places) /\ x \in places
      BY <1>2, <1>5
    <3>2. \E i \in 1..Cardinality(places) : InOrder(places, cheaper)[i] = x
      BY <3>1, InOrderFinds
    <3> QED
      BY <3>2
  <2> HIDE DEF o
  <2> QED
    BY <1>2, <1>o, <2>1, <2>2, <2>3 DEF o
<1>7. \A k \in 1..n : order[k] \in places
  <2>1. order \in Seq(places) /\ Len(order) = n /\ n \in Nat
    BY <1>2, <1>6
  <2> QED
    BY <2>1
<1>8. \A k \in 1..n : sorted[k] = options[order[k]] /\ sorted[k] \in Offer
  BY <1>3, <1>6, <1>7
<1>9. sorted \in Seq(Offer) /\ Len(sorted) = n /\ DOMAIN sorted = 1..n
  <2>1. sorted \in [1..n -> Offer] /\ DOMAIN sorted = 1..n
    BY <1>6, <1>8
  <2> HIDE DEF sorted
  <2> QED
    BY <1>2, <2>1
<1> HIDE DEF sorted
<1>10. \A j, k \in 1..n : j < k => sorted[j].amount <= sorted[k].amount
  <2> TAKE j, k \in 1..n
  <2> HAVE j < k
  <2>1. <<order[j], order[k]>> \in cheaper /\ order[j] \in places /\ order[k] \in places
    BY <1>6, <1>7
  <2>2. \/ options[order[j]].amount < options[order[k]].amount
        \/ options[order[j]].amount = options[order[k]].amount
    BY <1>4, <2>1
  <2>3. options[order[j]].amount \in Int /\ options[order[k]].amount \in Int
    BY <1>3, <2>1
  <2> QED
    BY <1>8, <2>2, <2>3
<1>11. \A i \in places : \E k \in 1..n : sorted[k] = options[i]
  BY <1>6, <1>8
<1> QED
  BY <1>1, <1>7, <1>8, <1>9, <1>10, <1>11 DEF places, n

\* The first of them are as cheap as any.
LEMMA TopIsCheapest ==
    ASSUME NEW options \in Seq(Offer)
    PROVE  /\ Top(ByAmount(options)) \in Seq(Offer)
           /\ \A k \in DOMAIN Top(ByAmount(options)) :
                \E i \in DOMAIN options : Top(ByAmount(options))[k] = options[i]
           /\ \A i \in DOMAIN options :
                /\ Len(Top(ByAmount(options))) > 0
                /\ Top(ByAmount(options))[1].amount <= options[i].amount
           /\ \A k \in 2..Len(Top(ByAmount(options))) :
                Top(ByAmount(options))[k - 1].amount <= Top(ByAmount(options))[k].amount
           /\ Len(Top(ByAmount(options))) < Shown =>
                \A i \in DOMAIN options :
                  \E k \in DOMAIN Top(ByAmount(options)) :
                     Top(ByAmount(options))[k] = options[i]
<1> DEFINE sorted == ByAmount(options)
           n == Len(sorted)
           m == IF n < Shown THEN n ELSE Shown
           top == Top(sorted)
<1>1. /\ sorted \in Seq(Offer) /\ Len(sorted) = Len(options)
      /\ \A k \in DOMAIN sorted : \E i \in DOMAIN options : sorted[k] = options[i]
      /\ \A i \in DOMAIN options : \E k \in DOMAIN sorted : sorted[k] = options[i]
      /\ \A j, k \in DOMAIN sorted : j < k => sorted[j].amount <= sorted[k].amount
  BY ByAmountSorts
<1>2. top = SubSeq(sorted, 1, m)
  BY DEF Top
<1> HIDE DEF sorted, top
<1>3. /\ n \in Nat /\ DOMAIN sorted = 1..n /\ Shown \in Nat /\ Shown > 0
  BY <1>1, TransportAssumption
<1>m. m = IF n < Shown THEN n ELSE Shown
  OBVIOUS
<1>n. n = Len(sorted)
  OBVIOUS
<1> HIDE DEF n, m
<1>4. /\ m \in Nat /\ m <= n /\ m <= Shown
      /\ m < Shown => m = n
      /\ n > 0 => m > 0
  BY <1>3, <1>m
<1>5. top \in Seq(Offer) /\ Len(top) = m /\ DOMAIN top = 1..m
      /\ \A k \in 1..m : top[k] = sorted[k]
  <2>1. sorted \in Seq(Offer) /\ Len(sorted) = n
    BY <1>1, <1>n
  <2>2. 1 \in Int /\ m \in 0..n
    BY <1>3, <1>4
  <2>3. top = [k \in 1..m |-> sorted[k]]
    BY <1>2, <2>1, <2>2
  <2> QED
    BY <1>3, <1>4, <2>1, <2>3
<1>6. \A k \in 1..m : k \in DOMAIN sorted
  BY <1>3, <1>4
<1>a. \A k \in DOMAIN sorted : sorted[k].amount \in Int
  <2>1. \A k \in DOMAIN sorted : sorted[k] \in Offer
    BY <1>1
  <2> QED
    BY <2>1 DEF Offer
<1>7. ASSUME NEW i \in DOMAIN options
      PROVE  Len(top) > 0 /\ top[1].amount <= options[i].amount
  <2>1. PICK k \in DOMAIN sorted : sorted[k] = options[i]
    BY <1>1
  <2>2. 1 \in DOMAIN sorted /\ 1 \in 1..m /\ (k = 1 \/ 1 < k)
    <3>1. k \in 1..n
      BY <1>3, <2>1
    <3>2. n > 0 /\ 1 \in 1..n
      BY <1>3, <3>1
    <3> QED
      BY <1>3, <1>4, <3>1, <3>2
  <2>3. sorted[1].amount <= sorted[k].amount
    <3>1. CASE k = 1
      BY <1>a, <2>1, <3>1
    <3>2. CASE 1 < k
      BY <1>1, <2>1, <2>2, <3>2
    <3> QED
      BY <2>2, <3>1, <3>2
  <2> QED
    BY <1>4, <1>5, <2>1, <2>2, <2>3
<1>8. ASSUME NEW k \in 2..m PROVE top[k - 1].amount <= top[k].amount
  <2>1. k - 1 \in 1..m /\ k \in 1..m /\ k - 1 < k
    BY <1>4
  <2>2. k - 1 \in DOMAIN sorted /\ k \in DOMAIN sorted
    BY <1>6, <2>1
  <2> QED
    BY <1>1, <1>5, <2>1, <2>2
<1>9. ASSUME m < Shown, NEW i \in DOMAIN options PROVE \E k \in 1..m : top[k] = options[i]
  BY <1>1, <1>3, <1>4, <1>5, <1>9
<1>10. \A k \in 1..m : \E i \in DOMAIN options : top[k] = options[i]
  BY <1>1, <1>5, <1>6
<1> QED
  BY <1>5, <1>7, <1>8, <1>9, <1>10 DEF sorted, top

\* The requests of a flight search that found something, and their offers.
Made(call) ==
    UNION {{[day |-> q.day, amount |-> a] : a \in Range(q.offers)} : q \in Range(call.requests)}

LEMMA OffersAre ==
    ASSUME NEW q \in SoundRequest
    PROVE  /\ OffersOf(q) \in Seq(Offer) /\ DOMAIN OffersOf(q) = DOMAIN q.offers
           /\ \A k \in DOMAIN q.offers :
                OffersOf(q)[k] = [day |-> q.day, amount |-> q.offers[k]]
<1>1. q.offers \in Seq(Int) /\ q.day \in Int
  BY DEF SoundRequest
<1> DEFINE n == Len(q.offers)
           s == OffersOf(q)
<1>2. n \in Nat /\ DOMAIN q.offers = 1..n /\ \A k \in 1..n : q.offers[k] \in Int
  BY <1>1
<1>3. s = [k \in 1..n |-> [day |-> q.day, amount |-> q.offers[k]]]
  BY <1>2 DEF OffersOf
<1> HIDE DEF s, n
<1>4. \A k \in 1..n : s[k] = [day |-> q.day, amount |-> q.offers[k]]
  BY <1>3
<1>5. s \in [1..n -> Offer]
  BY <1>1, <1>2, <1>3 DEF Offer
<1>6. s \in Seq(Offer)
  BY <1>2, <1>5
<1> QED
  BY <1>2, <1>3, <1>4, <1>6 DEF s

\* The cheapest offer of a request that has some is one of them.
LEMMA CheapestIs ==
    ASSUME NEW q \in SoundRequest, q.offers # <<>>
    PROVE  /\ CheapestOf(q) \in Offer /\ CheapestOf(q).day = q.day
           /\ \E k \in DOMAIN q.offers :
                CheapestOf(q) = [day |-> q.day, amount |-> q.offers[k]]
           /\ \A k \in DOMAIN q.offers : CheapestOf(q).amount <= q.offers[k]
<1> DEFINE s == OffersOf(q)
           sorted == ByAmount(s)
           n == Len(s)
<1>1. /\ s \in Seq(Offer) /\ DOMAIN s = DOMAIN q.offers
      /\ \A k \in DOMAIN q.offers : s[k] = [day |-> q.day, amount |-> q.offers[k]]
  BY OffersAre
<1>2. CheapestOf(q) = sorted[1]
  BY DEF CheapestOf
<1>n. n = Len(s)
  OBVIOUS
<1> HIDE DEF s, n
<1>3. /\ sorted \in Seq(Offer) /\ Len(sorted) = Len(s)
      /\ \A k \in DOMAIN sorted : \E i \in DOMAIN s : sorted[k] = s[i]
      /\ \A i \in DOMAIN s : \E k \in DOMAIN sorted : sorted[k] = s[i]
      /\ \A j, k \in DOMAIN sorted : j < k => sorted[j].amount <= sorted[k].amount
  BY <1>1, ByAmountSorts
<1> HIDE DEF sorted
<1>4. DOMAIN q.offers # {}
  <2>1. q.offers \in Seq(Int)
    BY DEF SoundRequest
  <2>2. Len(q.offers) \in Nat /\ Len(q.offers) # 0 /\ DOMAIN q.offers = 1..Len(q.offers)
    BY <2>1
  <2>3. 1 \in DOMAIN q.offers
    BY <2>2
  <2> QED
    BY <2>3
<1>5. n \in Nat /\ DOMAIN s = 1..n /\ DOMAIN sorted = 1..n /\ n > 0 /\ 1 \in 1..n
  <2>1. n \in Nat /\ DOMAIN s = 1..n /\ DOMAIN sorted = 1..n
    BY <1>1, <1>3, <1>n
  <2>2. 1..n # {}
    BY <1>1, <1>4, <2>1
  <2> QED
    BY <2>1, <2>2
<1>6. \A k \in DOMAIN sorted : sorted[k] \in Offer /\ sorted[k].amount \in Int
  <2>1. \A k \in DOMAIN sorted : sorted[k] \in Offer
    BY <1>3
  <2> QED
    BY <2>1 DEF Offer
<1>7. \E k \in DOMAIN q.offers : sorted[1] = [day |-> q.day, amount |-> q.offers[k]]
  <2>1. PICK i \in DOMAIN s : sorted[1] = s[i]
    BY <1>3, <1>5
  <2>2. i \in DOMAIN q.offers
    BY <1>1, <2>1
  <2> QED
    BY <1>1, <2>1, <2>2
<1>8. ASSUME NEW k \in DOMAIN q.offers PROVE sorted[1].amount <= q.offers[k]
  <2>1. PICK j \in DOMAIN sorted : sorted[j] = s[k]
    BY <1>1, <1>3
  <2>2. sorted[j].amount = q.offers[k] /\ sorted[j].amount \in Int /\ sorted[1].amount \in Int
    BY <1>1, <1>5, <1>6, <2>1
  <2>3. CASE j = 1
    BY <2>2, <2>3
  <2>4. CASE 1 < j
    BY <1>3, <1>5, <2>1, <2>2, <2>4
  <2> QED
    BY <1>5, <2>1, <2>3, <2>4
<1> QED
  BY <1>2, <1>5, <1>6, <1>7, <1>8

\* The sorted offers of a search are the best of those that were made.
SearchOffers(call) ==
    LET options == Options(call) IN
      /\ Range(options) \subseteq Made(call)
      /\ \A m \in Made(call) : options[1].amount <= m.amount
      /\ \A k \in 2..Len(options) : options[k - 1].amount <= options[k].amount
      /\ call.tool = "window" /\ Len(options) < Shown =>
           {o.day : o \in Range(options)} = {m.day : m \in Made(call)}

LEMMA MadeIs ==
    ASSUME NEW call \in SoundCall
    PROVE  \A m : m \in Made(call) <=>
             \E i \in DOMAIN call.requests : \E k \in DOMAIN call.requests[i].offers :
               m = [day |-> call.requests[i].day, amount |-> call.requests[i].offers[k]]
  BY DEF Made, Range

LEMMA SearchIsOffered ==
    ASSUME NEW call \in SoundCall, call.tool = "search", call.text = "found"
    PROVE  SearchOffers(call)
<1> DEFINE q == call.requests[1]
           given == OffersOf(q)
           options == Top(ByAmount(given))
<1>1. /\ call.requests \in Seq(SoundRequest) /\ Len(call.requests) = 1
      /\ DOMAIN call.requests = {1}
  BY DEF SoundCall
<1>2. q \in SoundRequest
  BY <1>1
<1>3. Options(call) = options
  BY DEF Options
<1>4. \A m : m \in Made(call) <=>
        \E k \in DOMAIN q.offers : m = [day |-> q.day, amount |-> q.offers[k]]
  BY <1>1, MadeIs
<1> HIDE DEF q
<1>5. /\ given \in Seq(Offer) /\ DOMAIN given = DOMAIN q.offers
      /\ \A k \in DOMAIN q.offers : given[k] = [day |-> q.day, amount |-> q.offers[k]]
  BY <1>2, OffersAre
<1> HIDE DEF given
<1>6. /\ options \in Seq(Offer)
      /\ \A k \in DOMAIN options : \E i \in DOMAIN given : options[k] = given[i]
      /\ \A i \in DOMAIN given : options[1].amount <= given[i].amount
      /\ \A k \in 2..Len(options) : options[k - 1].amount <= options[k].amount
  BY <1>5, TopIsCheapest
<1> HIDE DEF options
<1>7. Range(options) \subseteq Made(call)
  <2>1. ASSUME NEW k \in DOMAIN options PROVE options[k] \in Made(call)
    <3>1. PICK i \in DOMAIN given : options[k] = given[i]
      BY <1>6
    <3>2. i \in DOMAIN q.offers /\ given[i] = [day |-> q.day, amount |-> q.offers[i]]
      BY <1>5, <3>1
    <3> QED
      BY <1>4, <3>1, <3>2
  <2> QED
    BY <2>1 DEF Range
<1>8. ASSUME NEW m \in Made(call) PROVE options[1].amount <= m.amount
  BY <1>4, <1>5, <1>6
<1> QED
  BY <1>3, <1>6, <1>7, <1>8 DEF SearchOffers

LEMMA WindowIsOffered ==
    ASSUME NEW call \in SoundCall, call.tool = "window", call.text = "found"
    PROVE  SearchOffers(call)
<1> DEFINE all == call.requests
           P == {i \in DOMAIN all : Found(all[i])}
           found == Picks(all, P)
           given == [i \in DOMAIN found |-> CheapestOf(found[i])]
           options == Top(ByAmount(given))
           at == Ascending(P)
           n == Cardinality(P)
<1>1. all \in Seq(SoundRequest)
  BY DEF SoundCall
<1>2. Options(call) = options
  BY DEF Options
<1>3. \A m : m \in Made(call) <=>
        \E i \in DOMAIN all : \E k \in DOMAIN all[i].offers :
          m = [day |-> all[i].day, amount |-> all[i].offers[k]]
  BY MadeIs
<1>4. \A i \in DOMAIN all : all[i] \in SoundRequest
  BY <1>1
<1>5. \A i \in DOMAIN all : i \in P <=> all[i].offers # <<>>
  BY <1>4 DEF SoundRequest, Found
<1>6. P \subseteq DOMAIN all /\ P \subseteq Int /\ IsFiniteSet(P)
  <2>1. P \subseteq 1..Len(all) /\ Len(all) \in Nat /\ DOMAIN all = 1..Len(all)
    BY <1>1
  <2>2. IsFiniteSet(1..Len(all))
    BY <2>1, FS_Interval
  <2> QED
    BY <2>1, <2>2, FS_Subset
<1>7. n \in Nat /\ at \in Seq(P) /\ Len(at) = n /\ DOMAIN at = 1..n
  BY <1>6, AscendingSorts
<1>8. \A x \in P : \E i \in 1..n : at[i] = x
  BY <1>6, AscendingSorts
<1>9. found = [k \in 1..n |-> all[at[k]]]
  BY <1>7 DEF Picks
<1> HIDE DEF all, P, at, n, found
<1>10. \A k \in 1..n : at[k] \in P
  BY <1>7
<1>11. DOMAIN found = 1..n /\ \A k \in 1..n : found[k] = all[at[k]]
  BY <1>9
<1>12. \A k \in 1..n : given[k] = CheapestOf(all[at[k]])
  BY <1>11
<1>13. \A k \in 1..n : given[k] \in Offer
  <2> TAKE k \in 1..n
  <2>1. all[at[k]] \in SoundRequest /\ all[at[k]].offers # <<>>
    BY <1>4, <1>5, <1>6, <1>10
  <2> QED
    BY <1>12, <2>1, CheapestIs
<1>14. given \in Seq(Offer) /\ DOMAIN given = 1..n
  <2>1. given \in [1..n -> Offer]
    BY <1>11, <1>13
  <2> HIDE DEF given
  <2> QED
    BY <1>7, <2>1
<1> HIDE DEF given
<1>15. /\ options \in Seq(Offer)
       /\ \A k \in DOMAIN options : \E i \in DOMAIN given : options[k] = given[i]
       /\ \A i \in DOMAIN given : options[1].amount <= given[i].amount
       /\ \A k \in 2..Len(options) : options[k - 1].amount <= options[k].amount
       /\ Len(options) < Shown =>
            \A i \in DOMAIN given : \E k \in DOMAIN options : options[k] = given[i]
  BY <1>14, TopIsCheapest
<1> HIDE DEF options
<1>16. \A k \in 1..n : given[k] \in Made(call)
  <2> TAKE k \in 1..n
  <2>1. /\ all[at[k]] \in SoundRequest /\ all[at[k]].offers # <<>> /\ at[k] \in DOMAIN all
    BY <1>4, <1>5, <1>6, <1>10
  <2>2. PICK j \in DOMAIN all[at[k]].offers :
          given[k] = [day |-> all[at[k]].day, amount |-> all[at[k]].offers[j]]
    BY <1>12, <2>1, CheapestIs
  <2> QED
    BY <1>3, <2>1, <2>2
<1>17. Range(options) \subseteq Made(call)
  BY <1>14, <1>15, <1>16 DEF Range
<1>18. ASSUME NEW m \in Made(call)
       PROVE  \E k \in 1..n : given[k].amount <= m.amount /\ given[k].day = m.day
  <2>1. PICK i \in DOMAIN all : \E k \in DOMAIN all[i].offers :
          m = [day |-> all[i].day, amount |-> all[i].offers[k]]
    BY <1>3, <1>18
  <2>2. PICK j \in DOMAIN all[i].offers :
          m = [day |-> all[i].day, amount |-> all[i].offers[j]]
    BY <2>1
  <2>3. all[i] \in SoundRequest /\ all[i].offers # <<>>
    BY <1>4, <2>1, <2>2
  <2>4. PICK k \in 1..n : at[k] = i
    BY <1>5, <1>8, <2>1, <2>3
  <2>5. CheapestOf(all[i]).amount <= all[i].offers[j] /\ CheapestOf(all[i]).day = all[i].day
    BY <2>2, <2>3, CheapestIs
  <2> QED
    BY <1>12, <2>2, <2>4, <2>5
<1>19. ASSUME NEW m \in Made(call) PROVE options[1].amount <= m.amount
  <2>1. PICK k \in 1..n : given[k].amount <= m.amount
    BY <1>18
  <2>2. options[1].amount <= given[k].amount
    BY <1>14, <1>15, <2>1
  <2>3. given[k].amount \in Int
    BY <1>13 DEF Offer
  <2>4. m.amount \in Int
    <3>1. PICK i \in DOMAIN all : \E j \in DOMAIN all[i].offers :
            m = [day |-> all[i].day, amount |-> all[i].offers[j]]
      BY <1>3
    <3>2. all[i].offers \in Seq(Int)
      BY <1>4, <3>1 DEF SoundRequest
    <3> QED
      BY <3>1, <3>2
  <2>5. options[1].amount \in Int
    <3>1. Len(options) > 0
      BY <1>14, <2>1, TopIsCheapest DEF options
    <3>2. options[1] \in Offer
      BY <1>15, <3>1
    <3> QED
      BY <3>2 DEF Offer
  <2> QED
    BY <2>1, <2>2, <2>3, <2>4, <2>5
<1>20. ASSUME Len(options) < Shown
       PROVE  {o.day : o \in Range(options)} = {m.day : m \in Made(call)}
  <2>1. ASSUME NEW m \in Made(call) PROVE \E o \in Range(options) : o.day = m.day
    <3>1. PICK k \in 1..n : given[k].day = m.day
      BY <1>18
    <3>2. PICK j \in DOMAIN options : options[j] = given[k]
      BY <1>14, <1>15, <1>20, <3>1
    <3> QED
      BY <3>1, <3>2 DEF Range
  <2> QED
    BY <1>17, <2>1
<1> QED
  BY <1>2, <1>15, <1>17, <1>19, <1>20 DEF SearchOffers

-----------------------------------------------------------------------------
\* A search of a window sends as many requests as it may, for different days of
\* the window and for the first and the last of them.
LEMMA SampleIsSent ==
    ASSUME NEW call \in SoundCall, call.tool = "window", call.requests # <<>>
    PROVE  LET w == call.window
               days == {q.day : q \in Range(call.requests)} IN
             /\ FitsWindow(w, days) /\ SpansWindow(w, days) /\ CoversWindow(w, days)
             /\ Cardinality(days) = Len(call.requests)
             /\ Len(call.requests) <= Limit(w)
             /\ TotalPairs(w) > Limit(w) => Len(call.requests) = Limit(w)
<1> DEFINE w == call.window
           all == call.requests
           days == {q.day : q \in Range(all)}
           D == Departures(TotalPairs(w), Limit(w))
           s == Ascending(D)
<1>1. w \in Windows /\ all \in Seq(SoundRequest)
  BY DEF SoundCall
<1>2. /\ TotalPairs(w) > 0 /\ WindowIsValid(w) /\ Len(all) = Len(s)
      /\ \A i \in DOMAIN s : all[i].day = s[i]
  BY DEF SoundCall, SearchesSample
<1>3. /\ Limit(w) \in Nat \ {0} /\ TotalPairs(w) \in Nat
      /\ D \subseteq 0..(TotalPairs(w) - 1) /\ IsFiniteSet(D)
      /\ Cardinality(D) <= Limit(w)
      /\ TotalPairs(w) > Limit(w) => Cardinality(D) = Limit(w)
  BY <1>1, <1>2, DeparturesFit
<1>d. D = Departures(TotalPairs(w), Limit(w))
  OBVIOUS
<1>a. all = call.requests
  OBVIOUS
<1> HIDE DEF D
<1>i. D \subseteq Int
  BY <1>3
<1>4. Cardinality(D) \in Nat /\ s \in Seq(D) /\ Len(s) = Cardinality(D)
      /\ DOMAIN s = 1..Cardinality(D)
  BY <1>3, <1>i, AscendingSorts
<1>5. \A x \in D : \E i \in 1..Cardinality(D) : s[i] = x
  BY <1>3, <1>i, AscendingSorts
<1> HIDE DEF s, all
<1>6. DOMAIN all = DOMAIN s
  BY <1>1, <1>2, <1>4
<1>7. days = D
  <2>1. \A i \in DOMAIN all : all[i].day \in D
    BY <1>2, <1>4, <1>6
  <2>2. \A x \in D : \E i \in DOMAIN all : all[i].day = x
    BY <1>2, <1>4, <1>5, <1>6
  <2> QED
    BY <2>1, <2>2 DEF Range
<1>w. w = call.window /\ w.latest \in Int /\ w.duration \in Int
  BY <1>1 DEF Windows
<1> HIDE DEF w, days
<1>8. FitsWindow(w, D)
  <2>1. TotalPairs(w) = w.latest - w.duration + 2
    BY <1>2, <1>w DEF TotalPairs
  <2> QED
    BY <1>3, <1>w, <2>1 DEF FitsWindow
<1>9. CoversWindow(w, D)
  BY <1>d DEF CoversWindow, Departures
<1>10. SpansWindow(w, D)
  <2> SUFFICES ASSUME Limit(w) > 1 PROVE {0, TotalPairs(w) - 1} \subseteq D
    BY DEF SpansWindow
  <2>1. CASE TotalPairs(w) <= Limit(w)
    BY <1>2, <1>3, <1>d, <2>1 DEF Departures
  <2>2. CASE TotalPairs(w) > Limit(w)
    <3>1. D = Sample(TotalPairs(w), Limit(w))
      BY <1>3, <1>d, <2>2 DEF Departures
    <3> QED
      BY <1>3, <2>2, <3>1, SampleSpreads
  <2> QED
    BY <1>3, <2>1, <2>2
<1>11. Len(all) = Cardinality(D)
  BY <1>2, <1>4
<1> QED
  BY <1>3, <1>7, <1>8, <1>9, <1>10, <1>11 DEF days, w, all

\* A flight search spans the window it was asked for, sends no more requests than
\* it may, and passes on the best of what the provider made, for every window,
\* limit and order of answers (_generate_round_trip_date_pairs, search_flights).
THEOREM FlightsAreAlwaysOffered == StageSpec => []FlightsAreOffered
<1>1. StageInv => FlightsAreOffered
  <2> SUFFICES ASSUME StageInv PROVE FlightsAreOffered
    OBVIOUS
  <2>1. ASSUME NEW r \in Runs, NEW call \in Range(calls[r]) PROVE call \in SoundCall
    BY <2>1, CallsAre DEF StageInv, CallsAreSound, Range
  <2>2. SampleSpansWindow
    BY <2>1, SampleIsSent DEF SampleSpansWindow, WindowCalls
  <2>3. OptionsAreOffered
    BY <2>1, SearchIsOffered, WindowIsOffered DEF OptionsAreOffered, SearchOffers, Made
  <2> QED
    BY <2>2, <2>3 DEF FlightsAreOffered
<1> QED
  BY <1>1, StageIsSound, PTL

================================================================================
