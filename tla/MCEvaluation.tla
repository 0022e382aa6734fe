------------------------------ MODULE MCEvaluation ------------------------------
(***************************************************************************)
(* A small instance of the evaluation harness: runs of one component at a  *)
(* time, two cases, batches that are good, poor or spoiled, two processes; *)
(* or else two creations of offline baselines of two specialists, whose    *)
(* second gate fails once the sources are edited. What the judges' layers  *)
(* and the checks compute is looked at for all specialists.                *)
(***************************************************************************)
EXTENDS EvaluationHarness

MCGated == <<"flights", "budget">>
MCClean == (0 :> {"flights", "budget"} @@ 1 :> {"flights"})

Call(tool, on, right, legal, extra) ==
    [tool |-> tool, on |-> on, right |-> right, legal |-> legal, extra |-> extra]
Plain(on) == Call("search", on, {"wish"}, TRUE, FALSE)

Ran(calls, outputs, answer, worth) ==
    [error |-> "none", calls |-> calls, outputs |-> outputs, owed |-> FALSE, answer |-> answer,
     worth |-> worth]

Good == Ran(<<Plain("here")>>, {"found"}, TRUE, 3)
Poor == Ran(<<Plain("there")>>, {"found"}, TRUE, 1)
Mute == Ran(<<>>, {}, FALSE, 0)
Spoiled == [Nothing EXCEPT !.error = "provider"]

MCBatches ==
    [c \in Specialists |->
       CASE c = "flights" -> {"good", "poor", "spoiled"}
         [] c = "hotels" -> {"good", "poor"}
         [] c = "restaurants" -> {"good", "spoiled"}
         [] OTHER -> {"good"}]
MCBrought == [b \in {"good", "poor", "spoiled"} |->
                CASE b = "good" -> <<Good, Good>>
                  [] b = "poor" -> <<Good, Poor>>
                  [] b = "spoiled" -> <<Good, Spoiled>>]

Case == [places |-> {"here"}, wishes |-> {"wish"}, least |-> 1, most |-> 1]
MCCases == <<Case, Case>>
MCLabelled == <<Good, Poor, Mute>>

Job(layer, refresh, named, approved, mood) ==
    [layer |-> layer, refresh |-> refresh, named |-> named, approved |-> approved, mood |-> mood]

\* Layer 1 as it is, captured anew, and captured anew for no baseline; the
\* layers with a judge, in two moods.
L1 == Job("l1", FALSE, TRUE, FALSE, "fair")
Anew == Job("l1", TRUE, TRUE, FALSE, "fair")
Nameless == Job("l1", TRUE, FALSE, FALSE, "fair")
L2 == Job("l2", FALSE, TRUE, FALSE, "fair")
L2Harsh == Job("l2", FALSE, TRUE, FALSE, "harsh")
L3 == Job("l3", FALSE, TRUE, FALSE, "fair")
L4 == Job("l4", FALSE, TRUE, FALSE, "fair")
L4Harsh == Job("l4", FALSE, TRUE, FALSE, "harsh")
Approved(job) == [job EXCEPT !.approved = TRUE]
Refreshed(job) == [job EXCEPT !.refresh = TRUE]

MCJobs ==
    [c \in Specialists |->
       CASE c = "flights" -> {L1, Anew, L4}
         [] c = "hotels" -> {L1, Nameless}
         [] c = "activities" -> {L1, L2, L2Harsh}
         [] c = "restaurants" -> {L3}
         [] c = "transportation" -> {L1, L4}
         [] c = "readiness" -> {L2Harsh, L4, L4Harsh}
         [] c \in CacheOnly -> {Approved(L2), Refreshed(Approved(L2)), Approved(L3), L4,
                               Approved(L4), Refreshed(Approved(L4)), Approved(L4Harsh)}]

-----------------------------------------------------------------------------
(* What the judges compare and are calibrated against, and decisions. *)

MCContenders ==
    {Good, Poor, Mute, Spoiled, [Spoiled EXCEPT !.error = "timeout"],
     Ran(<<Plain("here")>>, {"refused"}, TRUE, 2),
     Ran(<<Plain("here")>>, {"empty"}, TRUE, 3),
     Ran(<<Plain("here")>>, {"found", "refused"}, TRUE, 3)}

Scale == {Ran(<<Plain("here")>>, {"found"}, TRUE, worth) : worth \in 0..3} \cup {Mute}
MCLabellings == UNION {[1..n -> Scale] : n \in 1..4}

Calls ==
    {Call(tool, on, right, TRUE, FALSE) :
       tool \in {"search", "near"}, on \in {"here", "there"},
       right \in {{}, {"wish"}, {"wish", "radius"}}}

MCDecided ==
    {Spoiled} \cup
    {Ran(calls, {"found"}, TRUE, 3) :
       calls \in {<<>>} \cup {<<x>> : x \in Calls} \cup {<<x, y>> : x, y \in Calls}}
MCAsked ==
    {[Case EXCEPT !.wishes = w, !.places = p, !.most = 2] :
       w \in {{"wish"}, {"wish", "radius"}}, p \in {{"here"}, {"here", "there"}}}
=============================================================================
