-------------------------------- MODULE DatePairs -------------------------------
(***************************************************************************)
(* Which departures a flexible flight search asks for: all of the window,  *)
(* or a sample of it, as _generate_round_trip_date_pairs chooses them.     *)
(* Days are counted from the first day of the window.                      *)
(***************************************************************************)
EXTENDS Integers, FiniteSets

CONSTANT PairLimit  \* 31, the most pairs one search may ask for

ASSUME PairLimitAssumption == PairLimit \in Nat \ {0}

\* A window: the last day to return on, the days of the trip, the pairs asked for.
Windows == [latest : Int, duration : Int, asked : Int]

\* ValueError of a trip of no day or a window that ends before it begins.
WindowIsValid(w) == w.duration >= 1 /\ w.latest >= 0

\* max(1, min(max_date_pairs, 31))
Limit(w) == IF w.asked > PairLimit THEN PairLimit ELSE IF w.asked < 1 THEN 1 ELSE w.asked

\* latest_departure = latest_return - (duration - 1), counted with the first day
TotalPairs(w) ==
    IF w.latest < w.duration - 1 THEN 0 ELSE w.latest - w.duration + 2

\* Python's round of n/d: the half goes to the even neighbour.
Rounded(n, d) ==
    LET q == n \div d IN
    LET r == n % d IN
      IF 2 * r < d \/ (2 * r = d /\ q % 2 = 0) THEN q ELSE q + 1

Sample(total, limit) ==
    {Rounded(k * (total - 1), limit - 1) : k \in 0..(limit - 1)}

Departures(total, limit) ==
    IF total <= limit THEN 0..(total - 1)
    ELSE IF limit = 1 THEN {total \div 2}
    ELSE Sample(total, limit)

-----------------------------------------------------------------------------
(* What a sample promises. *)

\* Every departure leaves time for the whole trip, ...
FitsWindow(w, days) == \A d \in days : d >= 0 /\ d + w.duration - 1 <= w.latest

\* ... a sample of more than one day reaches from the first to the last one, ...
SpansWindow(w, days) ==
    Limit(w) > 1 /\ TotalPairs(w) > 0 => {0, TotalPairs(w) - 1} \subseteq days

\* ... and a window that is small enough is searched completely.
CoversWindow(w, days) ==
    TotalPairs(w) <= Limit(w) => days = 0..(TotalPairs(w) - 1)
=============================================================================
