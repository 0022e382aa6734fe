----------------------------- MODULE RateLimiter ------------------------------
(***************************************************************************)
(* The fixed-window rate limiters of src/api/rate_limit.py, both of them:  *)
(* the memory limiter of one process and the Redis limiter that replicas   *)
(* share.  A check is one step with either: the memory limiter awaits      *)
(* nothing while it holds its lock, and Redis runs its script atomically.  *)
(*                                                                         *)
(* Time is kept as ages: Tick is one unit of the window's length.  Counts  *)
(* above the limit are not told apart.                                     *)
(***************************************************************************)
EXTENDS Integers, FiniteSets, Functions

CONSTANTS
    Principals,  \* browser owners
    Limit,       \* max_requests
    Window,      \* window_seconds, in ticks
    MaxKeys,     \* max_keys of the memory limiter
    None         \* no window, no decision

ASSUME LimiterAssumption ==
    /\ IsFiniteSet(Principals)
    /\ Limit \in Nat \ {0} /\ Window \in Nat \ {0} /\ MaxKeys \in Nat \ {0}

\* A window has at least one request in it; counts above the limit are one.
WindowRecords == [age : 0 .. Window, count : 1 .. Limit + 1]

ASSUME NoneAssumption == None \notin WindowRecords

VARIABLES
    backend,  \* RateLimitSettings.backend, fixed at start
    windows,  \* _windows, or the keys of Redis: age and count by principal
    verdict,  \* the decision just taken: for whom, and what
    charged   \* history: requests that used up the limit, by ticks ago

vars == <<backend, windows, verdict, charged>>

Ages == 0 .. Window - 1
Opened == [age |-> 0, count |-> 0]
Uncharged == [d \in Ages |-> 0]

Init ==
    /\ backend \in {"memory", "redis"}
    /\ windows = [p \in Principals |-> None]
    /\ verdict = None
    /\ charged = [p \in Principals |-> Uncharged]

\* Mutant: a window ends one tick early.
ExpiredEarly(w) == w.age + 1 >= Window

\* now - started >= window_seconds; EXPIRE's seconds have passed.
Expired(w) == w.age >= Window

Live == {p \in Principals : windows[p] # None /\ ~Expired(windows[p])}

\* The window a check of p finds, after the expired ones are gone.
WindowOf(p) == IF p \in Live THEN windows[p] ELSE Opened

Decide(p, outcome) == verdict' = [principal |-> p, outcome |-> outcome]
Charge(p) == charged' = [charged EXCEPT ![p][0] = @ + 1]

-----------------------------------------------------------------------------
\* Mutant: the limit is compared after the count, one request too late.
SpentLate(w) == w.count > Limit

\* count >= max_requests
Spent(w) == w.count >= Limit

\* The expired windows are popped whatever the decision is.
Prune == windows' = [p \in Principals |-> IF p \in Live THEN windows[p] ELSE None]

\* Mutant: the table is measured before the expired windows are popped.
IsFullUnpruned(p) ==
    p \notin Live /\ Cardinality({q \in Principals \ {p} : windows[q] # None}) >= MaxKeys

\* key not in _windows and len(_windows) >= max_keys
IsFull(p) == p \notin Live /\ Cardinality(Live) >= MaxKeys

MemoryAllows(p) ==
    /\ backend = "memory" /\ ~IsFull(p) /\ ~Spent(WindowOf(p))
    /\ windows' = [q \in Principals |->
           IF q = p THEN [WindowOf(p) EXCEPT !.count = @ + 1]
           ELSE IF q \in Live THEN windows[q] ELSE None]
    /\ Decide(p, "allowed") /\ Charge(p)
    /\ UNCHANGED backend

MemoryRefuses(p) ==
    /\ backend = "memory"
    /\ \/ IsFull(p) /\ Decide(p, "full")
       \/ ~IsFull(p) /\ Spent(WindowOf(p)) /\ Decide(p, "limited")
    /\ Prune
    /\ UNCHANGED <<backend, charged>>

-----------------------------------------------------------------------------
\* INCR, with EXPIRE for the first request of a window only.
Counted(w) == [w EXCEPT !.count = IF @ > Limit THEN @ ELSE @ + 1]

\* The script, with what it charges: a count above the limit uses up nothing.
Script(p) ==
    /\ windows' = [windows EXCEPT ![p] = Counted(WindowOf(p))]
    /\ IF Spent(WindowOf(p)) THEN UNCHANGED charged ELSE Charge(p)

RedisChecks(p) ==
    /\ backend = "redis"
    /\ Script(p)
    /\ Decide(p, IF Spent(WindowOf(p)) THEN "limited" ELSE "allowed")
    /\ UNCHANGED backend

\* Redis is unreachable, or its answer is lost after the script ran: 503.
RedisFails(p) ==
    /\ backend = "redis"
    /\ Script(p) \/ UNCHANGED <<windows, charged>>
    /\ Decide(p, "unavailable")
    /\ UNCHANGED backend

-----------------------------------------------------------------------------
\* Ages beyond Window are not told apart.
Tick ==
    /\ windows' = [p \in Principals |->
           IF windows[p] = None \/ windows[p].age = Window THEN windows[p]
           ELSE [windows[p] EXCEPT !.age = @ + 1]]
    /\ charged' = [p \in Principals |->
           [d \in Ages |-> IF d = 0 THEN 0 ELSE charged[p][d - 1]]]
    /\ verdict' = None
    /\ UNCHANGED backend

\* The process restarts, or Redis, which keeps nothing on disk: nobody's
\* requests are remembered, and the history begins anew.
Restart ==
    /\ windows' = [p \in Principals |-> None]
    /\ charged' = [p \in Principals |-> Uncharged]
    /\ verdict' = None
    /\ UNCHANGED backend

Next ==
    \/ \E p \in Principals :
          MemoryAllows(p) \/ MemoryRefuses(p) \/ RedisChecks(p) \/ RedisFails(p)
    \/ Tick \/ Restart

Spec == Init /\ [][Next]_vars

-----------------------------------------------------------------------------
\* Requests of p that used up its limit within the last Window ticks.
Recent(p) == SumFunction(charged[p])

\* The shapes of the variables; no tick sees more than Limit charges.
LimiterTypeOK ==
    /\ backend \in {"memory", "redis"}
    /\ windows \in [Principals -> WindowRecords \cup {None}]
    /\ charged \in [Principals -> [Ages -> 0 .. Limit]]
    /\ verdict = None \/
       verdict \in [principal : Principals,
                    outcome : {"allowed", "limited", "full", "unavailable"}]

\* A principal's burst over the border of two windows is less than twice the
\* limit in any Window consecutive ticks, with either backend.
BurstBound == \A p \in Principals : Recent(p) < 2 * Limit

\* "Rate limit exceeded" is said only to a principal that used up its limit
\* within the last Window ticks: refused requests do not prolong a window, and
\* requests whose answer was lost count only once.
RefusedOnlyWhenSpent ==
    verdict # None /\ verdict.outcome = "limited" => Recent(verdict.principal) >= Limit

\* The bounded table refuses a newcomer only while MaxKeys others were active
\* within the last Window ticks; windows that ended do not keep it full.
FullOnlyWhenBusy ==
    verdict # None /\ verdict.outcome = "full" =>
        Cardinality({q \in Principals \ {verdict.principal} : Recent(q) > 0}) >= MaxKeys

\* A request is refused for a cause that still holds: its own admitted requests
\* of the present window, or a table of live windows.
RefusedForCause == RefusedOnlyWhenSpent /\ FullOnlyWhenBusy

=============================================================================
