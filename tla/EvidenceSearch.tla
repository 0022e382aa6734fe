---------------------------- MODULE EvidenceSearch -----------------------------
(***************************************************************************)
(* The shared Tavily transport of src/tools/tavily.py: the searches of one *)
(* gather, each of which looks in the cache, waits for a permit of the     *)
(* semaphore, posts, and backs off and tries again after a failure that    *)
(* may pass.  A query's answer is taken to be any of those it may get.     *)
(*                                                                         *)
(* Time is kept as the ages of the cached answers, in ticks.               *)
(***************************************************************************)
EXTENDS Integers, Sequences, FiniteSets, FiniteSetsExt, Functions

CONSTANTS
    Answers,      \* by topic, the pages a search may return, as sequences
    Concurrency,  \* permits of the semaphore
    MaxAttempts,  \* max_retries + 1
    CacheSize,    \* cache_max_size
    TTL           \* cache_ttl_seconds, in ticks

ASSUME TransportAssumption ==
    /\ Concurrency \in Nat \ {0} /\ MaxAttempts \in Nat \ {0}
    /\ CacheSize \in Nat \ {0} /\ TTL \in Nat

VARIABLES
    calls,  \* the searches of the gather in progress, in the plan's order
    cache   \* _cache: by query, the age of its answer and the pages of it

transport == <<calls, cache>>

Phases == {"new", "waiting", "posted", "asleep", "ended"}

Search(q) == [query |-> q, phase |-> "new", tries |-> 0, failed |-> FALSE,
              pages |-> <<>>]

Posted == {i \in DOMAIN calls : calls[i].phase = "posted"}
AllEnded == \A i \in DOMAIN calls : calls[i].phase = "ended"

\* monotonic() - created <= cache_ttl_seconds
Fresh(q) == q \in DOMAIN cache /\ cache[q].age <= TTL

\* Room is made whenever the cache is full, though the key be there already.
Stored(q, pages) ==
    LET oldest == CHOOSE k \in DOMAIN cache :
                    \A j \in DOMAIN cache : cache[k].age >= cache[j].age
        kept == IF Cardinality(DOMAIN cache) >= CacheSize
                THEN DOMAIN cache \ {oldest} ELSE DOMAIN cache
    IN [k \in kept \cup {q} |-> IF k = q THEN [age |-> 0, pages |-> pages]
                                         ELSE cache[k]]

-----------------------------------------------------------------------------

IdleTransport == calls = <<>> /\ cache = << >>

\* search_many_isolated: the searches are gathered, none waits for another.
Gather(queries) ==
    calls' = [i \in DOMAIN queries |-> Search(queries[i])]

\* An answer from the cache.
Hit(i) ==
    /\ calls[i].phase = "new" /\ Fresh(calls[i].query)
    /\ calls' = [calls EXCEPT ![i] =
                   [@ EXCEPT !.phase = "ended", !.pages = cache[calls[i].query].pages]]
    /\ UNCHANGED cache

\* No answer, or one that is too old and is removed.
Miss(i) ==
    /\ calls[i].phase = "new" /\ ~Fresh(calls[i].query)
    /\ calls' = [calls EXCEPT ![i] = [@ EXCEPT !.phase = "waiting"]]
    /\ cache' = Restrict(cache, DOMAIN cache \ {calls[i].query})

Post(i) ==
    /\ calls[i].phase = "waiting" /\ Cardinality(Posted) < Concurrency
    /\ calls' = [calls EXCEPT ![i] = [@ EXCEPT !.phase = "posted"]]
    /\ UNCHANGED cache

Answer(i) ==
    /\ calls[i].phase = "posted"
    /\ \E pages \in Answers[calls[i].query.topic] :
         /\ calls' = [calls EXCEPT ![i] = [@ EXCEPT !.phase = "ended", !.pages = pages]]
         /\ cache' = Stored(calls[i].query, pages)

\* A rate limit, a service or network error, a timeout: the call sleeps, and
\* raises after the last attempt.
Fail(i) ==
    /\ calls[i].phase = "posted"
    /\ LET last == calls[i].tries + 1 = MaxAttempts IN
         calls' = [calls EXCEPT ![i] =
                     [@ EXCEPT !.tries = calls[i].tries + 1, !.failed = last,
                               !.phase = IF last THEN "ended" ELSE "asleep"]]
    /\ UNCHANGED cache

\* No key, or a key or a request that is refused: raised at once.
Refuse(i) ==
    /\ calls[i].phase = "posted"
    /\ calls' = [calls EXCEPT ![i] = [@ EXCEPT !.phase = "ended", !.failed = TRUE]]
    /\ UNCHANGED cache

\* Mutant: the attempt is not counted.
WakeAnew(i) ==
    /\ calls[i].phase = "asleep"
    /\ calls' = [calls EXCEPT ![i] = [@ EXCEPT !.phase = "waiting", !.tries = 0]]
    /\ UNCHANGED cache

\* asyncio.sleep is over: the next attempt.
Wake(i) ==
    /\ calls[i].phase = "asleep"
    /\ calls' = [calls EXCEPT ![i] = [@ EXCEPT !.phase = "waiting"]]
    /\ UNCHANGED cache

Step(i) == Hit(i) \/ Miss(i) \/ Post(i) \/ Answer(i) \/ Fail(i) \/ Refuse(i)
           \/ Wake(i)

\* Ages above TTL are not told apart.
Age ==
    /\ \E k \in DOMAIN cache : cache[k].age <= TTL
    /\ cache' = [k \in DOMAIN cache |->
                   [cache[k] EXCEPT !.age = Min({@ + 1, TTL + 1})]]
    /\ UNCHANGED calls

\* The gather is cancelled with the run that awaits it.
Cancelled == calls' = <<>>
=============================================================================
