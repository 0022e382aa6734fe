------------------------------ MODULE JwksCache ------------------------------
(***************************************************************************)
(* The signing-key cache of ClerkJWTValidator (src/api/clerk_auth.py): the *)
(* requests of one API process validate tokens concurrently, share _keys   *)
(* and _expires_at, and refresh them under one asyncio lock.               *)
(*                                                                         *)
(* Coroutines interleave only where they await: at the lock when it is     *)
(* held or waited for, and at the HTTP request.  Everything between two    *)
(* awaits is one action.  The identity provider's key set is external: it  *)
(* rotates at any time, and answers with what it publishes when it is      *)
(* asked.                                                                  *)
(***************************************************************************)
EXTENDS Integers, FiniteSets

CONSTANTS
    Requests,       \* the requests that carry an account token
    Kids,           \* the key identifiers a provider may publish
    MaxRotations,   \* bound: changes of the published set
    Nobody          \* the holder of a free lock

ASSUME CacheAssumption == Nobody \notin Requests /\ MaxRotations \in Nat

VARIABLES
    published,  \* the key set the provider serves
    rotations,  \* how often it changed
    keys,       \* _keys
    fresh,      \* time.monotonic() < _expires_at
    lock,       \* the holder of _lock
    pc,         \* where a request is: see Stages
    kid,        \* the key its token names
    tries,      \* how many of its calls of _refresh_keys have begun
    reply,      \* the key set its HTTP response holds
    steady      \* history: its key has been published since it began

cacheVars == <<published, rotations, keys, fresh, lock, pc, kid, tries, reply, steady>>

Done == {"accepted", "unknown", "unavailable"}
Stages == {"idle", "waiting", "asking", "answered"} \cup Done

CacheInit ==
    /\ published \in (SUBSET Kids) \ {{}} /\ rotations = 0
    /\ keys = {} /\ fresh = FALSE /\ lock = Nobody
    /\ pc = [r \in Requests |-> "idle"]
    /\ kid \in [Requests -> Kids]
    /\ tries = [r \in Requests |-> 0]
    /\ reply = [r \in Requests |-> {}]
    /\ steady = [r \in Requests |-> FALSE]

Waiting == {r \in Requests : pc[r] = "waiting"}

-----------------------------------------------------------------------------
(* The validator, from one await to the next. ks and f are the cache as the *)
(* coroutine has left it so far.                                            *)

Move(r, stage) == pc' = [pc EXCEPT ![r] = stage]
Cache(ks, f) == keys' = ks /\ fresh' = f

\* asyncio.Lock: taken at once when it is free and nobody waits for it.
LockIsFree(r) == lock = Nobody /\ Waiting \ {r} = {}

\* validate_token asks for a refresh: r waits for the lock, or holds it and
\* sends the HTTP request.
Await(r, ks, f) ==
    /\ Cache(ks, f)
    /\ tries' = [tries EXCEPT ![r] = @ + 1]
    /\ UNCHANGED reply

Queue(r, ks, f) == Await(r, ks, f) /\ Move(r, "waiting")
Ask(r, ks, f)   == Await(r, ks, f) /\ Move(r, "asking") /\ lock' = r

\* After a refresh: the key is found, or the cache is emptied for the second
\* and last refresh, or the token is rejected.
Finish(r, stage, ks, f) ==
    /\ Move(r, stage) /\ Cache(ks, f) /\ UNCHANGED <<tries, reply>>

\* Mutant: a token is rejected after the first refresh.
LookUpOnce(r, ks, f) ==
    /\ lock' = Nobody
    /\ Finish(r, IF kid[r] \in ks THEN "accepted" ELSE "unknown", ks, f)

\* Runs at the release of the lock, after the first or the second refresh.
LookUp(r, ks, f) ==
    IF kid[r] \in ks THEN lock' = Nobody /\ Finish(r, "accepted", ks, f)
    ELSE IF tries[r] = 2 THEN lock' = Nobody /\ Finish(r, "unknown", ks, f)
    ELSE IF Waiting \ {r} = {} THEN Ask(r, {}, FALSE)
    ELSE lock' = Nobody /\ Queue(r, {}, FALSE)

\* _refresh_keys returns at once when another request has filled the cache.
RefreshIsDone(r) == keys # {} /\ fresh

-----------------------------------------------------------------------------

\* A known key of a fresh cache needs no await at all.
Validate(r) ==
    /\ pc[r] = "idle"
    /\ steady' = [steady EXCEPT ![r] = kid[r] \in published]
    /\ UNCHANGED <<published, rotations, kid>>
    /\ IF kid[r] \in keys /\ fresh
       THEN lock' = lock /\ Finish(r, "accepted", keys, fresh)
       ELSE IF ~LockIsFree(r) THEN lock' = lock /\ Queue(r, keys, fresh)
       ELSE IF ~RefreshIsDone(r) THEN Ask(r, keys, fresh)
       ELSE \* the first refresh returned at once; the second one asks
            /\ Cache({}, FALSE) /\ Move(r, "asking") /\ lock' = r
            /\ tries' = [tries EXCEPT ![r] = 2] /\ UNCHANGED reply

\* The lock was released and r is woken.
Acquire(r) ==
    /\ pc[r] = "waiting" /\ lock = Nobody
    /\ UNCHANGED <<published, rotations, kid, steady>>
    /\ IF RefreshIsDone(r) THEN LookUp(r, keys, fresh)
       ELSE /\ Move(r, "asking") /\ lock' = r
            /\ UNCHANGED <<keys, fresh, tries, reply>>

\* The provider answers what it publishes at this moment.
Answer(r) ==
    /\ pc[r] = "asking"
    /\ reply' = [reply EXCEPT ![r] = published]
    /\ Move(r, "answered")
    /\ UNCHANGED <<published, rotations, keys, fresh, lock, kid, tries, steady>>

\* The response arrives and replaces the cache.
Store(r) ==
    /\ pc[r] = "answered"
    /\ UNCHANGED <<published, rotations, kid, steady>>
    /\ LookUp(r, reply[r], TRUE)

\* Mutant: the lock is released only when the keys were stored.
FetchFailsHolding(r) ==
    /\ pc[r] \in {"asking", "answered"}
    /\ Move(r, "unavailable")
    /\ UNCHANGED <<published, rotations, keys, fresh, lock, kid, tries, reply, steady>>

\* The request fails, times out after 5 s, or holds no usable key.
FetchFails(r) ==
    /\ pc[r] \in {"asking", "answered"}
    /\ lock' = Nobody
    /\ Move(r, "unavailable")
    /\ UNCHANGED <<published, rotations, keys, fresh, kid, tries, reply, steady>>

\* CLERK_JWKS_CACHE_SECONDS have passed.
Expire ==
    /\ fresh /\ fresh' = FALSE
    /\ UNCHANGED <<published, rotations, keys, lock, pc, kid, tries, reply, steady>>

Rotate ==
    /\ rotations < MaxRotations
    /\ rotations' = rotations + 1
    /\ published' \in (SUBSET Kids) \ {{}, published}
    /\ steady' = [r \in Requests |-> steady[r] /\ kid[r] \in published']
    /\ UNCHANGED <<keys, fresh, lock, pc, kid, tries, reply>>

Step(r) == Validate(r) \/ Acquire(r) \/ Answer(r) \/ Store(r) \/ FetchFails(r)

CacheNext == (\E r \in Requests : Step(r)) \/ Expire \/ Rotate

CacheSpec == CacheInit /\ [][CacheNext]_cacheVars

\* A coroutine that can go on does, and a fetch answers or fails within 5 s.
FairCacheSpec == CacheSpec /\ \A r \in Requests : WF_cacheVars(Step(r))

-----------------------------------------------------------------------------

\* The lock is held by the one request that fetches, and by it alone.
CacheTypeOK ==
    /\ published \subseteq Kids /\ keys \subseteq Kids /\ fresh \in BOOLEAN
    /\ pc \in [Requests -> Stages] /\ kid \in [Requests -> Kids]
    /\ tries \in [Requests -> 0..2] /\ reply \in [Requests -> SUBSET Kids]
    /\ steady \in [Requests -> BOOLEAN]
    /\ \A r \in Requests : lock = r <=> pc[r] \in {"asking", "answered"}

\* "Rotation may occur before the cache expires. Force one bounded refresh."
\* A request whose key has been published ever since it began is never told
\* that the key is unknown, although the keys it looks in may come from a
\* fetch of another request: one refresh suffices whoever performs it.
PublishedKeyIsKnown ==
    \A r \in Requests : pc[r] = "unknown" => ~steady[r]

\* Every request that started to validate is answered: no holder keeps the
\* lock and no waiter is forgotten.
EveryRequestIsAnswered ==
    \A r \in Requests : pc[r] = "waiting" ~> pc[r] \in Done

=============================================================================
