----------------------------- MODULE EdgeProofs ------------------------------
(***************************************************************************)
(* Proofs about what a request meets before its handler runs: the key      *)
(* cache of JwksCache, for any requests, keys and rotations, and the       *)
(* limiters of RateLimiter, for any principals, limit, window and capacity.*)
(***************************************************************************)
EXTENDS JwksCache, RateLimiter, Sums

-----------------------------------------------------------------------------
(* The key cache.                                                           *)

\* What a request whose key stays published may find: its key is in every
\* response it gets itself, and while it waits for its second refresh, in
\* every response and every cache that is not empty.
KeysFound ==
    \A r \in Requests : steady[r] =>
        /\ kid[r] \in published
        /\ pc[r] # "unknown"
        /\ pc[r] = "answered" => kid[r] \in reply[r]
        /\ pc[r] = "waiting" /\ tries[r] = 2 =>
              /\ keys = {} \/ kid[r] \in keys
              /\ \A q \in Requests : pc[q] = "answered" => kid[r] \in reply[q]

\* A request that awaits something has begun one refresh, or two.
TriesBegun ==
    \A r \in Requests :
        /\ pc[r] = "idle" => tries[r] = 0
        /\ pc[r] \in {"waiting", "asking", "answered"} => tries[r] \in {1, 2}

CacheInv == CacheTypeOK /\ KeysFound /\ TriesBegun

\* Only one request is between its HTTP request and its release of the lock.
LEMMA OneFetch ==
    ASSUME CacheTypeOK, NEW r \in Requests, NEW q \in Requests,
           pc[r] \in {"asking", "answered"}, pc[q] \in {"asking", "answered"}
    PROVE  r = q
  BY DEF CacheTypeOK

\* While the lock is free no response is under way.
LEMMA FreeLock ==
    ASSUME CacheTypeOK, lock = Nobody
    PROVE  \A r \in Requests : pc[r] \notin {"asking", "answered"}
  BY CacheAssumption DEF CacheTypeOK

LEMMA CacheInitial == CacheInit => CacheInv
<1> SUFFICES ASSUME CacheInit PROVE CacheInv
  OBVIOUS
<1>1. CacheTypeOK
  <2>1. published \in SUBSET Kids /\ keys \subseteq Kids /\ fresh \in BOOLEAN
    BY DEF CacheInit
  <2>2. /\ pc \in [Requests -> Stages] /\ kid \in [Requests -> Kids]
        /\ tries \in [Requests -> 0..2]
    BY DEF CacheInit, Stages
  <2>3. reply \in [Requests -> SUBSET Kids] /\ steady \in [Requests -> BOOLEAN]
    BY DEF CacheInit
  <2>4. \A r \in Requests : lock # r /\ pc[r] = "idle"
    BY CacheAssumption DEF CacheInit
  <2> QED
    BY <2>1, <2>2, <2>3, <2>4 DEF CacheTypeOK
<1>2. KeysFound
  BY DEF CacheInit, KeysFound
<1>3. TriesBegun
  BY DEF CacheInit, TriesBegun
<1> QED
  BY <1>1, <1>2, <1>3 DEF CacheInv

\* What LookUp leaves when its caller holds the lock or finds it free, as a
\* choice of its four outcomes.
LEMMA LookUpCases ==
    ASSUME NEW r \in Requests, NEW ks, NEW f, LookUp(r, ks, f)
    PROVE  \/ /\ kid[r] \in ks /\ lock' = Nobody /\ Move(r, "accepted")
              /\ keys' = ks /\ fresh' = f /\ UNCHANGED <<tries, reply>>
           \/ /\ kid[r] \notin ks /\ tries[r] = 2 /\ lock' = Nobody
              /\ Move(r, "unknown")
              /\ keys' = ks /\ fresh' = f /\ UNCHANGED <<tries, reply>>
           \/ /\ kid[r] \notin ks /\ tries[r] # 2 /\ lock' = r /\ Move(r, "asking")
              /\ keys' = {} /\ fresh' = FALSE
              /\ tries' = [tries EXCEPT ![r] = @ + 1] /\ UNCHANGED reply
           \/ /\ kid[r] \notin ks /\ tries[r] # 2 /\ lock' = Nobody
              /\ Move(r, "waiting")
              /\ keys' = {} /\ fresh' = FALSE
              /\ tries' = [tries EXCEPT ![r] = @ + 1] /\ UNCHANGED reply
<1>1. CASE kid[r] \in ks
  BY <1>1 DEF LookUp, Finish, Cache
<1>2. CASE kid[r] \notin ks /\ tries[r] = 2
  BY <1>2 DEF LookUp, Finish, Cache
<1>3. CASE kid[r] \notin ks /\ tries[r] # 2 /\ Waiting \ {r} = {}
  <2>1. Ask(r, {}, FALSE)
    BY <1>3 DEF LookUp
  <2> QED
    BY <1>3, <2>1 DEF Ask, Await, Cache
<1>4. CASE kid[r] \notin ks /\ tries[r] # 2 /\ Waiting \ {r} # {}
  <2>1. lock' = Nobody /\ Queue(r, {}, FALSE)
    BY <1>4 DEF LookUp
  <2> QED
    BY <1>4, <2>1 DEF Queue, Await, Cache
<1> QED
  BY <1>1, <1>2, <1>3, <1>4

\* A request that has stored its response, or found the cache filled, keeps
\* the invariant: the keys it looks in hold its own key if that is still
\* published, and the key of every waiter that may have to rely on them.
LEMMA LookUpKeeps ==
    ASSUME CacheInv, NEW r \in Requests, NEW ks \in SUBSET Kids, NEW f \in BOOLEAN,
           UNCHANGED <<published, rotations, kid, steady>>,
           \A q \in Requests \ {r} : pc[q] \notin {"asking", "answered"},
           pc[r] \in {"waiting", "answered"},
           lock \in {r, Nobody},
           steady[r] /\ tries[r] = 2 => kid[r] \in ks,
           \A q \in Requests \ {r} :
               steady[q] /\ pc[q] = "waiting" /\ tries[q] = 2 => ks = {} \/ kid[q] \in ks,
           LookUp(r, ks, f)
    PROVE  CacheInv'
<1> USE DEF CacheInv
<1>0. /\ pc \in [Requests -> Stages] /\ kid \in [Requests -> Kids]
      /\ tries \in [Requests -> 0..2] /\ reply \in [Requests -> SUBSET Kids]
      /\ r # Nobody
  BY CacheAssumption DEF CacheTypeOK
<1>t. tries[r] \in {1, 2}
  BY DEF TriesBegun
<1>1. CASE /\ kid[r] \in ks /\ lock' = Nobody /\ Move(r, "accepted")
           /\ keys' = ks /\ fresh' = f /\ UNCHANGED <<tries, reply>>
  <2>1. CacheTypeOK'
    BY <1>0, <1>1, CacheAssumption DEF CacheTypeOK, Move, Stages, Done
  <2>2. KeysFound'
    BY <1>0, <1>1 DEF KeysFound, Move
  <2>4. TriesBegun'
    BY <1>0, <1>t, <1>1 DEF TriesBegun, Move
  <2> QED
    BY <2>1, <2>2, <2>4
<1>2. CASE /\ kid[r] \notin ks /\ tries[r] = 2 /\ lock' = Nobody
           /\ Move(r, "unknown")
           /\ keys' = ks /\ fresh' = f /\ UNCHANGED <<tries, reply>>
  <2>1. CacheTypeOK'
    BY <1>0, <1>2, CacheAssumption DEF CacheTypeOK, Move, Stages, Done
  <2>2. KeysFound'
    BY <1>0, <1>2 DEF KeysFound, Move
  <2>4. TriesBegun'
    BY <1>0, <1>t, <1>2 DEF TriesBegun, Move
  <2> QED
    BY <2>1, <2>2, <2>4
<1>3. CASE /\ kid[r] \notin ks /\ tries[r] # 2 /\ lock' = r /\ Move(r, "asking")
           /\ keys' = {} /\ fresh' = FALSE
           /\ tries' = [tries EXCEPT ![r] = @ + 1] /\ UNCHANGED reply
  <2>1. CacheTypeOK'
    <3>1. tries[r] = 1
      BY <1>3, <1>t
    <3>2. tries' \in [Requests -> 0..2]
      BY <1>0, <1>3, <3>1
    <3>3. pc' \in [Requests -> Stages] /\ reply' \in [Requests -> SUBSET Kids]
      BY <1>0, <1>3 DEF Move, Stages
    <3>4. \A q \in Requests : lock' = q <=> pc'[q] \in {"asking", "answered"}
      BY <1>0, <1>3, CacheAssumption DEF Move
    <3> QED
      BY <1>3, <3>2, <3>3, <3>4 DEF CacheTypeOK
  <2>2. /\ pc'[r] = "asking"
        /\ \A q \in Requests : pc'[q] # "answered"
        /\ \A q \in Requests \ {r} : pc'[q] = pc[q] /\ tries'[q] = tries[q]
        /\ keys' = {} /\ UNCHANGED reply
    BY <1>0, <1>3 DEF Move
  <2>3. KeysFound'
    BY <2>2 DEF KeysFound
  <2>4. TriesBegun'
    BY <1>0, <1>t, <1>3 DEF TriesBegun, Move
  <2> QED
    BY <2>1, <2>3, <2>4
<1>4. CASE /\ kid[r] \notin ks /\ tries[r] # 2 /\ lock' = Nobody
           /\ Move(r, "waiting")
           /\ keys' = {} /\ fresh' = FALSE
           /\ tries' = [tries EXCEPT ![r] = @ + 1] /\ UNCHANGED reply
  <2>1. CacheTypeOK'
    <3>1. tries[r] = 1
      BY <1>4, <1>t
    <3>2. tries' \in [Requests -> 0..2]
      BY <1>0, <1>4, <3>1
    <3>3. pc' \in [Requests -> Stages] /\ reply' \in [Requests -> SUBSET Kids]
      BY <1>0, <1>4 DEF Move, Stages
    <3>4. \A q \in Requests : lock' = q <=> pc'[q] \in {"asking", "answered"}
      BY <1>0, <1>4, CacheAssumption DEF Move
    <3> QED
      BY <1>4, <3>2, <3>3, <3>4 DEF CacheTypeOK
  <2>2. /\ pc'[r] = "waiting"
        /\ \A q \in Requests : pc'[q] # "answered"
        /\ \A q \in Requests \ {r} : pc'[q] = pc[q] /\ tries'[q] = tries[q]
        /\ keys' = {} /\ UNCHANGED reply
    BY <1>0, <1>4 DEF Move
  <2>3. KeysFound'
    BY <2>2 DEF KeysFound
  <2>4. TriesBegun'
    BY <1>0, <1>t, <1>4 DEF TriesBegun, Move
  <2> QED
    BY <2>1, <2>3, <2>4
<1> QED
  BY <1>1, <1>2, <1>3, <1>4, LookUpCases

LEMMA ValidateKeeps ==
    ASSUME CacheInv, NEW r \in Requests, Validate(r)
    PROVE  CacheInv'
<1> USE DEF CacheInv
<1>0. /\ pc \in [Requests -> Stages] /\ kid \in [Requests -> Kids]
      /\ tries \in [Requests -> 0..2] /\ reply \in [Requests -> SUBSET Kids]
      /\ steady \in [Requests -> BOOLEAN]
      /\ r # Nobody /\ pc[r] = "idle" /\ tries[r] = 0 /\ lock # r
  BY CacheAssumption DEF CacheTypeOK, Validate, TriesBegun
<1>s. /\ steady' \in [Requests -> BOOLEAN]
      /\ steady'[r] = (kid[r] \in published)
      /\ \A q \in Requests \ {r} : steady'[q] = steady[q]
      /\ UNCHANGED <<published, rotations, kid>>
  BY <1>0 DEF Validate
\* Whatever r does next, it is not yet waiting for a second refresh, and the
\* cache is as it was, or empty with the lock r's.
<1> DEFINE To(stage, n) ==
             /\ pc' = [pc EXCEPT ![r] = stage] /\ UNCHANGED reply
             /\ tries' = [tries EXCEPT ![r] = n]
             /\ stage = "waiting" => n = 1
             /\ stage = "asking" => n # 0
             /\ IF stage = "asking" THEN lock = Nobody /\ lock' = r ELSE lock' = lock
             /\ \/ UNCHANGED <<keys, fresh>>
                \/ keys' = {} /\ fresh' = FALSE
<1>1. ASSUME NEW stage \in {"accepted", "waiting", "asking"}, NEW n \in {0, 1, 2},
             To(stage, n)
      PROVE  CacheInv'
  <2>1. /\ pc' \in [Requests -> Stages] /\ tries' \in [Requests -> 0..2]
        /\ pc'[r] = stage /\ tries'[r] = n
        /\ \A q \in Requests \ {r} : pc'[q] = pc[q] /\ tries'[q] = tries[q]
    BY <1>0, <1>1 DEF Stages, Done
  <2>2. keys' \subseteq Kids /\ fresh' \in BOOLEAN
    BY <1>1 DEF CacheTypeOK
  <2>3. \A q \in Requests : lock' = q <=> pc'[q] \in {"asking", "answered"}
    <3>1. CASE stage = "asking"
      BY <1>0, <1>1, <2>1, <3>1, FreeLock
    <3>2. CASE stage # "asking"
      BY <1>0, <1>1, <2>1, <3>2 DEF CacheTypeOK
    <3> QED
      BY <3>1, <3>2
  <2>4. CacheTypeOK'
    BY <1>0, <1>1, <1>s, <2>1, <2>2, <2>3 DEF CacheTypeOK
  <2>5. KeysFound'
    BY <1>1, <1>s, <2>1 DEF KeysFound
  <2>6. TriesBegun'
    BY <1>1, <2>1 DEF TriesBegun
  <2> QED
    BY <2>4, <2>5, <2>6
<1> HIDE DEF CacheInv, To
<1>2. CASE kid[r] \in keys /\ fresh
  <2>1. lock' = lock /\ pc' = [pc EXCEPT ![r] = "accepted"] /\ UNCHANGED <<keys, fresh, tries, reply>>
    BY <1>2 DEF Validate, Move, Finish, Cache
  <2>2. tries' = [tries EXCEPT ![r] = 0]
    BY <1>0, <2>1
  <2>3. To("accepted", 0)
    BY <2>1, <2>2 DEF To
  <2> QED
    BY <1>1, <2>3
<1>3. CASE ~(kid[r] \in keys /\ fresh) /\ ~LockIsFree(r)
  <2>1. /\ lock' = lock /\ pc' = [pc EXCEPT ![r] = "waiting"] /\ UNCHANGED <<keys, fresh, reply>>
        /\ tries' = [tries EXCEPT ![r] = @ + 1]
    BY <1>3 DEF Validate, Move, Queue, Await, Cache
  <2>2. tries' = [tries EXCEPT ![r] = 1]
    BY <1>0, <2>1
  <2>3. To("waiting", 1)
    BY <2>1, <2>2 DEF To
  <2> QED
    BY <1>1, <2>3
<1>4. CASE ~(kid[r] \in keys /\ fresh) /\ LockIsFree(r) /\ ~RefreshIsDone(r)
  <2>1. /\ lock' = r /\ pc' = [pc EXCEPT ![r] = "asking"] /\ UNCHANGED <<keys, fresh, reply>>
        /\ tries' = [tries EXCEPT ![r] = @ + 1]
    BY <1>4 DEF Validate, Move, Ask, Await, Cache
  <2>2. tries' = [tries EXCEPT ![r] = 1]
    BY <1>0, <2>1
  <2>3. lock = Nobody /\ lock' = r /\ pc' = [pc EXCEPT ![r] = "asking"] /\ UNCHANGED <<keys, fresh, reply>>
    BY <1>4, <2>1 DEF LockIsFree
  <2>4. To("asking", 1)
    BY ONLY <2>2, <2>3 DEF To
  <2> QED
    BY <1>1, <2>4
<1>5. CASE ~(kid[r] \in keys /\ fresh) /\ LockIsFree(r) /\ RefreshIsDone(r)
  <2>1. /\ lock' = r /\ pc' = [pc EXCEPT ![r] = "asking"] /\ keys' = {} /\ fresh' = FALSE
        /\ tries' = [tries EXCEPT ![r] = 2] /\ UNCHANGED reply
    BY <1>5 DEF Validate, Move, Cache
  <2>3. To("asking", 2)
    BY <1>5, <2>1 DEF To, LockIsFree
  <2> QED
    BY <1>1, <2>3
<1> QED
  BY <1>2, <1>3, <1>4, <1>5

LEMMA AcquireKeeps ==
    ASSUME CacheInv, NEW r \in Requests, Acquire(r)
    PROVE  CacheInv'
<1> USE DEF CacheInv
<1>0. /\ pc[r] = "waiting" /\ lock = Nobody
      /\ UNCHANGED <<published, rotations, kid, steady>>
      /\ \A q \in Requests : pc[q] \notin {"asking", "answered"}
  BY FreeLock DEF Acquire
<1>1. CASE RefreshIsDone(r)
  <2>1. LookUp(r, keys, fresh) /\ keys # {}
    BY <1>1 DEF Acquire, RefreshIsDone
  <2>2. \A q \in Requests : steady[q] /\ pc[q] = "waiting" /\ tries[q] = 2 => kid[q] \in keys
    BY <2>1 DEF KeysFound
  <2>3. keys \in SUBSET Kids /\ fresh \in BOOLEAN
    BY DEF CacheTypeOK
  <2> QED
    BY <1>0, <2>1, <2>2, <2>3, LookUpKeeps
<1>2. CASE ~RefreshIsDone(r)
  <2>1. Move(r, "asking") /\ lock' = r /\ UNCHANGED <<keys, fresh, tries, reply>>
    BY <1>2 DEF Acquire
  <2>2. /\ pc' \in [Requests -> Stages] /\ pc'[r] = "asking"
        /\ \A q \in Requests \ {r} : pc'[q] = pc[q]
    BY <2>1 DEF CacheTypeOK, Move, Stages
  <2>3. CacheTypeOK'
    BY <1>0, <2>1, <2>2, CacheAssumption DEF CacheTypeOK
  <2>4. KeysFound' /\ TriesBegun'
    BY <1>0, <2>1, <2>2 DEF KeysFound, TriesBegun
  <2> QED
    BY <2>3, <2>4
<1> QED
  BY <1>1, <1>2

LEMMA AnswerKeeps ==
    ASSUME CacheInv, NEW r \in Requests, Answer(r)
    PROVE  CacheInv'
<1> USE DEF CacheInv
<1>1. /\ pc[r] = "asking" /\ Move(r, "answered")
      /\ reply' = [reply EXCEPT ![r] = published]
      /\ UNCHANGED <<published, rotations, keys, fresh, lock, kid, tries, steady>>
  BY DEF Answer
<1>2. /\ pc' \in [Requests -> Stages] /\ pc'[r] = "answered"
      /\ reply' \in [Requests -> SUBSET Kids] /\ reply'[r] = published
      /\ \A q \in Requests \ {r} : pc'[q] = pc[q] /\ reply'[q] = reply[q]
  BY <1>1 DEF CacheTypeOK, Move, Stages
<1>3. CacheTypeOK'
  BY <1>1, <1>2 DEF CacheTypeOK
<1>4. KeysFound'
  BY <1>1, <1>2 DEF KeysFound
<1>5. TriesBegun'
  BY <1>1, <1>2 DEF TriesBegun
<1> QED
  BY <1>3, <1>4, <1>5

LEMMA StoreKeeps ==
    ASSUME CacheInv, NEW r \in Requests, Store(r)
    PROVE  CacheInv'
<1> USE DEF CacheInv
<1>1. /\ pc[r] = "answered" /\ LookUp(r, reply[r], TRUE)
      /\ UNCHANGED <<published, rotations, kid, steady>>
  BY DEF Store
<1>2. lock = r /\ reply[r] \in SUBSET Kids
  BY <1>1 DEF CacheTypeOK
<1>3. \A q \in Requests \ {r} : pc[q] \notin {"asking", "answered"}
  BY <1>1, OneFetch
<1>4. /\ steady[r] => kid[r] \in reply[r]
      /\ \A q \in Requests :
            steady[q] /\ pc[q] = "waiting" /\ tries[q] = 2 => kid[q] \in reply[r]
  BY <1>1 DEF KeysFound
<1> QED
  BY <1>1, <1>2, <1>3, <1>4, LookUpKeeps

LEMMA FetchFailsKeeps ==
    ASSUME CacheInv, NEW r \in Requests, FetchFails(r)
    PROVE  CacheInv'
<1> USE DEF CacheInv
<1>1. /\ pc[r] \in {"asking", "answered"} /\ Move(r, "unavailable") /\ lock' = Nobody
      /\ UNCHANGED <<published, rotations, keys, fresh, kid, tries, reply, steady>>
  BY DEF FetchFails
<1>2. /\ pc' \in [Requests -> Stages] /\ pc'[r] = "unavailable"
      /\ \A q \in Requests \ {r} : pc'[q] = pc[q]
  BY <1>1 DEF CacheTypeOK, Move, Stages, Done
<1>3. \A q \in Requests \ {r} : pc[q] \notin {"asking", "answered"}
  BY <1>1, OneFetch
<1>4. CacheTypeOK'
  BY <1>1, <1>2, <1>3, CacheAssumption DEF CacheTypeOK
<1>5. KeysFound' /\ TriesBegun'
  BY <1>1, <1>2 DEF KeysFound, TriesBegun
<1> QED
  BY <1>4, <1>5

\* Outside the requests: the provider rotates and the cache expires.
LEMMA EnvironmentKeeps ==
    ASSUME CacheInv, Expire \/ Rotate
    PROVE  CacheInv'
<1> USE DEF CacheInv
<1>1. CASE Expire
  <2>1. CacheTypeOK'
    BY <1>1 DEF Expire, CacheTypeOK
  <2> QED
    BY <1>1, <2>1 DEF Expire, KeysFound, TriesBegun
<1>2. CASE Rotate
  <2>1. /\ published' \in SUBSET Kids
        /\ steady' = [r \in Requests |-> steady[r] /\ kid[r] \in published']
        /\ UNCHANGED <<keys, fresh, lock, pc, kid, tries, reply>>
    BY <1>2 DEF Rotate
  <2>2. \A r \in Requests : steady'[r] => steady[r] /\ kid[r] \in published'
    BY <2>1
  <2>3. CacheTypeOK'
    BY <2>1 DEF CacheTypeOK
  <2>4. KeysFound' /\ TriesBegun'
    BY <2>1, <2>2 DEF KeysFound, TriesBegun
  <2> QED
    BY <2>3, <2>4
<1> QED
  BY <1>1, <1>2

LEMMA CacheInductive == CacheInv /\ [CacheNext]_cacheVars => CacheInv'
<1> SUFFICES ASSUME CacheInv, [CacheNext]_cacheVars PROVE CacheInv'
  OBVIOUS
<1>1. ASSUME NEW r \in Requests, Step(r) PROVE CacheInv'
  BY <1>1, ValidateKeeps, AcquireKeeps, AnswerKeeps, StoreKeeps, FetchFailsKeeps
     DEF Step
<1>2. CASE Expire \/ Rotate
  BY <1>2, EnvironmentKeeps
<1>3. CASE UNCHANGED cacheVars
  BY <1>3 DEF cacheVars, CacheInv, CacheTypeOK, KeysFound, TriesBegun
<1> QED
  BY <1>1, <1>2, <1>3 DEF CacheNext

\* The lock is held by the one request that fetches, in every behaviour.
THEOREM CacheTypeCorrect == CacheSpec => []CacheTypeOK
<1>1. CacheInv => CacheTypeOK
  BY DEF CacheInv
<1> QED
  BY <1>1, CacheInitial, CacheInductive, PTL DEF CacheSpec

\* A request is never told that a key is unknown which was published ever since
\* the request began: the second refresh of validate_token is enough, also when
\* another request performs it.
THEOREM PublishedKeysAreKnown == CacheSpec => []PublishedKeyIsKnown
<1>1. CacheInv => PublishedKeyIsKnown
  BY DEF CacheInv, KeysFound, PublishedKeyIsKnown
<1> QED
  BY <1>1, CacheInitial, CacheInductive, PTL DEF CacheSpec

-----------------------------------------------------------------------------
(* The rate limiters.                                                       *)

\* What a principal was charged in the present tick is counted in a live window.
ChargesCounted ==
    \A p \in Principals : charged[p][0] > 0 =>
        p \in Live /\ charged[p][0] <= windows[p].count

LimiterInv == LimiterTypeOK /\ ChargesCounted

LEMMA InitInv == Init => LimiterInv
<1> SUFFICES ASSUME Init PROVE LimiterInv
  OBVIOUS
<1>1. LimiterTypeOK
  BY LimiterAssumption DEF Init, LimiterTypeOK, Uncharged, Ages
<1>2. ChargesCounted
  BY LimiterAssumption DEF Init, ChargesCounted, Uncharged, Ages
<1> QED
  BY <1>1, <1>2 DEF LimiterInv

\* The parts of LimiterTypeOK about windows and charges.
LEMMA Shapes ==
    ASSUME LimiterTypeOK, NEW p \in Principals
    PROVE  /\ charged[p] \in [Ages -> 0 .. Limit]
           /\ charged[p][0] \in 0 .. Limit
           /\ p \in Live => windows[p] \in WindowRecords /\ windows[p].age < Window
           /\ WindowOf(p).age \in 0 .. Window - 1
           /\ WindowOf(p).count \in 0 .. Limit + 1
           /\ DOMAIN WindowOf(p) = {"age", "count"}
<1>1. 0 \in Ages
  BY LimiterAssumption DEF Ages
<1>2. charged[p] \in [Ages -> 0 .. Limit] /\ charged[p][0] \in 0 .. Limit
  BY <1>1 DEF LimiterTypeOK
<1>3. p \in Live => windows[p] \in WindowRecords /\ windows[p].age < Window
  BY LimiterAssumption DEF LimiterTypeOK, Live, Expired, WindowRecords
<1>4. CASE p \in Live
  BY <1>2, <1>3, <1>4, LimiterAssumption DEF WindowOf, WindowRecords
<1>5. CASE p \notin Live
  BY <1>2, <1>3, <1>5, LimiterAssumption DEF WindowOf, Opened
<1> QED
  BY <1>4, <1>5

\* A request that finds its limit not spent is charged within the limit.
LEMMA ChargeKeeps ==
    ASSUME LimiterInv, NEW p \in Principals, ~Spent(WindowOf(p)), Charge(p)
    PROVE  /\ charged' \in [Principals -> [Ages -> 0 .. Limit]]
           /\ charged'[p][0] <= WindowOf(p).count + 1
           /\ \A q \in Principals \ {p} : charged'[q] = charged[q]
<1>1. charged \in [Principals -> [Ages -> 0 .. Limit]]
  BY DEF LimiterInv, LimiterTypeOK
<1>2. 0 \in Ages
  BY LimiterAssumption DEF Ages
<1>3. WindowOf(p).count < Limit /\ WindowOf(p).count \in Nat
  BY Shapes, LimiterAssumption DEF LimiterInv, Spent
<1>4. charged[p][0] <= WindowOf(p).count
  <2>1. charged[p][0] \in 0 .. Limit
    BY Shapes DEF LimiterInv
  <2>2. CASE p \in Live
    BY <1>3, <2>1, <2>2 DEF LimiterInv, ChargesCounted, WindowOf
  <2>3. CASE p \notin Live
    BY <1>3, <2>1, <2>3 DEF LimiterInv, ChargesCounted
  <2> QED
    BY <2>2, <2>3
<1>5. charged[p][0] \in 0 .. Limit
  BY Shapes DEF LimiterInv
<1>6. charged[p][0] + 1 \in 0 .. Limit
  BY <1>3, <1>4, <1>5, LimiterAssumption
<1>7. charged' = [charged EXCEPT ![p] = [charged[p] EXCEPT ![0] = charged[p][0] + 1]]
  BY DEF Charge
<1>8. [charged[p] EXCEPT ![0] = charged[p][0] + 1] \in [Ages -> 0 .. Limit]
  BY <1>1, <1>2, <1>6
<1>9. charged'[p][0] = charged[p][0] + 1
  BY <1>1, <1>2, <1>7
<1> QED
  BY <1>1, <1>3, <1>4, <1>5, <1>7, <1>8, <1>9

-----------------------------------------------------------------------------
\* What a step may do to the table so that the charges stay counted.
TableKept ==
    /\ windows' \in [Principals -> WindowRecords \cup {None}]
    /\ \A q \in Live : /\ windows'[q] # None
                        /\ windows'[q].age = windows[q].age
                        /\ windows'[q].count >= windows[q].count

VerdictKept ==
    /\ backend' \in {"memory", "redis"}
    /\ \/ verdict' = None
       \/ verdict' \in [principal : Principals,
                        outcome : {"allowed", "limited", "full", "unavailable"}]

\* A step that charges nobody, does not age and loses no live window.
LEMMA UnchargedStep ==
    ASSUME LimiterInv, TableKept, VerdictKept, charged' = charged
    PROVE  LimiterInv'
<1>1. LimiterTypeOK'
  BY DEF LimiterInv, LimiterTypeOK, TableKept, VerdictKept
<1>2. ASSUME NEW q \in Principals, charged'[q][0] > 0
      PROVE  q \in Live' /\ charged'[q][0] <= windows'[q].count
  <2>1. q \in Live /\ charged[q][0] <= windows[q].count
    BY <1>2 DEF LimiterInv, ChargesCounted
  <2>2. windows[q] \in WindowRecords /\ windows'[q] \in WindowRecords
    BY <2>1, Shapes DEF LimiterInv, TableKept
  <2>3. q \in Live'
    BY <2>1, <2>2 DEF Live, Expired, TableKept
  <2>4. charged[q][0] \in 0 .. Limit
    BY Shapes DEF LimiterInv
  <2> QED
    BY <2>1, <2>2, <2>3, <2>4, LimiterAssumption DEF WindowRecords, TableKept
<1> QED
  BY <1>1, <1>2 DEF LimiterInv, ChargesCounted

\* A step that counts one request of p in its window and charges it.
LEMMA ChargingStep ==
    ASSUME LimiterInv, NEW p \in Principals, ~Spent(WindowOf(p)), Charge(p),
           TableKept, VerdictKept,
           windows'[p] = [WindowOf(p) EXCEPT !.count = @ + 1]
    PROVE  LimiterInv'
<1>1. LimiterTypeOK'
  BY ChargeKeeps DEF LimiterTypeOK, TableKept, VerdictKept
<1>2. ASSUME NEW q \in Principals, charged'[q][0] > 0
      PROVE  q \in Live' /\ charged'[q][0] <= windows'[q].count
  <2>1. CASE q = p
    <3>1. /\ DOMAIN WindowOf(p) = {"age", "count"}
          /\ WindowOf(p).age \in 0 .. Window - 1
          /\ WindowOf(p).count \in 0 .. Limit + 1
      BY Shapes DEF LimiterInv
    <3>2. windows'[p].age = WindowOf(p).age /\ windows'[p].count = WindowOf(p).count + 1
      BY <3>1
    <3>3. windows'[p] \in WindowRecords
      <4>1. WindowOf(p).count < Limit
        BY <3>1, LimiterAssumption DEF Spent
      <4>2. windows'[p] = [age |-> WindowOf(p).age, count |-> WindowOf(p).count + 1]
        BY Shapes DEF LimiterInv, WindowOf, Opened, WindowRecords
      <4> QED
        BY <3>1, <4>1, <4>2, LimiterAssumption DEF WindowRecords
    <3>4. p \in Live'
      BY <3>1, <3>2, <3>3, NoneAssumption, LimiterAssumption DEF Live, Expired
    <3> QED
      BY <2>1, <3>2, <3>4, ChargeKeeps
  <2>2. CASE q # p
    <3>1. charged'[q] = charged[q]
      BY <2>2, ChargeKeeps
    <3>2. q \in Live /\ charged[q][0] <= windows[q].count
      BY <1>2, <3>1 DEF LimiterInv, ChargesCounted
    <3>3. windows[q] \in WindowRecords /\ windows'[q] \in WindowRecords
      BY <3>2, Shapes DEF LimiterInv, TableKept
    <3>4. q \in Live'
      BY <3>2, <3>3 DEF Live, Expired, TableKept
    <3>5. charged[q][0] \in 0 .. Limit
      BY Shapes DEF LimiterInv
    <3> QED
      BY <3>1, <3>2, <3>3, <3>4, <3>5, LimiterAssumption DEF WindowRecords, TableKept
  <2> QED
    BY <2>1, <2>2
<1> QED
  BY <1>1, <1>2 DEF LimiterInv, ChargesCounted

\* One request more in a window that is not spent is again a window.
LEMMA OneMore ==
    ASSUME LimiterInv, NEW p \in Principals, ~Spent(WindowOf(p))
    PROVE  /\ [WindowOf(p) EXCEPT !.count = @ + 1] \in WindowRecords
           /\ Counted(WindowOf(p)) = [WindowOf(p) EXCEPT !.count = @ + 1]
           /\ p \in Live =>
                 /\ [WindowOf(p) EXCEPT !.count = @ + 1].age = windows[p].age
                 /\ [WindowOf(p) EXCEPT !.count = @ + 1].count >= windows[p].count
<1>1. /\ WindowOf(p).age \in 0 .. Window - 1
      /\ WindowOf(p).count \in 0 .. Limit + 1
      /\ DOMAIN WindowOf(p) = {"age", "count"}
  BY Shapes DEF LimiterInv
<1>2. WindowOf(p).count < Limit
  BY <1>1, LimiterAssumption DEF Spent
<1>3. [WindowOf(p) EXCEPT !.count = @ + 1]
        = [age |-> WindowOf(p).age, count |-> WindowOf(p).count + 1]
  BY Shapes DEF LimiterInv, WindowOf, Opened, WindowRecords
<1>4. [WindowOf(p) EXCEPT !.count = @ + 1] \in WindowRecords
  BY <1>1, <1>2, <1>3, LimiterAssumption DEF WindowRecords
<1>5. Counted(WindowOf(p)) = [WindowOf(p) EXCEPT !.count = @ + 1]
  BY <1>1, <1>2, LimiterAssumption DEF Counted
<1>6. p \in Live => WindowOf(p) = windows[p]
  BY DEF WindowOf
<1> QED
  BY <1>1, <1>3, <1>4, <1>5, <1>6

-----------------------------------------------------------------------------
LEMMA MemoryAllowsKeeps ==
    ASSUME LimiterInv, NEW p \in Principals, MemoryAllows(p)
    PROVE  LimiterInv'
<1>1. windows \in [Principals -> WindowRecords \cup {None}]
  BY DEF LimiterInv, LimiterTypeOK
<1>2. ~Spent(WindowOf(p)) /\ Charge(p)
  BY DEF MemoryAllows
<1>3. VerdictKept
  BY DEF MemoryAllows, Decide, LimiterInv, LimiterTypeOK, VerdictKept
<1>4. windows'[p] = [WindowOf(p) EXCEPT !.count = @ + 1]
  BY DEF MemoryAllows
<1>5. windows' \in [Principals -> WindowRecords \cup {None}]
  BY <1>1, <1>2, OneMore DEF MemoryAllows
<1>6. \A q \in Live \ {p} : windows'[q] = windows[q]
  BY DEF MemoryAllows, Live
<1>7. \A q \in Live : windows[q] \in WindowRecords
  BY <1>1 DEF Live
<1>8. TableKept
  <2> SUFFICES ASSUME NEW q \in Live
               PROVE  /\ windows'[q] # None
                      /\ windows'[q].age = windows[q].age
                      /\ windows'[q].count >= windows[q].count
    BY <1>5 DEF TableKept
  <2>1. CASE q = p
    BY <2>1, <1>2, <1>4, OneMore, NoneAssumption
  <2>2. CASE q # p
    BY <2>2, <1>6, <1>7, NoneAssumption, LimiterAssumption DEF WindowRecords
  <2> QED
    BY <2>1, <2>2
<1> QED
  BY <1>2, <1>3, <1>4, <1>8, ChargingStep

LEMMA MemoryRefusesKeeps ==
    ASSUME LimiterInv, NEW p \in Principals, MemoryRefuses(p)
    PROVE  LimiterInv'
<1>1. windows \in [Principals -> WindowRecords \cup {None}]
  BY DEF LimiterInv, LimiterTypeOK
<1>2. VerdictKept
  BY DEF MemoryRefuses, Decide, LimiterInv, LimiterTypeOK, VerdictKept
<1>3. \A q \in Live : windows[q] \in WindowRecords /\ windows'[q] = windows[q]
  BY <1>1 DEF MemoryRefuses, Prune, Live
<1>4. TableKept
  BY <1>1, <1>3, NoneAssumption, LimiterAssumption
     DEF MemoryRefuses, Prune, TableKept, WindowRecords
<1> QED
  BY <1>2, <1>4, UnchargedStep DEF MemoryRefuses

\* The script of Redis, whoever receives its answer.
LEMMA ScriptKeeps ==
    ASSUME LimiterInv, NEW p \in Principals, Script(p), VerdictKept
    PROVE  LimiterInv'
<1>1. windows \in [Principals -> WindowRecords \cup {None}]
  BY DEF LimiterInv, LimiterTypeOK
<1>2. windows' = [windows EXCEPT ![p] = Counted(WindowOf(p))]
  BY DEF Script
<1>3. windows'[p] = Counted(WindowOf(p))
  BY <1>1, <1>2
<1>4. \A q \in Live \ {p} : windows[q] \in WindowRecords /\ windows'[q] = windows[q]
  BY <1>1, <1>2 DEF Live
<1>5. ASSUME /\ Counted(WindowOf(p)) \in WindowRecords
             /\ p \in Live => /\ Counted(WindowOf(p)).age = windows[p].age
                              /\ Counted(WindowOf(p)).count >= windows[p].count
      PROVE  TableKept
  <2>1. windows' \in [Principals -> WindowRecords \cup {None}]
    BY <1>1, <1>2, <1>5
  <2> SUFFICES ASSUME NEW q \in Live
               PROVE  /\ windows'[q] # None
                      /\ windows'[q].age = windows[q].age
                      /\ windows'[q].count >= windows[q].count
    BY <2>1 DEF TableKept
  <2>2. CASE q = p
    BY <2>2, <1>3, <1>5, NoneAssumption
  <2>3. CASE q # p
    BY <2>3, <1>4, NoneAssumption, LimiterAssumption DEF WindowRecords
  <2> QED
    BY <2>2, <2>3
<1>6. CASE Spent(WindowOf(p))
  <2>1. WindowOf(p) = [age |-> WindowOf(p).age, count |-> WindowOf(p).count]
    BY Shapes DEF LimiterInv, WindowOf, Opened, WindowRecords
  <2>2. /\ WindowOf(p).age \in 0 .. Window - 1
        /\ WindowOf(p).count \in 0 .. Limit + 1
        /\ WindowOf(p).count >= Limit
    BY <1>6, Shapes DEF LimiterInv, Spent
  <2>3. Counted(WindowOf(p)) = [age |-> WindowOf(p).age, count |-> Limit + 1]
    BY <2>1, <2>2, LimiterAssumption DEF Counted
  <2>4. p \in Live => WindowOf(p) = windows[p]
    BY DEF WindowOf
  <2>5. TableKept
    BY <1>5, <2>2, <2>3, <2>4, LimiterAssumption DEF WindowRecords
  <2> QED
    BY <1>6, <2>5, UnchargedStep DEF Script
<1>7. CASE ~Spent(WindowOf(p))
  <2>1. TableKept
    BY <1>5, <1>7, OneMore
  <2> QED
    BY <1>3, <1>7, <2>1, OneMore, ChargingStep DEF Script
<1> QED
  BY <1>6, <1>7

LEMMA RedisKeeps ==
    ASSUME LimiterInv, NEW p \in Principals, RedisChecks(p) \/ RedisFails(p)
    PROVE  LimiterInv'
<1>1. VerdictKept
  BY DEF RedisChecks, RedisFails, Decide, LimiterInv, LimiterTypeOK, VerdictKept
<1>2. CASE Script(p)
  BY <1>1, <1>2, ScriptKeeps
<1>3. CASE UNCHANGED <<windows, charged>>
  <2>1. TableKept
    <3> SUFFICES ASSUME NEW q \in Live
                 PROVE  windows[q] # None /\ windows[q].count >= windows[q].count
      BY <1>3 DEF TableKept, LimiterInv, LimiterTypeOK
    <3>1. windows[q] \in WindowRecords /\ q \in Principals
      BY Shapes DEF LimiterInv, Live
    <3> QED
      BY <3>1, NoneAssumption, LimiterAssumption DEF WindowRecords
  <2> QED
    BY <1>1, <1>3, <2>1, UnchargedStep
<1> QED
  BY <1>2, <1>3 DEF RedisChecks, RedisFails

\* A tick starts with no charge, so nothing has to be counted.
LEMMA TickKeeps ==
    ASSUME LimiterInv, Tick
    PROVE  LimiterInv'
<1>1. windows' \in [Principals -> WindowRecords \cup {None}]
  <2> SUFFICES ASSUME NEW p \in Principals, windows[p] # None, windows[p].age # Window
               PROVE  [windows[p] EXCEPT !.age = @ + 1] \in WindowRecords
    BY DEF Tick, LimiterInv, LimiterTypeOK
  <2>1. windows[p] \in WindowRecords
    BY DEF LimiterInv, LimiterTypeOK
  <2> QED
    BY <2>1, LimiterAssumption DEF WindowRecords
<1>2. charged' \in [Principals -> [Ages -> 0 .. Limit]]
  <2> SUFFICES ASSUME NEW p \in Principals, NEW d \in Ages, d # 0
               PROVE  charged[p][d - 1] \in 0 .. Limit
    BY LimiterAssumption DEF Tick
  <2>1. d - 1 \in Ages
    BY LimiterAssumption DEF Ages
  <2> QED
    BY <2>1 DEF LimiterInv, LimiterTypeOK
<1>3. \A p \in Principals : charged'[p][0] = 0
  BY LimiterAssumption DEF Tick, Ages
<1> QED
  <2>1. LimiterTypeOK'
    BY <1>1, <1>2 DEF Tick, LimiterInv, LimiterTypeOK
  <2>2. \A p \in Principals : ~(charged'[p][0] > 0)
    BY <1>3
  <2> QED
    BY <2>1, <2>2 DEF LimiterInv, ChargesCounted

LEMMA RestartKeeps ==
    ASSUME LimiterInv, Restart
    PROVE  LimiterInv'
  BY LimiterAssumption DEF LimiterInv, LimiterTypeOK, ChargesCounted, Restart, Uncharged, Ages

LEMMA LimiterInductive == LimiterInv /\ [Next]_vars => LimiterInv'
<1> SUFFICES ASSUME LimiterInv, [Next]_vars PROVE LimiterInv'
  OBVIOUS
<1>1. ASSUME NEW p \in Principals, MemoryAllows(p) PROVE LimiterInv'
  BY <1>1, MemoryAllowsKeeps
<1>2. ASSUME NEW p \in Principals, MemoryRefuses(p) PROVE LimiterInv'
  BY <1>2, MemoryRefusesKeeps
<1>3. ASSUME NEW p \in Principals, RedisChecks(p) \/ RedisFails(p) PROVE LimiterInv'
  BY <1>3, RedisKeeps
<1>4. CASE Tick
  BY <1>4, TickKeeps
<1>5. CASE Restart
  BY <1>5, RestartKeeps
<1>6. CASE UNCHANGED vars
  BY <1>6 DEF vars, LimiterInv, LimiterTypeOK, ChargesCounted, Live, Expired
<1> QED
  BY <1>1, <1>2, <1>3, <1>4, <1>5, <1>6 DEF Next

\* The shapes of the table, with either backend, and no tick in which a
\* principal has more than Limit requests admitted.
THEOREM LimiterTypeCorrect == Spec => []LimiterTypeOK
<1>1. LimiterInv => LimiterTypeOK
  BY DEF LimiterInv
<1> QED
  BY <1>1, InitInv, LimiterInductive, PTL DEF Spec

-----------------------------------------------------------------------------
(* How much a window of the limiter has to do with the last Window ticks.   *)

\* What a window has used up of the limit.
Used(w) == IF w.count > Limit THEN Limit ELSE w.count

\* A live window has counted exactly what was charged since it was opened, its
\* first request among that; what was charged before it, or without it, is less
\* than the limit, because the window before was opened more than Window ticks
\* ago by a request that is no longer counted.
WindowIsBacked(p) ==
    IF p \in Live
    THEN /\ UpTo(charged[p], windows[p].age) = Used(windows[p])
         /\ charged[p][windows[p].age] > 0
         /\ Recent(p) < UpTo(charged[p], windows[p].age) + Limit
    ELSE Recent(p) < Limit

BurstInv == LimiterInv /\ (\A p \in Principals : WindowIsBacked(p)) /\ RefusedForCause

LEMMA RecentIsUpTo ==
    ASSUME NEW p, charged[p] \in [Ages -> 0 .. Limit]
    PROVE  /\ Recent(p) = UpTo(charged[p], Window - 1) /\ Recent(p) \in Nat
           /\ \A d \in 0 .. Window - 1 : charged[p][d] \in Nat
<1>1. DOMAIN charged[p] = 0 .. Window - 1 /\ \A d \in 0 .. Window - 1 : charged[p][d] \in Nat
  BY LimiterAssumption DEF Ages
<1>2. Recent(p) = UpTo(charged[p], Window - 1)
  BY <1>1 DEF Recent, SumFunction, UpTo
<1>3. UpTo(charged[p], Window - 1) \in Nat
  <2>1. IsFiniteSet(0 .. Window - 1)
    BY FS_Interval, LimiterAssumption
  <2> QED BY <1>1, <2>1, SumIsNat DEF UpTo
<1> QED BY <1>1, <1>2, <1>3

\* The live window of a principal holds requests of the last Window ticks.
LEMMA BackedBounds ==
    ASSUME LimiterInv, NEW p \in Principals, WindowIsBacked(p)
    PROVE  /\ Recent(p) < 2 * Limit
           /\ p \in Live => Used(windows[p]) \in 1 .. Limit /\ Used(windows[p]) <= Recent(p)
<1>1. charged[p] \in [Ages -> 0 .. Limit]
  BY Shapes DEF LimiterInv
<1>2. /\ Recent(p) = UpTo(charged[p], Window - 1) /\ Recent(p) \in Nat
      /\ \A d \in 0 .. Window - 1 : charged[p][d] \in Nat
  BY <1>1, RecentIsUpTo
<1>3. CASE p \notin Live
  BY <1>2, <1>3, LimiterAssumption DEF WindowIsBacked
<1>4. CASE p \in Live
  <2> DEFINE w == windows[p]
  <2>1. w \in WindowRecords /\ w.age < Window
    BY <1>4, Shapes DEF LimiterInv
  <2>2. w.age \in 0 .. Window - 1 /\ w.count \in 1 .. Limit + 1
    BY <2>1, LimiterAssumption DEF WindowRecords
  <2>3. Used(w) \in 1 .. Limit
    BY <2>2, LimiterAssumption DEF Used
  <2>4. UpTo(charged[p], w.age) <= UpTo(charged[p], Window - 1)
    BY <1>2, <2>2, UpToGrows, LimiterAssumption
  <2>5. UpTo(charged[p], w.age) = Used(w) /\ Recent(p) < Used(w) + Limit
    BY <1>4 DEF WindowIsBacked
  <2> QED BY <1>2, <2>3, <2>4, <2>5, LimiterAssumption
<1> QED BY <1>3, <1>4

\* A step that leaves the window and the charges of a principal as they are.
LEMMA BackedKept ==
    ASSUME NEW q \in Principals, WindowIsBacked(q), charged'[q] = charged[q],
           q \in Live' <=> q \in Live,
           q \in Live => windows'[q].age = windows[q].age /\ Used(windows'[q]) = Used(windows[q])
    PROVE  WindowIsBacked(q)'
<1>1. Recent(q)' = Recent(q)
  BY DEF Recent
<1>2. \A n : UpTo(charged[q], n)' = UpTo(charged[q], n')
  BY DEF UpTo
<1> QED BY <1>1 DEF WindowIsBacked, Used

LEMMA LiveKept ==
    ASSUME LimiterInv, NEW q \in Principals, windows'[q] = windows[q]
    PROVE  /\ q \in Live' <=> q \in Live
           /\ windows'[q].age = windows[q].age /\ Used(windows'[q]) = Used(windows[q])
  BY DEF Live, Expired

\* Pruning takes no live window.
LEMMA PrunedKept ==
    ASSUME LimiterInv, NEW q \in Principals,
           windows'[q] = IF q \in Live THEN windows[q] ELSE None
    PROVE  /\ q \in Live' <=> q \in Live
           /\ q \in Live => windows'[q].age = windows[q].age /\ Used(windows'[q]) = Used(windows[q])
  BY DEF Live, Expired

\* A request that is charged is counted in the window, which it may open.
LEMMA BackedCharged ==
    ASSUME LimiterInv, NEW p \in Principals, WindowIsBacked(p), ~Spent(WindowOf(p)), Charge(p),
           windows'[p] = [WindowOf(p) EXCEPT !.count = @ + 1]
    PROVE  WindowIsBacked(p)'
<1> DEFINE w == WindowOf(p)
           old == charged[p]
           new == charged'[p]
<1>1. /\ charged \in [Principals -> [Ages -> 0 .. Limit]]
      /\ old \in [Ages -> 0 .. Limit] /\ w.age \in 0 .. Window - 1 /\ w.count \in 0 .. Limit + 1
      /\ DOMAIN w = {"age", "count"}
  BY Shapes DEF LimiterInv, LimiterTypeOK
<1>2. w.count < Limit
  BY <1>1, LimiterAssumption DEF Spent
<1>3. /\ windows'[p] \in WindowRecords
      /\ windows'[p].age = w.age /\ windows'[p].count = w.count + 1
  BY <1>1, OneMore
<1>4. p \in Live' /\ Used(windows'[p]) = w.count + 1
  <2>1. windows'[p] # None
    BY <1>3, NoneAssumption
  <2>2. ~ (w.age >= Window)
    BY <1>1, LimiterAssumption
  <2>3. ~ (w.count + 1 > Limit)
    BY <1>1, <1>2, LimiterAssumption
  <2> HIDE DEF w
  <2>4. p \in Live'
    BY <1>3, <2>1, <2>2 DEF Live, Expired
  <2> QED BY <1>3, <2>3, <2>4 DEF Used
<1>5. 0 \in Ages /\ new \in [Ages -> 0 .. Limit]
  BY ChargeKeeps, LimiterAssumption DEF Ages
<1>6. new = [old EXCEPT ![0] = old[0] + 1]
  BY <1>1, <1>5 DEF Charge
<1>7. /\ new[0] = old[0] + 1 /\ \A d \in Ages : d # 0 => new[d] = old[d]
      /\ \A d \in Ages : old[d] \in Nat
  BY <1>1, <1>5, <1>6
<1> HIDE DEF w, old, new
<1>8. ASSUME NEW n \in 0 .. Window - 1 PROVE UpTo(new, n) = UpTo(old, n) + 1
  <2>1. IsFiniteSet(0 .. n) /\ 0 \in 0 .. n /\ 0 .. n \subseteq Ages
    <3>1. n \in Nat /\ 0 .. n \subseteq 0 .. Window - 1 /\ 0 \in 0 .. n
      BY LimiterAssumption
    <3> QED BY <3>1, FS_Interval DEF Ages
  <2> QED BY <2>1, <1>7, SumRaised DEF UpTo
<1>9. Recent(p) = UpTo(old, Window - 1) /\ Recent(p) \in Nat
  BY <1>1, RecentIsUpTo DEF old
<1>10. Recent(p)' = Recent(p) + 1
  <2>1. Recent(p)' = UpTo(new, Window - 1)
    <3>1. DOMAIN charged'[p] = 0 .. Window - 1
      BY <1>5 DEF new, Ages
    <3> QED BY <3>1 DEF Recent, SumFunction, UpTo, new
  <2>2. Window - 1 \in 0 .. Window - 1
    BY LimiterAssumption
  <2> QED BY <2>1, <2>2, <1>8, <1>9
<1>11. /\ UpTo(new, w.age) = w.count + 1 /\ new[w.age] > 0
       /\ Recent(p) < w.count + Limit
  <2>1. CASE p \in Live
    <3>1. w = windows[p]
      BY <2>1 DEF w, WindowOf
    <3>2. UpTo(old, w.age) = Used(w) /\ old[w.age] > 0 /\ Recent(p) < Used(w) + Limit
      BY <2>1, <3>1 DEF WindowIsBacked, old
    <3>3. Used(w) = w.count
      BY <1>1, <1>2, LimiterAssumption DEF Used
    <3>4. w.age \in Ages /\ new[w.age] \in {old[w.age], old[w.age] + 1} /\ old[w.age] \in Nat
      BY <1>1, <1>7 DEF Ages
    <3> QED BY <1>1, <1>8, <3>2, <3>3, <3>4
  <2>2. CASE p \notin Live
    <3>1. w = [age |-> 0, count |-> 0]
      BY <2>2 DEF w, WindowOf, Opened
    <3>2. old[0] = 0
      <4>1. old[0] \in Nat /\ ~ (old[0] > 0)
        BY <2>2, <1>5, <1>7 DEF LimiterInv, ChargesCounted, old
      <4> QED BY <4>1
    <3>3. UpTo(new, 0) = new[0]
      BY <3>2, <1>7, UpToFirst
    <3>4. Recent(p) < Limit
      BY <2>2 DEF WindowIsBacked
    <3> QED BY <3>1, <3>2, <3>3, <3>4, <1>7, LimiterAssumption
  <2> QED BY <2>1, <2>2
<1>12. Recent(p)' < UpTo(new, w.age) + Limit
  BY <1>1, <1>9, <1>10, <1>11, LimiterAssumption
<1>13. /\ UpTo(charged'[p], windows'[p].age) = UpTo(new, w.age)
       /\ charged'[p][windows'[p].age] = new[w.age]
  BY <1>3 DEF new
<1> QED BY <1>4, <1>11, <1>12, <1>13, Zenon DEF WindowIsBacked

\* A tick: the charges move by one place, the oldest are forgotten, and a window
\* that ends has its first request among them.
LEMMA BackedTick ==
    ASSUME LimiterInv, NEW p \in Principals, WindowIsBacked(p), Tick
    PROVE  WindowIsBacked(p)'
<1> DEFINE old == charged[p]
           new == charged'[p]
           last == Window - 1
<1>1. old \in [Ages -> 0 .. Limit] /\ last \in Nat /\ Ages = 0 .. last
  BY Shapes, LimiterAssumption DEF LimiterInv, Ages
<1>2. new = [d \in Ages |-> IF d = 0 THEN 0 ELSE old[d - 1]]
  BY DEF Tick
<1> HIDE DEF old, new
<1>3. /\ \A d \in 0 .. last : old[d] \in Nat /\ new[d] \in Nat
      /\ new[0] = 0 /\ \A d \in 0 .. last - 1 : new[d + 1] = old[d]
  <2>1. \A d \in 0 .. last : old[d] \in Nat
    BY <1>1, LimiterAssumption
  <2>2. \A d \in 0 .. last : d # 0 => d - 1 \in 0 .. last
    BY <1>1
  <2>3. \A d \in 0 .. last - 1 : d + 1 \in 0 .. last /\ d + 1 # 0 /\ (d + 1) - 1 = d
    BY <1>1
  <2> HIDE DEF last
  <2> QED BY <1>1, <1>2, <2>1, <2>2, <2>3
<1>4. Recent(p) = UpTo(old, last) /\ Recent(p) \in Nat
  BY <1>1, RecentIsUpTo DEF old
<1>5. Recent(p)' = UpTo(new, last)
  <2>1. DOMAIN charged'[p] = 0 .. last
    BY <1>1, <1>2 DEF new
  <2> QED BY <2>1 DEF Recent, SumFunction, UpTo, new
<1> HIDE DEF last
<1>6. ASSUME NEW n \in Nat, n < last PROVE UpTo(new, n + 1) = UpTo(old, n)
  <2>1. /\ \A k \in 0 .. n : old[k] \in Nat
        /\ \A k \in 0 .. n : new[k + 1] = old[k]
    BY <1>1, <1>3, <1>6
  <2> QED BY <2>1, <1>3, UpToShifted
<1>7. Recent(p)' + old[last] = Recent(p) /\ Recent(p)' \in Nat /\ old[last] \in Nat
  <2>1. old[last] \in Nat
    BY <1>1, <1>3
  <2>2. CASE last = 0
    <3>1. UpTo(new, 0) = 0 /\ UpTo(old, 0) = old[0]
      BY <2>1, <2>2, <1>3, UpToFirst
    <3> QED BY <2>1, <2>2, <3>1, <1>4, <1>5
  <2>3. CASE last # 0
    <3> DEFINE n == last - 1
    <3>1. n \in Nat /\ n < last /\ last = n + 1
      BY <2>3, <1>1
    <3> HIDE DEF n
    <3>2. UpTo(new, n + 1) = UpTo(old, n)
      BY <3>1, <1>6
    <3>3. UpTo(old, n + 1) = UpTo(old, n) + old[n + 1] /\ UpTo(old, n) \in Nat
      BY <3>1, <1>3, UpToNext
    <3> QED BY <3>1, <3>2, <3>3, <2>1, <1>4, <1>5
  <2> QED BY <2>2, <2>3
<1>8. windows \in [Principals -> WindowRecords \cup {None}]
  BY DEF LimiterInv, LimiterTypeOK
<1>9. CASE p \notin Live
  <2>1. windows[p] = None \/ windows[p].age = Window
    <3>1. windows[p] # None => windows[p].age \in 0 .. Window
      BY <1>8 DEF WindowRecords
    <3> QED BY <3>1, <1>9, LimiterAssumption DEF Live, Expired
  <2>2. windows'[p] = windows[p]
    BY <2>1 DEF Tick
  <2>3. p \notin Live'
    BY <1>9, <2>2 DEF Live, Expired
  <2>4. Recent(p) < Limit
    BY <1>9 DEF WindowIsBacked
  <2>5. Recent(p)' < Limit
    BY <2>4, <1>4, <1>7, LimiterAssumption
  <2> QED BY <2>3, <2>5 DEF WindowIsBacked
<1>10. CASE p \in Live
  <2> DEFINE a == windows[p].age
             c == windows[p].count
  <2>1. windows[p] \in WindowRecords /\ a < Window
    BY <1>10, Shapes DEF LimiterInv
  <2>2. a \in 0 .. last /\ c \in 1 .. Limit + 1
    BY <2>1, LimiterAssumption DEF WindowRecords, last
  <2>3. windows'[p] = [windows[p] EXCEPT !.age = a + 1] /\ windows[p] # None
    <3>1. a # Window
      BY <2>2, LimiterAssumption DEF last
    <3> QED BY <1>10, <3>1 DEF Tick, Live
  <2>4. windows'[p].age = a + 1 /\ windows'[p].count = c
    BY <2>1, <2>3 DEF WindowRecords
  <2>5. /\ UpTo(old, a) = Used(windows[p]) /\ old[a] > 0
        /\ Recent(p) < UpTo(old, a) + Limit
    BY <1>10 DEF WindowIsBacked, old
  <2>6. Used(windows'[p]) = Used(windows[p]) /\ Used(windows[p]) \in 1 .. Limit
    BY <2>2, <2>4, LimiterAssumption DEF Used
  <2> HIDE DEF a, c
  <2>7. CASE a = last
    <3>1. p \notin Live'
      BY <2>4, <2>7, LimiterAssumption DEF Live, Expired, last
    <3>2. Recent(p)' < Limit
      BY <2>5, <2>6, <2>7, <1>4, <1>7, LimiterAssumption
    <3> QED BY <3>1, <3>2 DEF WindowIsBacked
  <2>8. CASE a # last
    <3>1. a \in Nat /\ a < last
      BY <2>2, <2>8, <1>1
    <3>2. UpTo(new, a + 1) = UpTo(old, a) /\ new[a + 1] = old[a]
      BY <3>1, <1>3, <1>6, <1>1
    <3>3. windows'[p] # None
      <4>1. windows'[p] \in WindowRecords
        <5>1. a + 1 \in 0 .. Window
          BY <3>1, LimiterAssumption DEF last
        <5> QED BY <2>1, <2>3, <5>1 DEF WindowRecords
      <4> QED BY <4>1, NoneAssumption
    <3>4. ~ (a + 1 >= Window)
      BY <3>1, LimiterAssumption DEF last
    <3>5. p \in Live'
      BY <2>4, <3>3, <3>4 DEF Live, Expired
    <3>6. Recent(p)' < UpTo(new, a + 1) + Limit
      BY <3>2, <2>5, <2>6, <1>4, <1>7, LimiterAssumption
    <3> QED BY <2>4, <2>5, <2>6, <3>2, <3>5, <3>6 DEF WindowIsBacked, new
  <2> QED BY <2>7, <2>8
<1> QED BY <1>9, <1>10


LEMMA BackedAnew ==
    ASSUME NEW p \in Principals, windows'[p] = None, charged'[p] = Uncharged
    PROVE  WindowIsBacked(p)'
<1>1. p \notin Live'
  BY DEF Live
<1>2. /\ DOMAIN charged'[p] = 0 .. Window - 1
      /\ \A d \in 0 .. Window - 1 : charged'[p][d] = 0
      /\ IsFiniteSet(0 .. Window - 1)
  BY FS_Interval, LimiterAssumption DEF Uncharged, Ages
<1>3. SumFunctionOnSet(charged'[p], 0 .. Window - 1) = 0
  BY <1>2, SumOfZeros
<1>4. Recent(p)' = 0
  BY <1>2, <1>3 DEF Recent, SumFunction
<1> QED BY <1>1, <1>4, LimiterAssumption DEF WindowIsBacked

\* A window that is spent has used up the limit.
LEMMA SpentIsUsed ==
    ASSUME LimiterInv, NEW p \in Principals, WindowIsBacked(p), Spent(WindowOf(p))
    PROVE  /\ p \in Live /\ Used(windows[p]) = Limit /\ Recent(p) >= Limit
           /\ Counted(WindowOf(p)).age = windows[p].age
           /\ Used(Counted(WindowOf(p))) = Limit
           /\ Counted(WindowOf(p)) \in WindowRecords
<1>1. p \in Live
  BY LimiterAssumption DEF Spent, WindowOf, Opened
<1>2. WindowOf(p) = windows[p] /\ windows[p] \in WindowRecords
  BY <1>1, Shapes DEF LimiterInv, WindowOf
<1> DEFINE w == windows[p]
<1>3. w.age \in 0 .. Window /\ w.count \in 1 .. Limit + 1 /\ w.count >= Limit
      /\ w = [age |-> w.age, count |-> w.count]
  BY <1>2 DEF WindowRecords, Spent
<1>4. Used(w) = Limit
  BY <1>3, LimiterAssumption DEF Used
<1>5. Counted(w) = [age |-> w.age, count |-> Limit + 1]
  BY <1>3, LimiterAssumption DEF Counted
<1>6. Recent(p) >= Limit
  <2>1. charged[p] \in [Ages -> 0 .. Limit]
    BY Shapes DEF LimiterInv
  <2>2. Recent(p) \in Nat
    BY <2>1, RecentIsUpTo
  <2> QED BY <2>2, <1>1, <1>4, BackedBounds, LimiterAssumption
<1> HIDE DEF w
<1>7. Used(Counted(w)) = Limit /\ Counted(w).age = w.age /\ Counted(w) \in WindowRecords
  BY <1>3, <1>5, LimiterAssumption DEF Used, WindowRecords
<1> QED BY <1>1, <1>2, <1>4, <1>6, <1>7 DEF w

\* Every principal with a live window had a request in the last Window ticks.
LEMMA LiveIsBusy ==
    ASSUME LimiterInv, \A p \in Principals : WindowIsBacked(p), NEW p, IsFull(p)
    PROVE  Cardinality({q \in Principals \ {p} : Recent(q) > 0}) >= MaxKeys
<1> DEFINE busy == {q \in Principals \ {p} : Recent(q) > 0}
<1>1. p \notin Live /\ Cardinality(Live) >= MaxKeys
  BY DEF IsFull
<1>2. \A q \in Live : q \in Principals /\ Recent(q) > 0
  <2> TAKE q \in Live
  <2>1. q \in Principals
    BY DEF Live
  <2>2. charged[q] \in [Ages -> 0 .. Limit]
    BY <2>1, Shapes DEF LimiterInv
  <2>3. Recent(q) \in Nat
    BY <2>2, RecentIsUpTo
  <2> QED BY <2>1, <2>3, BackedBounds, LimiterAssumption
<1>3. Live \subseteq busy /\ busy \subseteq Principals
  BY <1>1, <1>2
<1>4. IsFiniteSet(busy)
  BY <1>3, FS_Subset, LimiterAssumption
<1>5. Cardinality(Live) <= Cardinality(busy) /\ Cardinality(Live) \in Nat /\ Cardinality(busy) \in Nat
  BY <1>3, <1>4, FS_Subset, FS_CardinalityType
<1> HIDE DEF busy
<1>6. Cardinality(busy) >= MaxKeys
  BY <1>1, <1>5, LimiterAssumption
<1> QED BY <1>6 DEF busy

\* A verdict that is no refusal needs no cause.
LEMMA NoRefusal ==
    ASSUME \/ verdict' = None
           \/ verdict'.outcome \notin {"limited", "full"}
    PROVE  RefusedForCause'
  BY DEF RefusedForCause, RefusedOnlyWhenSpent, FullOnlyWhenBusy

AllBacked == \A q \in Principals : WindowIsBacked(q)

LEMMA MemoryAllowsBursts ==
    ASSUME LimiterInv, AllBacked, NEW p \in Principals, MemoryAllows(p)
    PROVE  AllBacked' /\ RefusedForCause'
<1>1. windows'[p] = [WindowOf(p) EXCEPT !.count = @ + 1]
  BY DEF MemoryAllows
<1>2. ~Spent(WindowOf(p)) /\ Charge(p)
  BY DEF MemoryAllows
<1>3. WindowIsBacked(p)'
  BY <1>1, <1>2, BackedCharged DEF AllBacked
<1>4. ASSUME NEW q \in Principals, q # p PROVE WindowIsBacked(q)'
  <2>1. windows'[q] = IF q \in Live THEN windows[q] ELSE None
    BY <1>4 DEF MemoryAllows
  <2>2. charged'[q] = charged[q]
    BY <1>2, <1>4, ChargeKeeps
  <2> QED BY <2>1, <2>2, PrunedKept, BackedKept DEF AllBacked
<1>5. RefusedForCause'
  <2>1. verdict'.outcome = "allowed"
    BY DEF MemoryAllows, Decide
  <2> QED BY <2>1, NoRefusal
<1> QED BY <1>3, <1>4, <1>5 DEF AllBacked

LEMMA MemoryRefusesBursts ==
    ASSUME LimiterInv, AllBacked, NEW p \in Principals, MemoryRefuses(p)
    PROVE  AllBacked' /\ RefusedForCause'
<1>1. charged' = charged
  BY DEF MemoryRefuses
<1>2. AllBacked'
  <2> SUFFICES ASSUME NEW q \in Principals PROVE WindowIsBacked(q)'
    BY DEF AllBacked
  <2>1. windows'[q] = IF q \in Live THEN windows[q] ELSE None
    BY DEF MemoryRefuses, Prune
  <2> QED BY <2>1, <1>1, PrunedKept, BackedKept DEF AllBacked
<1>3. \A q : Recent(q)' = Recent(q)
  BY <1>1 DEF Recent
<1>4. CASE IsFull(p) /\ Decide(p, "full")
  <2>1. Cardinality({q \in Principals \ {p} : Recent(q) > 0}) >= MaxKeys
    BY <1>4, LiveIsBusy DEF AllBacked
  <2>2. verdict'.principal = p /\ verdict'.outcome = "full"
    BY <1>4 DEF Decide
  <2>3. {q \in Principals \ {p} : Recent(q)' > 0} = {q \in Principals \ {p} : Recent(q) > 0}
    BY <1>3
  <2>4. FullOnlyWhenBusy'
    BY <2>1, <2>2, <2>3 DEF FullOnlyWhenBusy
  <2>5. RefusedOnlyWhenSpent'
    BY <2>2 DEF RefusedOnlyWhenSpent
  <2> QED BY <1>2, <2>4, <2>5 DEF RefusedForCause
<1>5. CASE ~IsFull(p) /\ Spent(WindowOf(p)) /\ Decide(p, "limited")
  <2>1. Recent(p)' >= Limit
    BY <1>3, <1>5, SpentIsUsed DEF AllBacked
  <2>2. verdict'.principal = p /\ verdict'.outcome = "limited"
    BY <1>5 DEF Decide
  <2>3. RefusedOnlyWhenSpent' /\ FullOnlyWhenBusy'
    BY <2>1, <2>2 DEF RefusedOnlyWhenSpent, FullOnlyWhenBusy
  <2> QED BY <1>2, <2>3 DEF RefusedForCause
<1> QED BY <1>2, <1>4, <1>5 DEF MemoryRefuses

LEMMA ScriptBursts ==
    ASSUME LimiterInv, AllBacked, NEW p \in Principals, Script(p)
    PROVE  AllBacked'
<1>1. windows \in [Principals -> WindowRecords \cup {None}]
  BY DEF LimiterInv, LimiterTypeOK
<1>2. windows'[p] = Counted(WindowOf(p)) /\ \A q \in Principals \ {p} : windows'[q] = windows[q]
  BY <1>1 DEF Script
<1>3. CASE Spent(WindowOf(p))
  <2>1. charged' = charged
    BY <1>3 DEF Script
  <2>2. /\ p \in Live /\ Used(windows[p]) = Limit
        /\ windows'[p].age = windows[p].age /\ Used(windows'[p]) = Limit
        /\ windows'[p] \in WindowRecords
    BY <1>2, <1>3, SpentIsUsed DEF AllBacked
  <2>3. p \in Live'
    BY <2>2, NoneAssumption DEF Live, Expired
  <2>4. WindowIsBacked(p)'
    BY <2>1, <2>2, <2>3, BackedKept DEF AllBacked
  <2>5. ASSUME NEW q \in Principals, q # p PROVE WindowIsBacked(q)'
    BY <2>1, <2>5, <1>2, LiveKept, BackedKept DEF AllBacked
  <2> QED BY <2>4, <2>5 DEF AllBacked
<1>4. CASE ~Spent(WindowOf(p))
  <2>1. Charge(p) /\ windows'[p] = [WindowOf(p) EXCEPT !.count = @ + 1]
    BY <1>2, <1>4, OneMore DEF Script
  <2>2. WindowIsBacked(p)'
    BY <2>1, <1>4, BackedCharged DEF AllBacked
  <2>3. ASSUME NEW q \in Principals, q # p PROVE WindowIsBacked(q)'
    <3>1. charged'[q] = charged[q]
      BY <2>1, <2>3, <1>4, ChargeKeeps
    <3> QED BY <3>1, <2>3, <1>2, LiveKept, BackedKept DEF AllBacked
  <2> QED BY <2>2, <2>3 DEF AllBacked
<1> QED BY <1>3, <1>4

LEMMA RedisBursts ==
    ASSUME LimiterInv, AllBacked, NEW p \in Principals, RedisChecks(p) \/ RedisFails(p)
    PROVE  AllBacked' /\ RefusedForCause'
<1>1. CASE RedisChecks(p)
  <2>1. AllBacked'
    BY <1>1, ScriptBursts DEF RedisChecks
  <2>2. CASE ~Spent(WindowOf(p))
    <3>1. verdict'.outcome = "allowed"
      BY <1>1, <2>2 DEF RedisChecks, Decide
    <3> QED BY <3>1, <2>1, NoRefusal
  <2>3. CASE Spent(WindowOf(p))
    <3>1. charged' = charged
      BY <1>1, <2>3 DEF RedisChecks, Script
    <3>2. Recent(p)' >= Limit
      BY <3>1, <2>3, SpentIsUsed DEF AllBacked, Recent
    <3>3. verdict'.principal = p /\ verdict'.outcome = "limited"
      BY <1>1, <2>3 DEF RedisChecks, Decide
    <3> QED BY <3>2, <3>3, <2>1 DEF RefusedForCause, RefusedOnlyWhenSpent, FullOnlyWhenBusy
  <2> QED BY <2>2, <2>3
<1>2. CASE RedisFails(p)
  <2>1. verdict'.outcome = "unavailable"
    BY <1>2 DEF RedisFails, Decide
  <2>2. CASE Script(p)
    BY <2>1, <2>2, ScriptBursts, NoRefusal
  <2>3. CASE UNCHANGED <<windows, charged>>
    <3>1. AllBacked'
      BY <2>3, LiveKept, BackedKept DEF AllBacked
    <3> QED BY <2>1, <3>1, NoRefusal
  <2> QED BY <1>2, <2>2, <2>3 DEF RedisFails
<1> QED BY <1>1, <1>2

LEMMA BurstInductive == BurstInv /\ [Next]_vars => BurstInv'
<1> SUFFICES ASSUME BurstInv, [Next]_vars PROVE BurstInv'
  OBVIOUS
<1>1. LimiterInv /\ AllBacked /\ LimiterInv'
  BY LimiterInductive DEF BurstInv, AllBacked
<1>2. ASSUME NEW p \in Principals, MemoryAllows(p) PROVE AllBacked' /\ RefusedForCause'
  BY <1>1, <1>2, MemoryAllowsBursts
<1>3. ASSUME NEW p \in Principals, MemoryRefuses(p) PROVE AllBacked' /\ RefusedForCause'
  BY <1>1, <1>3, MemoryRefusesBursts
<1>4. ASSUME NEW p \in Principals, RedisChecks(p) \/ RedisFails(p)
      PROVE  AllBacked' /\ RefusedForCause'
  BY <1>1, <1>4, RedisBursts
<1>5. CASE Tick
  <2>1. AllBacked'
    BY <1>1, <1>5, BackedTick DEF AllBacked
  <2>2. verdict' = None
    BY <1>5 DEF Tick
  <2> QED BY <1>1, <2>1, <2>2, NoRefusal DEF BurstInv, AllBacked
<1>6. CASE Restart
  <2>1. AllBacked'
    BY <1>6, BackedAnew DEF AllBacked, Restart
  <2>2. verdict' = None
    BY <1>6 DEF Restart
  <2> QED BY <1>1, <2>1, <2>2, NoRefusal DEF BurstInv, AllBacked
<1>7. CASE UNCHANGED vars
  <2>1. windows' = windows /\ charged' = charged /\ verdict' = verdict
    BY <1>7 DEF vars
  <2>2. AllBacked'
    BY <2>1, <1>1, LiveKept, BackedKept DEF AllBacked
  <2>3. RefusedForCause'
    BY <2>1 DEF BurstInv, RefusedForCause, RefusedOnlyWhenSpent, FullOnlyWhenBusy, Recent
  <2> QED BY <1>1, <2>2, <2>3 DEF BurstInv, AllBacked
<1> QED BY <1>1, <1>2, <1>3, <1>4, <1>5, <1>6, <1>7 DEF Next, BurstInv, AllBacked

LEMMA BurstInit == Init => BurstInv
<1> SUFFICES ASSUME Init PROVE BurstInv
  OBVIOUS
<1>1. LimiterInv
  BY InitInv
<1>2. ASSUME NEW p \in Principals PROVE WindowIsBacked(p)
  <2>1. p \notin Live
    BY DEF Init, Live
  <2>2. /\ DOMAIN charged[p] = 0 .. Window - 1
        /\ \A d \in 0 .. Window - 1 : charged[p][d] = 0
        /\ IsFiniteSet(0 .. Window - 1)
    BY FS_Interval, LimiterAssumption DEF Init, Uncharged, Ages
  <2>3. SumFunctionOnSet(charged[p], 0 .. Window - 1) = 0
    BY <2>2, SumOfZeros
  <2>4. Recent(p) = 0
    BY <2>2, <2>3 DEF Recent, SumFunction
  <2> QED BY <2>1, <2>4, LimiterAssumption DEF WindowIsBacked
<1>3. RefusedForCause
  BY DEF Init, RefusedForCause, RefusedOnlyWhenSpent, FullOnlyWhenBusy
<1> QED BY <1>1, <1>2, <1>3 DEF BurstInv

LEMMA BurstInvariant == Spec => []BurstInv
  BY BurstInit, BurstInductive, PTL DEF Spec

\* With either backend, whatever the limit, the window and the traffic, a
\* principal is admitted less than twice its limit in any Window ticks.
THEOREM BurstsAreBounded == Spec => []BurstBound
<1>1. BurstInv => BurstBound
  BY BackedBounds DEF BurstInv, BurstBound
<1> QED BY <1>1, BurstInvariant, PTL

\* Nobody is refused but for requests of the last Window ticks: his own up to the
\* limit, or those of as many others as the table has room for.
THEOREM RefusalsHaveCause == Spec => []RefusedForCause
<1>1. BurstInv => RefusedForCause
  BY DEF BurstInv
<1> QED BY <1>1, BurstInvariant, PTL

=============================================================================
