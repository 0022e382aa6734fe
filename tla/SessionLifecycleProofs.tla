----------------------- MODULE SessionLifecycleProofs ------------------------
(***************************************************************************)
(* Proofs about the session handlers, for any sets of browsers, sessions,  *)
(* accounts and request slots: type correctness, the agreement of every    *)
(* record and turn with its thread, the implementation of                  *)
(* SessionOwnership, and the agreement of the two stores.                  *)
(***************************************************************************)
EXTENDS SessionLifecycle, TLAPS

-----------------------------------------------------------------------------
(* Handlers are told apart by their program counter. *)

LEMMA HandlerByPc ==
    ASSUME NEW h \in Handler
    PROVE  /\ h.pc \in TurnSteps => h \in Turn
           /\ IsDelete(h) => h \in Delete
           /\ h.pc = "wipe" => h \in AccountDeletion
           /\ h.pc = "purge" => h \in Purge
  BY DEF Handler, Turn, Delete, AccountDeletion, Purge, Idle, TurnSteps, IsDelete

LEMMA BecomeType ==
    ASSUME req \in [Requests -> Handler], NEW r \in Requests, NEW h \in Handler,
           Become(r, h)
    PROVE  req' \in [Requests -> Handler]
  BY DEF Become

LEMMA OverlapType == \A t \in Threads : Overlap(t)' \in Calm .. Raced
  BY DEF Overlap, Calm, Uneven, Raced

LEMMA ObserveType ==
    ASSUME disturbed \in [Threads -> Calm .. Raced],
           NEW cause \in [Threads -> Calm .. Raced],
           Observe(cause)
    PROVE  disturbed' \in [Threads -> Calm .. Raced]
  <1>1. ASSUME NEW t \in Threads
        PROVE  Larger(disturbed[t], Larger(Overlap(t)', cause[t])) \in Calm .. Raced
    <2>1. Overlap(t)' \in Calm .. Raced  BY OverlapType
    <2>2. QED  BY <2>1 DEF Larger, Calm, Raced
  <1>2. Calm \in Calm .. Raced  BY DEF Calm, Raced
  <1>3. QED  BY <1>1, <1>2 DEF Observe

LEMMA NoCauseType == NoCause \in [Threads -> Calm .. Raced]
  BY DEF NoCause, Calm, Raced

LEMMA CutCauseType ==
    ASSUME NEW r \in Requests
    PROVE  CutCause(r) \in [Threads -> Calm .. Raced]
  BY NoCauseType DEF CutCause, Calm, Uneven, PurgeCut, Raced

-----------------------------------------------------------------------------
(* The registry's operations keep its types. *)

RegistryTypeOK ==
    /\ records \in [Threads -> Record \cup {NoRecord}]
    /\ older \in [Threads -> SUBSET Threads]

LEMMA RecordType ==
    ASSUME RegistryTypeOK, NEW t \in Threads, Has(t)
    PROVE  records[t] \in Record
  BY DEF RegistryTypeOK, Has

LEMMA RegisterTurnType ==
    ASSUME RegistryTypeOK, NEW t \in Threads, NEW b \in Browsers, NEW a \in Owners,
           NEW s \in SessionIds, NEW n \in Nat, RegisterTurn(t, b, a, s, n)
    PROVE  RegistryTypeOK'
  <1>1. NewRecord(b, a, s, n) \in Record  BY DEF NewRecord, Record
  <1>2. ASSUME Has(t)
        PROVE  UpdatedRecord(records[t], a, n) \in Record
    BY <1>2, RecordType DEF UpdatedRecord, Record, MergedAccount, Larger
  <1>3. records' \in [Threads -> Record \cup {NoRecord}]
    BY <1>1, <1>2 DEF RegisterTurn, RegistryTypeOK
  <1>4. older' \in [Threads -> SUBSET Threads]
    BY DEF RegisterTurn, Touch, RegistryTypeOK
  <1>5. QED  BY <1>3, <1>4 DEF RegistryTypeOK

LEMMA ClaimSessionsType ==
    ASSUME RegistryTypeOK, NEW b \in Browsers, NEW a \in Accounts,
           NEW S \in SUBSET SessionIds, ClaimSessions(b, a, S)
    PROVE  RegistryTypeOK'
  <1>1. ASSUME NEW t \in Claimable(b, a, S)
        PROVE  [records[t] EXCEPT !.account = a, !.stale = FALSE] \in Record
    BY RecordType DEF Claimable, Record, Owners
  <1>2. records' \in [Threads -> Record \cup {NoRecord}]
    BY <1>1 DEF ClaimSessions, RegistryTypeOK
  <1>3. older' \in [Threads -> SUBSET Threads]
    BY DEF ClaimSessions, Touch, RegistryTypeOK
  <1>4. QED  BY <1>2, <1>3 DEF RegistryTypeOK

LEMMA RemoveRecordsType ==
    ASSUME RegistryTypeOK, NEW S, RemoveRecords(S)
    PROVE  RegistryTypeOK'
  BY DEF RemoveRecords, RegistryTypeOK

LEMMA AgeRecordsType ==
    ASSUME RegistryTypeOK, AgeRecords
    PROVE  RegistryTypeOK'
  <1>1. ASSUME NEW t \in Threads, Saved(t)
        PROVE  [records[t] EXCEPT !.stale = TRUE] \in Record
    BY <1>1, RecordType DEF Saved, Record
  <1>2. QED  BY <1>1 DEF AgeRecords, RegistryTypeOK

LEMMA ResolveType ==
    ASSUME NEW b \in Browsers, NEW a, NEW s \in SessionIds
    PROVE  /\ FindAccessible(b, a, s) \subseteq Threads
           /\ Resolve(b, a, s) \subseteq Threads
  BY DEF Resolve, FindAccessible, Accessible, PrivateThread, Threads

-----------------------------------------------------------------------------
(* Each kind of step keeps TypeOK. *)

\* TypeOK from its parts: the registry, the messages and the handlers, for a step
\* that ends with Observe.
LEMMA TypeOKParts ==
    ASSUME TypeOK, RegistryTypeOK',
           messages' \in [Threads -> 0 .. MaxMessages],
           req' \in [Requests -> Handler],
           NEW cause \in [Threads -> Calm .. Raced], Observe(cause)
    PROVE  TypeOK'
  <1>1. disturbed' \in [Threads -> Calm .. Raced]  BY ObserveType DEF TypeOK
  <1>2. QED  BY <1>1 DEF TypeOK, RegistryTypeOK

LEMMA TypeOKRegistry == TypeOK => RegistryTypeOK
  BY DEF TypeOK, RegistryTypeOK

LEMMA RegistryUnchanged ==
    ASSUME RegistryTypeOK, UNCHANGED <<records, older>>
    PROVE  RegistryTypeOK'
  BY DEF RegistryTypeOK

LEMMA ZeroMessages == 0 \in 0 .. MaxMessages
  BY MaxMessagesAssumption

LEMMA StartTurnType ==
    ASSUME TypeOK, NEW r \in Requests, NEW b \in Browsers, NEW a \in Owners,
           NEW s \in SessionIds, NEW k \in Kinds, StartTurn(r, b, a, s, k)
    PROVE  TypeOK'
  <1> DEFINE h(t) == [pc |-> IF k = "resume" THEN "checking" ELSE "resolved",
                      kind |-> k, account |-> a, session |-> s, thread |-> t,
                      owner |-> TurnOwner(t, b), seen |-> KnownCount(t)]
  <1>1. PICK t \in Resolve(b, a, s) : Become(r, h(t))  BY DEF StartTurn
  <1>2. t \in Threads  BY <1>1, ResolveType
  <1>3. TurnOwner(t, b) \in Browsers /\ KnownCount(t) \in Nat
    BY <1>2, RecordType, TypeOKRegistry DEF TurnOwner, KnownCount, Record
  <1>4. h(t) \in Turn  BY <1>2, <1>3 DEF Turn, TurnSteps
  <1>5. req' \in [Requests -> Handler]
    BY <1>1, <1>4, BecomeType DEF TypeOK, Handler
  <1>6. QED
    BY <1>5, TypeOKParts, NoCauseType, TypeOKRegistry, RegistryUnchanged
    DEF StartTurn, TypeOK

LEMMA RegisterStepType ==
    ASSUME TypeOK, NEW r \in Requests, RegisterFirst(r) \/ RegisterFinal(r)
    PROVE  TypeOK'
  <1>1. req[r] \in Turn
    BY HandlerByPc DEF TypeOK, RegisterFirst, RegisterFinal, TurnSteps
  <1>2. RegistryTypeOK'
    BY <1>1, RegisterTurnType, TypeOKRegistry
    DEF RegisterFirst, RegisterFinal, RegisterFor, Turn
  <1>3. [req[r] EXCEPT !.pc = "ready"] \in Handler /\ Idle \in Handler
    BY <1>1 DEF Turn, TurnSteps, Handler
  <1>4. req' \in [Requests -> Handler]
    BY <1>3, BecomeType DEF RegisterFirst, RegisterFinal, TypeOK
  <1>5. QED
    BY <1>2, <1>4, TypeOKParts, NoCauseType DEF RegisterFirst, RegisterFinal, TypeOK

LEMMA GraphStepType ==
    ASSUME TypeOK, NEW r \in Requests,
           CheckResume(r) \/ LoadGraph(r) \/ SaveStep(r) \/ Answer(r)
    PROVE  TypeOK'
  <1>1. req[r] \in Turn
    BY HandlerByPc DEF TypeOK, CheckResume, LoadGraph, SaveStep, Answer, TurnSteps
  <1>2. RegistryTypeOK'
    BY TypeOKRegistry, RegistryUnchanged DEF CheckResume, LoadGraph, SaveStep, Answer
  <1>3. req[r].thread \in Threads /\ req[r].seen \in Nat
    BY <1>1 DEF Turn
  <1>4. messages[req[r].thread] \in 0 .. MaxMessages /\ MaxMessages \in Nat
    BY <1>3, MaxMessagesAssumption DEF TypeOK
  <1>5. CASE CheckResume(r)
    <2>1. [req[r] EXCEPT !.pc = "ready"] \in Handler /\ Idle \in Handler
      BY <1>1 DEF Turn, TurnSteps, Handler
    <2>2. req' \in [Requests -> Handler]
      BY <1>5, <2>1, BecomeType DEF CheckResume, TypeOK
    <2>3. QED
      BY <1>2, <1>5, <2>2, TypeOKParts, NoCauseType DEF CheckResume, TypeOK
  <1>6. CASE LoadGraph(r)
    <2>1. PICK n \in 1 .. MaxMessages :
            /\ messages' = [messages EXCEPT ![req[r].thread] = n]
            /\ Become(r, [req[r] EXCEPT !.pc = "running", !.seen = n])
      BY <1>6 DEF LoadGraph
    <2>2. n \in Nat /\ n \in 0 .. MaxMessages  BY <1>4
    <2>3. [req[r] EXCEPT !.pc = "running", !.seen = n] \in Turn
      BY <1>1, <2>2 DEF Turn, TurnSteps
    <2>4. req' \in [Requests -> Handler]
      BY <2>1, <2>3, BecomeType DEF TypeOK, Handler
    <2>5. messages' \in [Threads -> 0 .. MaxMessages]
      BY <2>1, <2>2 DEF TypeOK
    <2>6. QED
      BY <1>2, <1>6, <2>4, <2>5, TypeOKParts, NoCauseType DEF LoadGraph
  <1>7. CASE SaveStep(r)
    <2>1. [req[r] EXCEPT !.seen = req[r].seen + 1] \in Handler
      BY <1>1, <1>3 DEF Turn, Handler
    <2>2. req' \in [Requests -> Handler]
      BY <1>7, <2>1, BecomeType DEF SaveStep, TypeOK
    <2>3. req[r].seen + 1 \in 0 .. MaxMessages
      BY <1>3, <1>4, <1>7 DEF SaveStep
    <2>4. messages' \in [Threads -> 0 .. MaxMessages]
      BY <1>7, <2>3 DEF SaveStep, TypeOK
    <2>5. QED
      BY <1>2, <1>7, <2>2, <2>4, TypeOKParts, NoCauseType DEF SaveStep
  <1>8. CASE Answer(r)
    <2> DEFINE n == IF req[r].kind = "stream" THEN messages[req[r].thread] ELSE req[r].seen
    <2>1. n \in Nat  BY <1>3, <1>4
    <2>2. [req[r] EXCEPT !.pc = "answered", !.seen = n] \in Handler
      BY <1>1, <2>1 DEF Turn, TurnSteps, Handler
    <2>3. req' \in [Requests -> Handler]
      BY <1>8, <2>2, BecomeType DEF Answer, TypeOK
    <2>4. QED
      BY <1>2, <1>8, <2>3, TypeOKParts, NoCauseType DEF Answer, TypeOK
  <1>9. QED  BY <1>5, <1>6, <1>7, <1>8

LEMMA DeleteStepType ==
    ASSUME TypeOK, NEW r \in Requests,
           \/ \E b \in Browsers, a \in Owners, s \in SessionIds : StartDelete(r, b, a, s)
           \/ DeleteCheckpoint(r)
           \/ DeleteRecord(r)
    PROVE  TypeOK'
  <1>1. CASE \E b \in Browsers, a \in Owners, s \in SessionIds : StartDelete(r, b, a, s)
    <2>1. PICK b \in Browsers, a \in Owners, s \in SessionIds : StartDelete(r, b, a, s)
      BY <1>1
    <2> DEFINE h(t) == [pc |-> "delete_checkpoint", browser |-> b, account |-> a,
                        session |-> s, thread |-> t]
    <2>2. PICK t \in FindAccessible(b, a, s) : Become(r, h(t))  BY <2>1 DEF StartDelete
    <2>3. t \in Threads  BY <2>2, ResolveType
    <2>4. h(t) \in Delete  BY <2>3 DEF Delete
    <2>5. req' \in [Requests -> Handler]  BY <2>2, <2>4, BecomeType DEF TypeOK, Handler
    <2>6. QED
      BY <2>1, <2>5, TypeOKParts, NoCauseType, TypeOKRegistry, RegistryUnchanged
      DEF StartDelete, TypeOK
  <1>2. CASE DeleteCheckpoint(r)
    <2>1. req[r] \in Delete
      BY <1>2, HandlerByPc DEF TypeOK, DeleteCheckpoint, IsDelete
    <2>2. [req[r] EXCEPT !.pc = "delete_record"] \in Delete  BY <2>1 DEF Delete
    <2>3. req' \in [Requests -> Handler]
      BY <1>2, <2>2, BecomeType DEF DeleteCheckpoint, TypeOK, Handler
    <2>4. messages' \in [Threads -> 0 .. MaxMessages]
      BY <1>2, ZeroMessages DEF DeleteCheckpoint, TypeOK
    <2>5. QED
      BY <1>2, <2>3, <2>4, TypeOKParts, NoCauseType, TypeOKRegistry, RegistryUnchanged
      DEF DeleteCheckpoint
  <1>3. CASE DeleteRecord(r)
    <2>1. RegistryTypeOK'
      BY <1>3, RemoveRecordsType, TypeOKRegistry DEF DeleteRecord
    <2>2. req' \in [Requests -> Handler]
      BY <1>3, BecomeType DEF DeleteRecord, TypeOK, Handler
    <2>3. QED
      BY <1>3, <2>1, <2>2, TypeOKParts, NoCauseType DEF DeleteRecord, TypeOK
  <1>4. QED  BY <1>1, <1>2, <1>3

LEMMA AccountDeletionStepType ==
    ASSUME TypeOK, NEW r \in Requests,
           \/ \E a \in Accounts : StartAccountDeletion(r, a)
           \/ WipeCheckpoint(r)
           \/ FinishAccountDeletion(r)
    PROVE  TypeOK'
  <1>1. CASE \E a \in Accounts : StartAccountDeletion(r, a)
    <2>1. PICK a \in Accounts : StartAccountDeletion(r, a)  BY <1>1
    <2> DEFINE h == [pc |-> "wipe", account |-> a,
                     targets |-> AccountThreads(a), left |-> AccountThreads(a)]
    <2>2. h \in AccountDeletion  BY DEF AccountDeletion, AccountThreads
    <2>3. req' \in [Requests -> Handler]
      BY <2>1, <2>2, BecomeType DEF StartAccountDeletion, TypeOK, Handler
    <2>4. QED
      BY <2>1, <2>3, TypeOKParts, NoCauseType, TypeOKRegistry, RegistryUnchanged
      DEF StartAccountDeletion, TypeOK
  <1>2. CASE WipeCheckpoint(r)
    <2>1. req[r] \in AccountDeletion
      BY <1>2, HandlerByPc DEF TypeOK, WipeCheckpoint
    <2>2. PICK t \in req[r].left :
            /\ messages' = [messages EXCEPT ![t] = 0]
            /\ Become(r, [req[r] EXCEPT !.left = req[r].left \ {t}])
      BY <1>2 DEF WipeCheckpoint
    <2>3. [req[r] EXCEPT !.left = req[r].left \ {t}] \in AccountDeletion
      BY <2>1 DEF AccountDeletion
    <2>4. req' \in [Requests -> Handler]
      BY <2>2, <2>3, BecomeType DEF TypeOK, Handler
    <2>5. messages' \in [Threads -> 0 .. MaxMessages]
      BY <2>2, ZeroMessages DEF TypeOK
    <2>6. QED
      BY <1>2, <2>4, <2>5, TypeOKParts, NoCauseType, TypeOKRegistry, RegistryUnchanged
      DEF WipeCheckpoint
  <1>3. CASE FinishAccountDeletion(r)
    <2>1. RegistryTypeOK'
      BY <1>3, RemoveRecordsType, TypeOKRegistry DEF FinishAccountDeletion
    <2>2. req' \in [Requests -> Handler]
      BY <1>3, BecomeType DEF FinishAccountDeletion, TypeOK, Handler
    <2>3. QED
      BY <1>3, <2>1, <2>2, TypeOKParts, NoCauseType DEF FinishAccountDeletion, TypeOK
  <1>4. QED  BY <1>1, <1>2, <1>3

LEMMA PurgeStepType ==
    ASSUME TypeOK, NEW r \in Requests, StartPurge(r) \/ PurgeCheckpoint(r)
    PROVE  TypeOK'
  <1>1. CASE StartPurge(r)
    <2>1. RegistryTypeOK'
      BY <1>1, RemoveRecordsType, TypeOKRegistry DEF StartPurge
    <2>2. [pc |-> "purge", left |-> InactiveSaved] \in Purge
      BY DEF Purge, InactiveSaved
    <2>3. req' \in [Requests -> Handler]
      BY <1>1, <2>2, BecomeType DEF StartPurge, TypeOK, Handler
    <2>4. QED
      BY <1>1, <2>1, <2>3, TypeOKParts, NoCauseType DEF StartPurge, TypeOK
  <1>2. CASE PurgeCheckpoint(r)
    <2>1. req[r] \in Purge  BY <1>2, HandlerByPc DEF TypeOK, PurgeCheckpoint
    <2> DEFINE h(t) == IF req[r].left = {t}
                         THEN Idle ELSE [req[r] EXCEPT !.left = req[r].left \ {t}]
    <2>2. PICK t \in req[r].left :
            messages' = [messages EXCEPT ![t] = 0] /\ Become(r, h(t))
      BY <1>2 DEF PurgeCheckpoint
    <2>3. h(t) \in Purge \cup {Idle}  BY <2>1 DEF Purge
    <2>4. req' \in [Requests -> Handler]
      BY <2>2, <2>3, BecomeType DEF TypeOK, Handler
    <2>5. messages' \in [Threads -> 0 .. MaxMessages]
      BY <2>2, ZeroMessages DEF TypeOK
    <2>6. QED
      BY <1>2, <2>4, <2>5, TypeOKParts, NoCauseType, TypeOKRegistry, RegistryUnchanged
      DEF PurgeCheckpoint
  <1>3. QED  BY <1>1, <1>2

LEMMA OtherStepType ==
    ASSUME TypeOK,
           \/ \E r \in Requests : Abandon(r)
           \/ \E b \in Browsers, a \in Accounts, S \in SUBSET SessionIds : Claim(b, a, S)
           \/ RetentionElapses
    PROVE  TypeOK'
  <1>1. CASE \E r \in Requests : Abandon(r)
    <2>1. PICK r \in Requests : Abandon(r)  BY <1>1
    <2>2. req' \in [Requests -> Handler]
      BY <2>1, BecomeType DEF Abandon, TypeOK, Handler
    <2>3. QED
      BY <2>1, <2>2, TypeOKParts, CutCauseType, TypeOKRegistry, RegistryUnchanged
      DEF Abandon, TypeOK
  <1>2. CASE \E b \in Browsers, a \in Accounts, S \in SUBSET SessionIds : Claim(b, a, S)
    <2>1. PICK b \in Browsers, a \in Accounts, S \in SUBSET SessionIds : Claim(b, a, S)
      BY <1>2
    <2> DEFINE cause == [t \in Threads |->
           IF \E u \in Claimable(b, a, S), r \in Requests : Spoils(req[r], u, a, t)
             THEN Raced ELSE Calm]
    <2>2. cause \in [Threads -> Calm .. Raced]  BY DEF Calm, Raced
    <2>3. RegistryTypeOK'  BY <2>1, ClaimSessionsType, TypeOKRegistry DEF Claim
    <2>4. Observe(cause)  BY <2>1 DEF Claim
    <2>5. QED  BY <2>1, <2>2, <2>3, <2>4, TypeOKParts DEF Claim, TypeOK
  <1>3. CASE RetentionElapses
    BY <1>3, AgeRecordsType, TypeOKRegistry, TypeOKParts, NoCauseType
    DEF RetentionElapses, TypeOK
  <1>4. QED  BY <1>1, <1>2, <1>3

-----------------------------------------------------------------------------
\* The stores, the handlers and the history keep their types in every behaviour,
\* for every set of browsers, sessions, accounts and handlers in flight.
THEOREM TypeCorrect == Spec => []TypeOK
  <1>1. Init => TypeOK
    BY MaxMessagesAssumption
    DEF Init, TypeOK, RegistryInit, Handler, Calm, Raced
  <1>2. TypeOK /\ [Next]_vars => TypeOK'
    <2> SUFFICES ASSUME TypeOK, [Next]_vars PROVE TypeOK'  OBVIOUS
    <2>1. ASSUME NEW r \in Requests, TurnStep(r) PROVE TypeOK'
      BY <2>1, StartTurnType, RegisterStepType, GraphStepType DEF TurnStep
    <2>2. ASSUME NEW r \in Requests, DeletionStep(r) PROVE TypeOK'
      BY <2>2, DeleteStepType, AccountDeletionStepType, PurgeStepType DEF DeletionStep
    <2>3. CASE UNCHANGED vars  BY <2>3 DEF vars, TypeOK
    <2>4. QED  BY <2>1, <2>2, <2>3, OtherStepType DEF Next
  <1>3. QED  BY <1>1, <1>2, PTL DEF Spec

-----------------------------------------------------------------------------
(* A thread is the hash of its browser and session: records and turns agree. *)

\* A record's key is that of its browser and session, by construction of the
\* thread a first turn registers under.
RecordsMatch ==
    \A t \in Threads : Has(t) => records[t].browser = t[1] /\ records[t].session = t[2]

\* A turn registers under its thread's own browser and session.
TurnsMatch ==
    \A r \in Requests :
        IsTurn(req[r]) => /\ req[r].owner = req[r].thread[1]
                          /\ req[r].session = req[r].thread[2]

IdentityInv == TypeOK /\ RecordsMatch /\ TurnsMatch

LEMMA IdentityInvImplies == IdentityInv => IdentityNeverConflicts
  <1> SUFFICES ASSUME IdentityInv, NEW r \in Requests, IsTurn(req[r])
               PROVE  IdentityMatches(req[r].thread, req[r].owner, req[r].session)
    BY DEF IdentityNeverConflicts
  <1>1. req[r] \in Turn  BY HandlerByPc DEF IdentityInv, TypeOK, IsTurn
  <1>2. req[r].thread \in Threads  BY <1>1 DEF Turn
  <1>3. QED
    BY <1>2 DEF IdentityInv, RecordsMatch, TurnsMatch, IdentityMatches

\* The thread a request resolves to is that of its session, and of the browser
\* that the turn will register under.
LEMMA ResolveMatches ==
    ASSUME IdentityInv, NEW b \in Browsers, NEW a \in Owners, NEW s \in SessionIds,
           NEW t \in Resolve(b, a, s)
    PROVE  TurnOwner(t, b) = t[1] /\ s = t[2]
  <1>1. t \in Threads  BY ResolveType
  <1>2. CASE Accessible(b, a, s) = {}
    <2>1. t = <<b, s>>  BY <1>2 DEF Resolve, PrivateThread
    <2>2. QED  BY <1>1, <2>1 DEF IdentityInv, RecordsMatch, TurnOwner
  <1>3. CASE Accessible(b, a, s) # {}
    <2>1. t \in Accessible(b, a, s)  BY <1>3 DEF Resolve, FindAccessible
    <2>2. Has(t) /\ records[t].session = s  BY <2>1 DEF Accessible
    <2>3. QED  BY <1>1, <2>2 DEF IdentityInv, RecordsMatch, TurnOwner
  <1>4. QED  BY <1>2, <1>3

\* A step that leaves the records alone, or removes some, keeps RecordsMatch.
LEMMA RegisterMatches ==
    ASSUME IdentityInv, NEW r \in Requests, req[r].pc \in TurnSteps, RegisterFor(r)
    PROVE  RecordsMatch'
  <1> DEFINE t == req[r].thread
  <1>1. req[r] \in Turn  BY HandlerByPc DEF IdentityInv, TypeOK
  <1>2. t \in Threads /\ req[r].owner = t[1] /\ req[r].session = t[2]
    BY <1>1 DEF IdentityInv, TurnsMatch, IsTurn, Turn
  <1>3. ASSUME NEW u \in Threads, Has(u)'
        PROVE  (records[u].browser = u[1] /\ records[u].session = u[2])'
    <2>1. CASE u # t
      BY <1>2, <1>3, <2>1 DEF IdentityInv, RecordsMatch, RegisterFor, RegisterTurn, TypeOK, Has
    <2>2. CASE u = t /\ Has(t)
      <3>1. records[t] \in Record /\ records[t].browser = t[1] /\ records[t].session = t[2]
        BY <1>2, <2>2 DEF IdentityInv, TypeOK, RecordsMatch, Has
      <3>2. records'[t] = UpdatedRecord(records[t], req[r].account, req[r].seen)
        BY <1>2, <2>2 DEF IdentityInv, TypeOK, RegisterFor, RegisterTurn
      <3>3. QED  BY <2>2, <3>1, <3>2 DEF UpdatedRecord, Record
    <2>3. CASE u = t /\ ~Has(t)
      BY <1>2, <2>3 DEF IdentityInv, TypeOK, RegisterFor, RegisterTurn, NewRecord
    <2>4. QED  BY <2>1, <2>2, <2>3
  <1>4. QED  BY <1>3 DEF RecordsMatch

LEMMA ClaimMatches ==
    ASSUME IdentityInv, NEW b \in Browsers, NEW a \in Accounts,
           NEW S \in SUBSET SessionIds, ClaimSessions(b, a, S)
    PROVE  RecordsMatch'
  <1>1. ASSUME NEW u \in Threads, Has(u)'
        PROVE  (records[u].browser = u[1] /\ records[u].session = u[2])'
    <2>1. CASE u \in Claimable(b, a, S)
      <3>1. records[u] \in Record /\ records[u].browser = u[1] /\ records[u].session = u[2]
        BY <2>1 DEF IdentityInv, TypeOK, RecordsMatch, Claimable, Has
      <3>2. records'[u] = [records[u] EXCEPT !.account = a, !.stale = FALSE]
        BY <2>1 DEF ClaimSessions
      <3>3. QED  BY <3>1, <3>2 DEF Record
    <2>2. CASE u \notin Claimable(b, a, S)
      BY <1>1, <2>2 DEF IdentityInv, RecordsMatch, ClaimSessions, Has
    <2>3. QED  BY <2>1, <2>2
  <1>2. QED  BY <1>1 DEF RecordsMatch

LEMMA RemoveMatches ==
    ASSUME IdentityInv, NEW S, RemoveRecords(S)
    PROVE  RecordsMatch'
  BY DEF IdentityInv, RecordsMatch, RemoveRecords, Has

LEMMA AgeMatches ==
    ASSUME IdentityInv, AgeRecords
    PROVE  RecordsMatch'
  <1>1. ASSUME NEW u \in Threads, Has(u)'
        PROVE  (records[u].browser = u[1] /\ records[u].session = u[2])'
    <2>1. CASE Saved(u)
      <3>1. records[u] \in Record /\ records[u].browser = u[1] /\ records[u].session = u[2]
        BY <2>1 DEF IdentityInv, TypeOK, RecordsMatch, Saved, Has
      <3>2. records'[u] = [records[u] EXCEPT !.stale = TRUE]
        BY <2>1 DEF AgeRecords
      <3>3. QED  BY <3>1, <3>2 DEF Record
    <2>2. CASE ~Saved(u)
      BY <1>1, <2>2 DEF IdentityInv, RecordsMatch, AgeRecords, Has
    <2>3. QED  BY <2>1, <2>2
  <1>2. QED  BY <1>1 DEF RecordsMatch

\* A step that changes no turn's thread, owner or session keeps TurnsMatch: each
\* handler after it is a turn only if it was the same turn before it.
LEMMA TurnsMatchKept ==
    ASSUME IdentityInv, NEW r \in Requests, NEW h, Become(r, h),
           IsTurn(h) => h.owner = h.thread[1] /\ h.session = h.thread[2]
    PROVE  TurnsMatch'
  BY DEF IdentityInv, TypeOK, TurnsMatch, Become, IsTurn

\* After its start a turn only moves on and reads: it keeps what it is about.
LEMMA TurnStepForm ==
    ASSUME NEW r \in Requests, req[r] \in Turn,
           \/ RegisterFirst(r) \/ CheckResume(r) \/ LoadGraph(r) \/ SaveStep(r)
           \/ Answer(r) \/ RegisterFinal(r)
    PROVE  \E h : /\ Become(r, h)
                  /\ \/ h = Idle
                     \/ \E p \in TurnSteps : \E n :
                          h = [req[r] EXCEPT !.pc = p, !.seen = n]
  <1>1. req[r].pc \in TurnSteps  BY DEF Turn
  <1>2. req[r] = [req[r] EXCEPT !.seen = req[r].seen]
    BY DEF Turn
  <1>3. [req[r] EXCEPT !.pc = "ready"]
          = [req[r] EXCEPT !.pc = "ready", !.seen = req[r].seen]
    BY DEF Turn
  <1>4. CASE RegisterFirst(r) \/ CheckResume(r)
    BY <1>3, <1>4 DEF RegisterFirst, CheckResume, TurnSteps
  <1>5. CASE LoadGraph(r) \/ Answer(r)
    BY <1>5 DEF LoadGraph, Answer, TurnSteps
  <1>6. CASE SaveStep(r)
    <2>1. [req[r] EXCEPT !.seen = req[r].seen + 1]
            = [req[r] EXCEPT !.pc = req[r].pc, !.seen = req[r].seen + 1]
      BY DEF Turn
    <2>2. QED  BY <1>1, <1>6, <2>1 DEF SaveStep
  <1>7. CASE RegisterFinal(r)  BY <1>7 DEF RegisterFinal
  <1>8. QED  BY <1>4, <1>5, <1>6, <1>7

LEMMA TurnStepMatches ==
    ASSUME IdentityInv, NEW r \in Requests, TurnStep(r)
    PROVE  RecordsMatch' /\ TurnsMatch'
  <1>1. CASE \E b \in Browsers, a \in Owners, s \in SessionIds, k \in Kinds :
               StartTurn(r, b, a, s, k)
    <2>1. PICK b \in Browsers, a \in Owners, s \in SessionIds, k \in Kinds :
            StartTurn(r, b, a, s, k)
      BY <1>1
    <2> DEFINE h(t) == [pc |-> IF k = "resume" THEN "checking" ELSE "resolved",
                        kind |-> k, account |-> a, session |-> s, thread |-> t,
                        owner |-> TurnOwner(t, b), seen |-> KnownCount(t)]
    <2>2. PICK t \in Resolve(b, a, s) : Become(r, h(t))  BY <2>1 DEF StartTurn
    <2>3. h(t).owner = h(t).thread[1] /\ h(t).session = h(t).thread[2]
      BY <2>2, ResolveMatches
    <2>4. TurnsMatch'  BY <2>2, <2>3, TurnsMatchKept
    <2>5. RecordsMatch'  BY <2>1 DEF IdentityInv, RecordsMatch, StartTurn, Has
    <2>6. QED  BY <2>4, <2>5
  <1>2. ASSUME RegisterFirst(r) \/ CheckResume(r) \/ LoadGraph(r) \/ SaveStep(r)
                 \/ Answer(r) \/ RegisterFinal(r)
        PROVE  RecordsMatch' /\ TurnsMatch'
    <2>1. req[r].pc \in TurnSteps
      BY <1>2 DEF RegisterFirst, CheckResume, LoadGraph, SaveStep, Answer,
                  RegisterFinal, TurnSteps
    <2>2. req[r] \in Turn  BY <2>1, HandlerByPc DEF IdentityInv, TypeOK
    <2>3. req[r].owner = req[r].thread[1] /\ req[r].session = req[r].thread[2]
      BY <2>1 DEF IdentityInv, TurnsMatch, IsTurn
    <2>4. PICK h : /\ Become(r, h)
                   /\ \/ h = Idle
                      \/ \E p \in TurnSteps : \E n :
                           h = [req[r] EXCEPT !.pc = p, !.seen = n]
      BY <1>2, <2>2, TurnStepForm
    <2>5. IsTurn(h) => h.owner = h.thread[1] /\ h.session = h.thread[2]
      <3>1. CASE h = Idle  BY <3>1 DEF Idle, IsTurn, TurnSteps
      <3>2. ASSUME NEW p \in TurnSteps, NEW n, h = [req[r] EXCEPT !.pc = p, !.seen = n]
            PROVE  h.owner = h.thread[1] /\ h.session = h.thread[2]
        <4>1. /\ h.owner = req[r].owner
              /\ h.thread = req[r].thread
              /\ h.session = req[r].session
          BY <2>2, <3>2 DEF Turn
        <4>2. QED  BY <2>3, <4>1
      <3>3. QED  BY <2>4, <3>1, <3>2
    <2>6. TurnsMatch'  BY <2>4, <2>5, TurnsMatchKept
    <2>7. RecordsMatch'
      <3>1. CASE RegisterFirst(r) \/ RegisterFinal(r)
        BY <2>1, <3>1, RegisterMatches DEF RegisterFirst, RegisterFinal
      <3>2. CASE CheckResume(r) \/ LoadGraph(r) \/ SaveStep(r) \/ Answer(r)
        BY <3>2 DEF IdentityInv, RecordsMatch, CheckResume, LoadGraph, SaveStep, Answer, Has
      <3>3. QED  BY <1>2, <3>1, <3>2
    <2>8. QED  BY <2>6, <2>7
  <1>3. QED  BY <1>1, <1>2 DEF TurnStep

LEMMA DeletionStepMatches ==
    ASSUME IdentityInv, NEW r \in Requests, DeletionStep(r) \/ Abandon(r)
    PROVE  RecordsMatch' /\ TurnsMatch'
  <1>1. PICK h : Become(r, h) /\ ~IsTurn(h)
    <2>1. CASE \E b \in Browsers, a \in Owners, s \in SessionIds : StartDelete(r, b, a, s)
      BY <2>1 DEF StartDelete, IsTurn, TurnSteps
    <2>2. CASE DeleteCheckpoint(r)
      <3>1. req[r] \in Delete
        BY <2>2, HandlerByPc DEF IdentityInv, TypeOK, DeleteCheckpoint, IsDelete
      <3>2. ~IsTurn([req[r] EXCEPT !.pc = "delete_record"])
        BY <3>1 DEF Delete, IsTurn, TurnSteps
      <3>3. QED  BY <2>2, <3>2 DEF DeleteCheckpoint
    <2>3. CASE DeleteRecord(r) \/ FinishAccountDeletion(r) \/ Abandon(r)
      BY <2>3 DEF DeleteRecord, FinishAccountDeletion, Abandon, Idle, IsTurn, TurnSteps
    <2>4. CASE \E a \in Accounts : StartAccountDeletion(r, a)
      BY <2>4 DEF StartAccountDeletion, IsTurn, TurnSteps
    <2>5. CASE WipeCheckpoint(r)
      <3>1. PICK t \in req[r].left : Become(r, [req[r] EXCEPT !.left = req[r].left \ {t}])
        BY <2>5 DEF WipeCheckpoint
      <3>2. req[r] \in AccountDeletion
        BY <2>5, HandlerByPc DEF IdentityInv, TypeOK, WipeCheckpoint
      <3>3. ~IsTurn([req[r] EXCEPT !.left = req[r].left \ {t}])
        BY <3>2 DEF AccountDeletion, IsTurn, TurnSteps
      <3>4. QED  BY <3>1, <3>3
    <2>6. CASE StartPurge(r)
      BY <2>6 DEF StartPurge, IsTurn, TurnSteps
    <2>7. CASE PurgeCheckpoint(r)
      <3> DEFINE g(t) == IF req[r].left = {t}
                           THEN Idle ELSE [req[r] EXCEPT !.left = req[r].left \ {t}]
      <3>1. PICK t \in req[r].left : Become(r, g(t))  BY <2>7 DEF PurgeCheckpoint
      <3>2. req[r] \in Purge
        BY <2>7, HandlerByPc DEF IdentityInv, TypeOK, PurgeCheckpoint
      <3>3. ~IsTurn(g(t))  BY <3>2 DEF Purge, Idle, IsTurn, TurnSteps
      <3>4. QED  BY <3>1, <3>3
    <2>8. QED  BY <2>1, <2>2, <2>3, <2>4, <2>5, <2>6, <2>7 DEF DeletionStep
  <1>2. TurnsMatch'  BY <1>1, TurnsMatchKept
  <1>3. RecordsMatch'
    <2>1. CASE UNCHANGED records
      BY <2>1 DEF IdentityInv, RecordsMatch, Has
    <2>2. CASE \E S : RemoveRecords(S)
      BY <2>2, RemoveMatches
    <2>3. UNCHANGED records \/ \E S : RemoveRecords(S)
      BY DEF DeletionStep, StartDelete, DeleteCheckpoint, DeleteRecord,
             StartAccountDeletion, WipeCheckpoint, FinishAccountDeletion, StartPurge,
             PurgeCheckpoint, Abandon
    <2>4. QED  BY <2>1, <2>2, <2>3
  <1>4. QED  BY <1>2, <1>3

\* The identity of every record and turn is that of its thread.
THEOREM IdentityInvHolds == Spec => []IdentityInv
  <1>1. Init => IdentityInv
    <2>1. Init => TypeOK
      BY MaxMessagesAssumption
      DEF Init, TypeOK, RegistryInit, Handler, Calm, Raced
    <2>2. Init => RecordsMatch /\ TurnsMatch
      BY DEF Init, RegistryInit, RecordsMatch, TurnsMatch, Has, Idle, IsTurn, TurnSteps
    <2>3. QED  BY <2>1, <2>2 DEF IdentityInv
  <1>2. IdentityInv /\ TypeOK' /\ [Next]_vars => IdentityInv'
    <2> SUFFICES ASSUME IdentityInv, TypeOK', [Next]_vars
                 PROVE  RecordsMatch' /\ TurnsMatch'
      BY DEF IdentityInv
    <2>1. CASE \E r \in Requests : TurnStep(r)  BY <2>1, TurnStepMatches
    <2>2. CASE \E r \in Requests : DeletionStep(r) \/ Abandon(r)
      BY <2>2, DeletionStepMatches
    <2>3. CASE \E b \in Browsers, a \in Accounts, S \in SUBSET SessionIds : Claim(b, a, S)
      BY <2>3, ClaimMatches DEF Claim, IdentityInv, TurnsMatch
    <2>4. CASE RetentionElapses
      BY <2>4, AgeMatches DEF RetentionElapses, IdentityInv, TurnsMatch
    <2>5. CASE UNCHANGED vars
      BY <2>5 DEF vars, IdentityInv, RecordsMatch, TurnsMatch, Has
    <2>6. QED  BY <2>1, <2>2, <2>3, <2>4, <2>5 DEF Next
  <1>3. QED  BY <1>1, <1>2, TypeCorrect, PTL DEF Spec

\* A turn's final registration can always be written: no row ever answers it with
\* an identity conflict, whatever was deleted, purged or opened again meanwhile.
THEOREM IdentityCorrect == Spec => []IdentityNeverConflicts
  BY IdentityInvHolds, IdentityInvImplies, PTL

-----------------------------------------------------------------------------
(* Every step is a step of SessionOwnership, or leaves ownership alone. *)

LEMMA RegisterOwner ==
    ASSUME TypeOK, NEW r \in Requests, req[r].pc \in TurnSteps, RegisterFor(r)
    PROVE  Ownership!Next \/ Owner' = Owner
  <1> DEFINE t == req[r].thread
             a == req[r].account
  <1>1. /\ t \in Threads /\ a \in Owners /\ req[r].owner \in Browsers
        /\ req[r].session \in SessionIds /\ req[r].seen \in Nat
    BY HandlerByPc DEF TypeOK, Turn
  <1>2. CASE ~Has(t)
    <2> DEFINE new == NewRecord(req[r].owner, a, req[r].session, req[r].seen)
    <2>1. records' = [records EXCEPT ![t] = new]
      BY <1>2 DEF RegisterFor, RegisterTurn
    <2>2. new \in Record /\ new.account = a
      BY <1>1 DEF NewRecord, Record
    <2>3. Owner' = [Owner EXCEPT ![t] = a]
      BY <1>1, <2>1, <2>2, NoRecordAssumption DEF Owner, Has, TypeOK
    <2>4. Owner[t] = NoRecord  BY <1>1, <1>2 DEF Owner
    <2>5. Ownership!Open(t, a)  BY <2>3, <2>4 DEF Ownership!Open
    <2>6. QED  BY <1>1, <2>5 DEF Ownership!Next, Owners
  <1>3. CASE Has(t)
    <2> DEFINE new == UpdatedRecord(records[t], a, req[r].seen)
               merged == MergedAccount(records[t].account, a)
    <2>1. records[t] \in Record  BY <1>1, <1>3 DEF TypeOK, Has
    <2>2. records' = [records EXCEPT ![t] = new]
      BY <1>3 DEF RegisterFor, RegisterTurn
    <2>3. new \in Record /\ new.account = merged
      BY <1>1, <2>1 DEF UpdatedRecord, Record, MergedAccount, Larger
    <2>4. Owner' = [u \in Threads |-> IF u = t THEN merged ELSE Owner[u]]
      BY <1>1, <2>2, <2>3, NoRecordAssumption DEF Owner, Has, TypeOK
    <2>5. CASE records[t].account = NoAccount /\ a \in Accounts
      <3>1. Owner' = [u \in Threads |-> IF u \in {t} THEN a ELSE Owner[u]]
        BY <2>4, <2>5 DEF MergedAccount
      <3>2. \A u \in {t} : Owner[u] = NoAccount  BY <1>1, <1>3, <2>5 DEF Owner
      <3>3. Ownership!Save({t}, a)  BY <3>1, <3>2 DEF Ownership!Save
      <3>4. QED  BY <1>1, <2>5, <3>3 DEF Ownership!Next
    <2>6. CASE ~(records[t].account = NoAccount /\ a \in Accounts)
      <3>1. merged = records[t].account
        BY <1>1, <2>6 DEF MergedAccount, Owners
      <3>2. QED  BY <1>1, <1>3, <2>4, <3>1 DEF Owner
    <2>7. QED  BY <2>5, <2>6
  <1>4. QED  BY <1>2, <1>3

LEMMA ClaimOwner ==
    ASSUME TypeOK, NEW b \in Browsers, NEW a \in Accounts, NEW S \in SUBSET SessionIds,
           ClaimSessions(b, a, S)
    PROVE  Ownership!Next
  <1> DEFINE U == {t \in Claimable(b, a, S) : records[t].account = NoAccount}
  <1>1. \A t \in U : Owner[t] = NoAccount  BY DEF Claimable, Owner
  <1>2. ASSUME NEW t \in Threads
        PROVE  Owner'[t] = IF t \in U THEN a ELSE Owner[t]
    <2>1. CASE t \in Claimable(b, a, S)
      <3>1. records[t] \in Record /\ Has(t) /\ records[t].account \in {NoAccount, a}
        BY <2>1 DEF TypeOK, Claimable, Has
      <3>2. records'[t] = [records[t] EXCEPT !.account = a, !.stale = FALSE]
        BY <2>1 DEF ClaimSessions
      <3>3. records'[t] \in Record /\ records'[t].account = a
        BY <3>1, <3>2 DEF Record, Owners
      <3>4. Owner'[t] = a  BY <3>3, NoRecordAssumption DEF Owner, Has
      <3>5. QED  BY <2>1, <3>1, <3>4 DEF Owner
    <2>2. CASE t \notin Claimable(b, a, S)
      BY <2>2 DEF ClaimSessions, Owner, Has
    <2>3. QED  BY <2>1, <2>2
  <1>3. Owner' = [t \in Threads |-> IF t \in U THEN a ELSE Owner[t]]
    BY <1>2 DEF Owner
  <1>4. Ownership!Save(U, a)  BY <1>1, <1>3 DEF Ownership!Save
  <1>5. U \in SUBSET Threads  BY DEF Claimable
  <1>6. QED  BY <1>4, <1>5 DEF Ownership!Next

LEMMA RemoveOwner ==
    ASSUME NEW S \in SUBSET Threads, RemoveRecords(S)
    PROVE  Ownership!Next
  <1>1. Owner' = [t \in Threads |-> IF t \in S THEN NoRecord ELSE Owner[t]]
    BY DEF RemoveRecords, Owner, Has
  <1>2. QED  BY <1>1 DEF Ownership!Next, Ownership!Remove

LEMMA AgeOwner ==
    ASSUME TypeOK, AgeRecords
    PROVE  Owner' = Owner
  <1>1. ASSUME NEW t \in Threads
        PROVE  Owner'[t] = Owner[t]
    <2>1. CASE Saved(t)
      <3>1. records[t] \in Record  BY <2>1 DEF TypeOK, Saved, Has
      <3>2. records'[t] = [records[t] EXCEPT !.stale = TRUE]  BY <2>1 DEF AgeRecords
      <3>3. records'[t] \in Record /\ records'[t].account = records[t].account
        BY <3>1, <3>2 DEF Record
      <3>4. QED  BY <2>1, <3>3, NoRecordAssumption DEF Owner, Has, Saved
    <2>2. CASE ~Saved(t)  BY <2>2 DEF AgeRecords, Owner, Has
    <2>3. QED  BY <2>1, <2>2
  <1>2. QED  BY <1>1 DEF Owner

\* The handlers implement the ownership specification: in every interleaving, a
\* saved conversation stays its account's until it is removed.
THEOREM OwnershipCorrect == Spec => OwnershipSpec
  <1>1. Init => Ownership!Init
    BY DEF Init, RegistryInit, Owner, Has, Ownership!Init
  <1>2. TypeOK /\ [Next]_vars => [Ownership!Next]_Owner
    <2> SUFFICES ASSUME TypeOK, [Next]_vars
                 PROVE  Ownership!Next \/ Owner' = Owner
      OBVIOUS
    <2>1. CASE UNCHANGED records  BY <2>1 DEF Owner, Has
    <2>2. CASE \E S \in SUBSET Threads : RemoveRecords(S)  BY <2>2, RemoveOwner
    <2>3. CASE \E r \in Requests : req[r].pc \in TurnSteps /\ RegisterFor(r)
      BY <2>3, RegisterOwner
    <2>4. CASE \E b \in Browsers, a \in Accounts, S \in SUBSET SessionIds :
                 ClaimSessions(b, a, S)
      BY <2>4, ClaimOwner
    <2>5. CASE AgeRecords  BY <2>5, AgeOwner
    <2>6. ASSUME NEW r \in Requests, TurnStep(r)
          PROVE  UNCHANGED records \/ (req[r].pc \in TurnSteps /\ RegisterFor(r))
      BY <2>6 DEF TurnStep, StartTurn, RegisterFirst, CheckResume, LoadGraph, SaveStep,
                  Answer, RegisterFinal, TurnSteps
    <2>7. ASSUME NEW r \in Requests, DeletionStep(r) \/ Abandon(r)
          PROVE  UNCHANGED records \/ \E S \in SUBSET Threads : RemoveRecords(S)
      <3>1. /\ DeletedRecords(r) \subseteq Threads
            /\ AccountThreads(req[r].account) \subseteq Threads
            /\ InactiveSaved \subseteq Threads
        BY DEF DeletedRecords, FindAccessible, Accessible, AccountThreads, InactiveSaved
      <3>2. QED
        BY <2>7, <3>1
        DEF DeletionStep, StartDelete, DeleteCheckpoint, DeleteRecord,
            StartAccountDeletion, WipeCheckpoint, FinishAccountDeletion, StartPurge,
            PurgeCheckpoint, Abandon
    <2>8. QED
      BY <2>1, <2>2, <2>3, <2>4, <2>5, <2>6, <2>7 DEF Next, vars, Claim, RetentionElapses
  <1>3. QED  BY <1>1, <1>2, TypeCorrect, PTL DEF Spec, OwnershipSpec, Ownership!Spec

-----------------------------------------------------------------------------
(***************************************************************************)
(* The two stores agree.  What holds of a thread t depends on how badly    *)
(* its handlers got in each other's way: each conjunct names the level of  *)
(* disturbed[t] below which it can be relied on.                           *)
(***************************************************************************)

\* Handler r has still to delete t's checkpoint, after t's record; it deleted t's
\* checkpoint and has still to delete the record: an account's, or one session's.
Purging(r, t) == req[r].pc = "purge" /\ t \in req[r].left
Wiped(r, t) == req[r].pc = "wipe" /\ t \in req[r].targets \ req[r].left
Emptied(r, t) == req[r].pc = "delete_record" /\ req[r].thread = t

Deletes(r, s) == IsDelete(req[r]) /\ req[r].session = s

\* No two records were last written each before the other.
WritesAreOrdered ==
    \A t, u \in Threads : t # u => ~(u \in older[t] /\ t \in older[u])

\* The history has recorded every overlap that is visible now.
OverlapIsSeen == \A t \in Threads : Overlap(t) <= disturbed[t]

HandlersMatch ==
    \A r \in Requests :
        /\ IsDelete(req[r]) => req[r].thread \in Threads /\ req[r].thread[2] = req[r].session
        /\ req[r].pc = "wipe" => req[r].left \subseteq req[r].targets

\* An orphan is still on the list of the purge that made it one.
OrphanIsKnown(t) ==
    Orphan(t) => disturbed[t] >= PurgeCut \/ \E r \in Requests : Purging(r, t)

\* A count without messages is about to go with its record.
CountIsBacked(t) ==
    Has(t) /\ disturbed[t] = Calm =>
        records[t].count <= messages[t] \/ \E r \in Requests : Emptied(r, t) \/ Wiped(r, t)

\* A turn runs only for a registered thread, and what it will register is in the
\* checkpoint.
TurnIsBacked(r, t) ==
    r \in OnThread(t) =>
        /\ req[r].pc \in {"ready", "running", "answered"} =>
              Has(t) \/ disturbed[t] >= PurgeCut
        /\ disturbed[t] = Calm =>
              /\ req[r].seen <= messages[t]
              /\ req[r].pc = "running" => req[r].seen = messages[t]

\* A deletion will look up the very record it resolved.
DeleteIsExact(r, t) ==
    disturbed[t] < Raced =>
        /\ Deletes(r, t[2]) => DeletedRecords(r) = {req[r].thread}
        /\ Emptied(r, t) => messages[t] = 0

\* The account still has the threads whose checkpoints are being deleted.
WipeIsExact(r, t) ==
    disturbed[t] < Raced /\ req[r].pc = "wipe" =>
        /\ t \in req[r].targets <=> t \in AccountThreads(req[r].account)
        /\ Wiped(r, t) => messages[t] = 0

PurgeIsExact(r, t) == disturbed[t] < Raced /\ Purging(r, t) => ~Has(t)

HandlerInv(r, t) ==
    TurnIsBacked(r, t) /\ DeleteIsExact(r, t) /\ WipeIsExact(r, t) /\ PurgeIsExact(r, t)

ThreadInv(t) ==
    OrphanIsKnown(t) /\ CountIsBacked(t) /\ \A r \in Requests : HandlerInv(r, t)

StoreInv ==
    /\ IdentityInv
    /\ WritesAreOrdered
    /\ OverlapIsSeen
    /\ HandlersMatch
    /\ \A t \in Threads : ThreadInv(t)

-----------------------------------------------------------------------------
(* What the history rules out. *)

\* Nobody spoils what a handler does to t; nobody else works on t.
Clear(t) ==
    /\ \A u \in Threads : \A r1, r2 \in Deleting(u) :
          r1 # r2 => ~Spoils(req[r2], u, NoAccount, t)
    /\ \A r1, r2 \in Requests :
          IsTurn(req[r1]) => ~Spoils(req[r2], req[r1].thread, req[r1].account, t)

Alone(t) == \A r1, r2 \in OnThread(t) : r1 = r2

\* A step after which t is not gone and settled.
Grows(t) ==
    /\ disturbed[t] \in Calm .. Raced /\ disturbed'[t] \in Calm .. Raced
    /\ disturbed[t] <= disturbed'[t]
    /\ disturbed'[t] < Raced => Clear(t) /\ Clear(t)'
    /\ disturbed'[t] = Calm => Alone(t) /\ Alone(t)'

LEMMA OverlapLevels ==
    ASSUME NEW t \in Threads
    PROVE  /\ Overlap(t) < Raced => Clear(t)
           /\ Overlap(t) = Calm => Alone(t)
  BY DEF Overlap, Clear, Alone, Calm, Uneven, Raced

LEMMA OverlapLevelsNext ==
    ASSUME NEW t \in Threads
    PROVE  /\ Overlap(t)' < Raced => Clear(t)'
           /\ Overlap(t)' = Calm => Alone(t)'
  BY DEF Overlap, Clear, Alone, Calm, Uneven, Raced

LEMMA OverlapOfSettled ==
    ASSUME NEW t \in Threads, Settled(t)'
    PROVE  Overlap(t)' = Calm
  <1>1. Clear(t)'
    <2>1. ASSUME NEW u \in Threads, NEW r \in Requests, Spoils(req[r], u, NoAccount, t)'
          PROVE  FALSE
      <3>1. Concerns(req[r], t, NoAccount)'  BY <2>1 DEF Spoils, Concerns
      <3>2. QED  BY <3>1 DEF Settled, Deleting
    <2>2. ASSUME NEW u \in Threads, NEW r \in Deleting(u)'
          PROVE  ~Spoils(req[r], u, NoAccount, t)'
      BY <2>1, <2>2 DEF Deleting
    <2>3. ASSUME NEW r1 \in Requests, NEW r2 \in Requests, IsTurn(req[r1])'
          PROVE  ~Spoils(req[r2], req[r1].thread, req[r1].account, t)'
      <3>1. SUFFICES ASSUME Spoils(req[r2], req[r1].thread, req[r1].account, t)'
                     PROVE  FALSE
        OBVIOUS
      <3>2. t # req'[r1].thread  BY <2>3 DEF Settled, OnThread
      <3>3. Concerns(req[r2], t, NoAccount)'  BY <3>1, <3>2 DEF Spoils, Concerns
      <3>4. QED  BY <3>3 DEF Settled, Deleting
    <2>4. QED  BY <2>2, <2>3 DEF Clear
  <1>2. OnThread(t)' = {}  BY DEF Settled
  <1>3. QED  BY <1>1, <1>2 DEF Clear, Overlap, Calm, Uneven, Raced

LEMMA ObserveGrows ==
    ASSUME TypeOK, OverlapIsSeen, NEW cause \in [Threads -> Calm .. Raced],
           Observe(cause), NEW t \in Threads
    PROVE  /\ Overlap(t)' <= disturbed'[t]
           /\ ~(Gone(t) /\ Settled(t))' => Grows(t) /\ cause[t] <= disturbed'[t]
  <1>1. /\ disturbed[t] \in Calm .. Raced /\ cause[t] \in Calm .. Raced
        /\ Overlap(t)' \in Calm .. Raced
    BY OverlapType DEF TypeOK
  <1>2. Overlap(t) \in Calm .. Raced  BY DEF Overlap, Calm, Uneven, Raced
  <1>3. CASE (Gone(t) /\ Settled(t))'
    <2>1. disturbed'[t] = Calm  BY <1>3 DEF Observe
    <2>2. QED  BY <1>3, <2>1, OverlapOfSettled DEF Calm
  <1>4. CASE ~(Gone(t) /\ Settled(t))'
    <2>1. disturbed'[t] = Larger(disturbed[t], Larger(Overlap(t)', cause[t]))
      BY <1>4 DEF Observe
    <2>2. /\ disturbed'[t] \in Calm .. Raced
          /\ disturbed[t] <= disturbed'[t]
          /\ Overlap(t)' <= disturbed'[t]
          /\ cause[t] <= disturbed'[t]
      BY <1>1, <2>1 DEF Larger, Calm, Raced
    <2>3. Overlap(t) <= disturbed[t]  BY DEF OverlapIsSeen
    <2>4. disturbed'[t] < Raced => Clear(t) /\ Clear(t)'
      BY <1>1, <1>2, <2>2, <2>3, OverlapLevels, OverlapLevelsNext DEF Calm, Raced
    <2>5. disturbed'[t] = Calm => Alone(t) /\ Alone(t)'
      BY <1>1, <1>2, <2>2, <2>3, OverlapLevels, OverlapLevelsNext DEF Calm, Raced
    <2>6. QED  BY <1>1, <1>4, <2>2, <2>4, <2>5 DEF Grows
  <1>5. QED  BY <1>3, <1>4

\* Of a thread that is gone and settled nothing is left to be wrong.
LEMMA GoneInv ==
    ASSUME NEW t \in Threads, (Gone(t) /\ Settled(t))', HandlersMatch'
    PROVE  ThreadInv(t)'
  <1>1. ~Has(t)' /\ messages'[t] = 0  BY DEF Gone, Has
  <1>2. OnThread(t)' = {} /\ Deleting(t)' = {}  BY DEF Settled
  <1>3. \A r \in Requests : ~Deletes(r, t[2])' /\ ~Emptied(r, t)'
    BY <1>2 DEF Deleting, Concerns, Deletes, Emptied, IsDelete, HandlersMatch
  <1>4. \A r \in Requests : WipeIsExact(r, t)'
    BY <1>1, <1>2 DEF WipeIsExact, Wiped, Deleting, Concerns, AccountThreads, Has
  <1>5. QED
    BY <1>1, <1>2, <1>3, <1>4
    DEF ThreadInv, HandlerInv, OrphanIsKnown, CountIsBacked, TurnIsBacked,
        DeleteIsExact, PurgeIsExact, Orphan, Has

-----------------------------------------------------------------------------
(* While t is clear: who can be at work beside whom. *)

LEMMA NoTurnBesideCleaner ==
    ASSUME NEW t \in Threads, NEW q \in Requests, NEW r \in Requests
    PROVE  /\ Clear(t) /\ q \in OnThread(t) => ~Concerns(req[r], t, req[q].account)
           /\ (Clear(t) /\ q \in OnThread(t) => ~Concerns(req[r], t, req[q].account))'
  BY DEF Clear, OnThread, Spoils

LEMMA OneCleaner ==
    ASSUME NEW t \in Threads, NEW q \in Requests, NEW r \in Requests, q # r
    PROVE  /\ Clear(t) /\ Concerns(req[q], t, NoAccount) => ~Concerns(req[r], t, NoAccount)
           /\ (Clear(t) /\ Concerns(req[q], t, NoAccount) =>
                 ~Concerns(req[r], t, NoAccount))'
  BY DEF Clear, Deleting, Spoils

LEMMA OneCleanerOfSession ==
    ASSUME NEW t \in Threads, NEW q \in Requests, NEW r \in Requests, q # r,
           NEW u \in Threads, u[2] = t[2]
    PROVE  /\ Clear(t) /\ Concerns(req[q], u, NoAccount) => ~Deletes(r, t[2])
           /\ (Clear(t) /\ Concerns(req[q], u, NoAccount) => ~Deletes(r, t[2]))'
  BY DEF Clear, Deleting, Spoils, Deletes, Concerns

LEMMA NoTurnInSession ==
    ASSUME NEW t \in Threads, NEW q \in Requests, NEW r \in Requests,
           Clear(t), IsTurn(req[q]), req[q].thread \in Threads, req[q].thread[2] = t[2]
    PROVE  ~Deletes(r, t[2])
  BY DEF Clear, Spoils, Deletes, Concerns

\* What a handler still has to do to t concerns t.
LEMMA CleanerConcerns ==
    ASSUME NEW t \in Threads, NEW r \in Requests, NEW a
    PROVE  /\ Purging(r, t) => Concerns(req[r], t, a)
           /\ HandlersMatch /\ (Emptied(r, t) \/ Wiped(r, t)) => Concerns(req[r], t, a)
  BY DEF Purging, Emptied, Wiped, Concerns, HandlersMatch, IsDelete

-----------------------------------------------------------------------------
(* What a step must leave alone for the handler in slot q. *)

LEMMA SameSlot ==
    ASSUME NEW q \in Requests, req'[q] = req[q], NEW t \in Threads
    PROVE  /\ Purging(q, t)' <=> Purging(q, t)
           /\ Wiped(q, t)' <=> Wiped(q, t)
           /\ Emptied(q, t)' <=> Emptied(q, t)
           /\ Deletes(q, t[2])' <=> Deletes(q, t[2])
           /\ q \in OnThread(t)' <=> q \in OnThread(t)
  BY DEF Purging, Wiped, Emptied, Deletes, OnThread

LEMMA SlotKept ==
    ASSUME NEW t \in Threads, ThreadInv(t), Grows(t),
           messages[t] \in Nat, messages'[t] \in Nat,
           NEW q \in Requests, req'[q] = req[q],
           q \in OnThread(t) /\ disturbed'[t] < PurgeCut /\ Has(t) => Has(t)',
           q \in OnThread(t) /\ disturbed'[t] = Calm => messages'[t] = messages[t],
           Deletes(q, t[2]) /\ disturbed'[t] < Raced => DeletedRecords(q)' = DeletedRecords(q),
           req[q].pc = "wipe" /\ disturbed'[t] < Raced =>
              (t \in AccountThreads(req[q].account)' <=> t \in AccountThreads(req[q].account)),
           (Emptied(q, t) \/ Wiped(q, t)) /\ disturbed'[t] < Raced =>
              messages'[t] \in {0, messages[t]},
           Purging(q, t) /\ disturbed'[t] < Raced /\ Has(t)' => Has(t)
    PROVE  HandlerInv(q, t)'
  <1>1. /\ disturbed[t] <= disturbed'[t]
        /\ disturbed[t] \in Calm .. Raced /\ disturbed'[t] \in Calm .. Raced
    BY DEF Grows
  <1>2. disturbed'[t] < Raced => disturbed[t] < Raced  BY <1>1 DEF Calm, Raced
  <1>3. disturbed'[t] = Calm => disturbed[t] = Calm  BY <1>1 DEF Calm, Raced
  <1>4. disturbed[t] >= PurgeCut => disturbed'[t] >= PurgeCut  BY <1>1 DEF Calm, Raced, PurgeCut
  <1>5. disturbed'[t] >= PurgeCut \/ disturbed'[t] < PurgeCut
    BY <1>1 DEF Calm, Raced, PurgeCut
  <1>6. HandlerInv(q, t)  BY DEF ThreadInv
  <1>7. TurnIsBacked(q, t)'
    BY <1>3, <1>4, <1>5, <1>6, SameSlot DEF HandlerInv, TurnIsBacked
  <1>8. DeleteIsExact(q, t)'
    BY <1>2, <1>6, SameSlot DEF HandlerInv, DeleteIsExact
  <1>9. WipeIsExact(q, t)'
    BY <1>2, <1>6, SameSlot DEF HandlerInv, WipeIsExact
  <1>10. PurgeIsExact(q, t)'
    BY <1>2, <1>6, SameSlot DEF HandlerInv, PurgeIsExact
  <1>11. QED  BY <1>7, <1>8, <1>9, <1>10 DEF HandlerInv

-----------------------------------------------------------------------------
(* A deletion finds the same record as long as nobody writes in its session. *)

LEMMA LookupKept ==
    ASSUME RecordsMatch, RecordsMatch', NEW q \in Requests, NEW t \in Threads,
           req'[q].browser = req[q].browser, req'[q].account = req[q].account,
           req'[q].session = t[2], req[q].session = t[2],
           \A u \in Threads : u[2] = t[2] => records'[u] = records[u],
           \A u, v \in Threads :
              u[2] = t[2] /\ v[2] = t[2] => (u \in older'[v] <=> u \in older[v])
    PROVE  DeletedRecords(q)' = DeletedRecords(q)
  <1> DEFINE b == req[q].browser
             a == req[q].account
             s == t[2]
             C == Accessible(b, a, s)
             D == {u \in Threads :
                      /\ records'[u] # NoRecord
                      /\ records'[u].session = s
                      /\ \/ records'[u].browser = b
                         \/ a # NoAccount /\ records'[u].account = a}
  <1>1. DeletedRecords(q) = {u \in C : C \subseteq older[u] \cup {u}}
    BY DEF DeletedRecords, FindAccessible
  <1>2. DeletedRecords(q)' = {u \in D : D \subseteq older'[u] \cup {u}}
    BY DEF DeletedRecords, FindAccessible, Accessible, Has
  <1>3. \A u \in C : u \in Threads /\ u[2] = s
    BY DEF Accessible, RecordsMatch
  <1>4. \A u \in D : u \in Threads /\ u[2] = s
    BY DEF RecordsMatch, Has
  <1>5. C = D
    <2>1. \A u \in Threads : u[2] = s => (u \in C <=> u \in D)
      BY DEF Accessible, Has
    <2>2. QED  BY <1>3, <1>4, <2>1
  <1>6. \A u \in C : C \subseteq older[u] \cup {u} <=> C \subseteq older'[u] \cup {u}
    BY <1>3
  <1> HIDE DEF C, D
  <1>7. QED  BY <1>1, <1>2, <1>5, <1>6

\* Touching threads of other sessions leaves the order within a session alone.
LEMMA TouchKeepsOrder ==
    ASSUME RegistryTypeOK, NEW Z, Touch(Z), NEW u \in Threads, NEW v \in Threads,
           u \notin Z, v \notin Z
    PROVE  u \in older'[v] <=> u \in older[v]
  BY DEF Touch, RegistryTypeOK

LEMMA TouchOrdered ==
    ASSUME WritesAreOrdered, NEW Z, Touch(Z)
    PROVE  WritesAreOrdered'
  <1> SUFFICES ASSUME NEW t \in Threads, NEW u \in Threads, t # u,
                      u \in older'[t], t \in older'[u]
               PROVE  FALSE
    BY DEF WritesAreOrdered
  <1>1. ~(u \in older[t] /\ t \in older[u])  BY DEF WritesAreOrdered
  <1>2. QED  BY <1>1 DEF Touch

\* The latest record of a session is unique.
LEMMA FoundIsUnique ==
    ASSUME WritesAreOrdered, NEW b, NEW a, NEW s, NEW t \in FindAccessible(b, a, s)
    PROVE  FindAccessible(b, a, s) = {t}
  <1>1. ASSUME NEW u \in FindAccessible(b, a, s)
        PROVE  u = t
    <2>1. u \in Threads /\ t \in Threads  BY DEF FindAccessible, Accessible
    <2>2. u \in older[t] \cup {t} /\ t \in older[u] \cup {u}  BY DEF FindAccessible
    <2>3. QED  BY <2>1, <2>2 DEF WritesAreOrdered
  <1>2. QED  BY <1>1

-----------------------------------------------------------------------------
(* The steps, by what they do to a thread t that is not gone after them. *)

LEMMA StoreTypes ==
    ASSUME StoreInv
    PROVE  /\ TypeOK /\ RecordsMatch /\ TurnsMatch /\ RegistryTypeOK
           /\ \A t \in Threads : ThreadInv(t)
           /\ \A t \in Threads : messages[t] \in Nat
           /\ \A t \in Threads : Has(t) => records[t] \in Record /\ records[t].count \in Nat
  BY MaxMessagesAssumption, TypeOKRegistry, RecordType
  DEF StoreInv, IdentityInv, TypeOK, Record

\* Handler r goes on, and both stores stay as they are: what is left to check is
\* what r holds now, and that it has not dropped what it still had to clean up.
LEMMA HandlerStep ==
    ASSUME StoreInv, NEW t \in Threads, Grows(t),
           UNCHANGED <<records, older, messages>>,
           NEW r \in Requests, \A q \in Requests \ {r} : req'[q] = req[q],
           Purging(r, t) => disturbed'[t] >= PurgeCut,
           Emptied(r, t) \/ Wiped(r, t) => disturbed'[t] # Calm,
           HandlerInv(r, t)'
    PROVE  ThreadInv(t)'
  <1>1. ThreadInv(t) /\ messages[t] \in Nat /\ messages'[t] \in Nat /\ RecordsMatch
    BY StoreTypes
  <1>2. RecordsMatch'  BY <1>1 DEF RecordsMatch, Has
  <1>3. Has(t)' <=> Has(t)  BY DEF Has
  <1>4. ASSUME NEW q \in Requests, q # r
        PROVE  HandlerInv(q, t)'
    <2>1. req'[q] = req[q]  BY <1>4
    <2>2. Deletes(q, t[2]) => DeletedRecords(q)' = DeletedRecords(q)
      BY <1>1, <1>2, <2>1, LookupKept DEF Deletes
    <2>3. t \in AccountThreads(req[q].account)' <=> t \in AccountThreads(req[q].account)
      BY <2>1 DEF AccountThreads, Has
    <2>4. QED  BY <1>1, <1>3, <2>1, <2>2, <2>3, SlotKept
  <1>5. OrphanIsKnown(t)'
    <2>1. Orphan(t)' <=> Orphan(t)  BY <1>3 DEF Orphan
    <2>2. \A q \in Requests : Purging(q, t) => Purging(q, t)' \/ disturbed'[t] >= PurgeCut
      BY SameSlot
    <2>3. disturbed[t] >= PurgeCut => disturbed'[t] >= PurgeCut
      BY DEF Grows, Calm, Raced, PurgeCut
    <2>4. QED  BY <1>1, <2>1, <2>2, <2>3 DEF ThreadInv, OrphanIsKnown
  <1>6. CountIsBacked(t)'
    <2>1. \A q \in Requests : Emptied(q, t) \/ Wiped(q, t) =>
             Emptied(q, t)' \/ Wiped(q, t)' \/ disturbed'[t] # Calm
      BY SameSlot
    <2>2. disturbed'[t] = Calm => disturbed[t] = Calm
      BY DEF Grows, Calm, Raced
    <2>3. QED  BY <1>1, <1>3, <2>1, <2>2 DEF ThreadInv, CountIsBacked
  <1>7. QED  BY <1>4, <1>5, <1>6, HandlerInv(r, t)' DEF ThreadInv

\* A turn on u saves n messages, no fewer than there were unless u was disturbed.
LEMMA SaveKeeps ==
    ASSUME StoreInv, NEW t \in Threads, Grows(t),
           UNCHANGED <<records, older>>,
           NEW r \in Requests, \A q \in Requests \ {r} : req'[q] = req[q],
           IsTurn(req[r]), req[r].pc \in {"ready", "running"},
           NEW u \in Threads, req[r].thread = u, NEW n \in 0 .. MaxMessages,
           messages' = [messages EXCEPT ![u] = n],
           req'[r].pc = "running", req'[r].thread = u, req'[r].seen = n,
           disturbed[u] = Calm => messages[u] <= n
    PROVE  ThreadInv(t)'
  <1>1. ThreadInv(t) /\ RecordsMatch /\ messages[t] \in Nat  BY StoreTypes
  <1>2. RecordsMatch'  BY <1>1 DEF RecordsMatch, Has
  <1>3. Has(t)' <=> Has(t)  BY DEF Has
  <1>4. n \in Nat /\ messages'[t] = IF t = u THEN n ELSE messages[t]
    BY StoreTypes, MaxMessagesAssumption DEF TypeOK
  <1>5. messages'[t] \in Nat  BY <1>1, <1>4
  <1>6. r \in OnThread(t) <=> t = u  BY DEF OnThread
  <1>7. r \in OnThread(t)' <=> t = u  BY DEF OnThread, IsTurn, TurnSteps
  <1>8. /\ disturbed[t] >= PurgeCut => disturbed'[t] >= PurgeCut
        /\ disturbed'[t] < PurgeCut => disturbed'[t] < Raced
        /\ disturbed'[t] = Calm => disturbed[t] = Calm /\ disturbed'[t] < Raced
        /\ disturbed'[t] >= PurgeCut \/ disturbed'[t] < PurgeCut
    BY DEF Grows, Calm, Raced, PurgeCut
  <1>9. HandlerInv(r, t) /\ HandlersMatch  BY <1>1 DEF ThreadInv, StoreInv
  <1>10. /\ ~Purging(r, t) /\ ~Emptied(r, t) /\ ~Wiped(r, t)
         /\ ~Purging(r, t)' /\ ~Emptied(r, t)' /\ ~Wiped(r, t)' /\ ~Deletes(r, t[2])'
         /\ req'[r].pc # "wipe"
    BY DEF Purging, Emptied, Wiped, Deletes, IsDelete
  <1>11. t = u /\ disturbed'[t] < PurgeCut => Has(t)
    <2>1. t = u => (Has(t) \/ disturbed[t] >= PurgeCut)
      BY <1>6, <1>9 DEF HandlerInv, TurnIsBacked
    <2>2. QED  BY <1>8, <2>1 DEF Grows, Calm, Raced, PurgeCut
  <1>12. HandlerInv(r, t)'
    BY <1>3, <1>4, <1>7, <1>8, <1>10, <1>11
    DEF HandlerInv, TurnIsBacked, DeleteIsExact, WipeIsExact, PurgeIsExact
  <1>13. ASSUME NEW q \in Requests, q # r
         PROVE  HandlerInv(q, t)'
    <2>1. req'[q] = req[q]  BY <1>13
    <2>2. Deletes(q, t[2]) => DeletedRecords(q)' = DeletedRecords(q)
      BY <1>1, <1>2, <2>1, LookupKept DEF Deletes
    <2>3. t \in AccountThreads(req[q].account)' <=> t \in AccountThreads(req[q].account)
      BY <2>1 DEF AccountThreads, Has
    <2>4. q \in OnThread(t) /\ disturbed'[t] = Calm => t # u
      BY <1>6, <1>13 DEF Grows, Alone
    <2>5. (Emptied(q, t) \/ Wiped(q, t)) /\ disturbed'[t] < Raced => t # u
      BY <1>6, <1>9, NoTurnBesideCleaner, CleanerConcerns DEF Grows
    <2>6. QED  BY <1>1, <1>3, <1>4, <1>5, <2>1, <2>2, <2>3, <2>4, <2>5, SlotKept
  <1>14. OrphanIsKnown(t)'
    <2>1. \A q \in Requests : Purging(q, t) => Purging(q, t)'  BY <1>10, SameSlot
    <2>2. disturbed'[t] < PurgeCut /\ Orphan(t)' => Orphan(t)
      BY <1>3, <1>4, <1>11 DEF Orphan
    <2>3. QED  BY <1>1, <1>8, <2>1, <2>2 DEF ThreadInv, OrphanIsKnown
  <1>15. CountIsBacked(t)'
    <2>1. \A q \in Requests : Emptied(q, t) \/ Wiped(q, t) => Emptied(q, t)' \/ Wiped(q, t)'
      BY <1>10, SameSlot
    <2>2. disturbed'[t] = Calm => messages[t] <= messages'[t]
      BY <1>1, <1>4, <1>8
    <2>3. Has(t) => records[t].count \in Nat  BY StoreTypes
    <2>4. disturbed'[t] = Calm /\ records[t].count <= messages[t] /\ Has(t)
             => records[t].count <= messages'[t]
      BY <1>1, <1>5, <2>2, <2>3
    <2>5. QED  BY <1>1, <1>3, <1>8, <2>1, <2>4 DEF ThreadInv, CountIsBacked
  <1>16. QED  BY <1>12, <1>13, <1>14, <1>15 DEF ThreadInv

\* A slot that is idle, or runs a turn, deletes nothing.
LEMMA NoCleaner ==
    ASSUME NEW t \in Threads, NEW r \in Requests
    PROVE  /\ req[r] = Idle \/ IsTurn(req[r]) =>
                 /\ ~Purging(r, t) /\ ~Emptied(r, t) /\ ~Wiped(r, t)
                 /\ ~Deletes(r, t[2]) /\ req[r].pc # "wipe"
           /\ req[r] = Idle => r \notin OnThread(t)
           /\ (/\ req[r] = Idle \/ IsTurn(req[r]) =>
                     /\ ~Purging(r, t) /\ ~Emptied(r, t) /\ ~Wiped(r, t)
                     /\ ~Deletes(r, t[2]) /\ req[r].pc # "wipe"
               /\ req[r] = Idle => r \notin OnThread(t))'
  BY DEF Purging, Emptied, Wiped, Deletes, IsDelete, IsTurn, TurnSteps, Idle, OnThread

\* The handler of a turn that satisfies its own part, or of an idle slot.
LEMMA TurnHandler ==
    ASSUME NEW t \in Threads, NEW r \in Requests,
           req'[r] = Idle \/ (IsTurn(req[r])' /\ TurnIsBacked(r, t)')
    PROVE  HandlerInv(r, t)'
  <1>1. TurnIsBacked(r, t)'  BY NoCleaner DEF TurnIsBacked
  <1>2. QED
    BY <1>1, NoCleaner DEF HandlerInv, DeleteIsExact, WipeIsExact, PurgeIsExact

LEMMA Levels ==
    ASSUME NEW t \in Threads, Grows(t)
    PROVE  /\ disturbed[t] >= PurgeCut => disturbed'[t] >= PurgeCut
           /\ disturbed'[t] < PurgeCut => disturbed'[t] < Raced /\ disturbed[t] < Raced
           /\ disturbed'[t] < Raced => disturbed[t] < Raced
           /\ disturbed'[t] = Calm => /\ disturbed[t] = Calm
                                      /\ disturbed[t] < Raced /\ disturbed'[t] < Raced
           /\ disturbed'[t] >= PurgeCut <=> ~(disturbed'[t] < PurgeCut)
           /\ disturbed[t] >= PurgeCut <=> ~(disturbed[t] < PurgeCut)
  BY DEF Grows, Calm, Raced, PurgeCut

LEMMA Others ==
    ASSUME TypeOK, NEW r \in Requests, NEW h, Become(r, h)
    PROVE  req'[r] = h /\ \A q \in Requests \ {r} : req'[q] = req[q]
  BY DEF TypeOK, Become

LEMMA StartTurnKeeps ==
    ASSUME StoreInv, NEW t \in Threads, Grows(t), NEW r \in Requests,
           NEW b \in Browsers, NEW a \in Owners, NEW s \in SessionIds, NEW k \in Kinds,
           StartTurn(r, b, a, s, k)
    PROVE  ThreadInv(t)'
  <1> DEFINE h(u) == [pc |-> IF k = "resume" THEN "checking" ELSE "resolved",
                      kind |-> k, account |-> a, session |-> s, thread |-> u,
                      owner |-> TurnOwner(u, b), seen |-> KnownCount(u)]
  <1>1. PICK u \in Resolve(b, a, s) : Become(r, h(u))  BY DEF StartTurn
  <1>2. u \in Threads  BY ResolveType
  <1>3. req'[r] = h(u) /\ \A q \in Requests \ {r} : req'[q] = req[q]
    BY <1>1, StoreTypes, Others
  <1>4. /\ req'[r].pc \in {"checking", "resolved"} /\ IsTurn(req[r])'
        /\ req'[r].thread = u /\ req'[r].seen = KnownCount(u)
    BY <1>3 DEF IsTurn, TurnSteps
  <1> HIDE DEF h
  <1>5. ~Purging(r, t) /\ ~Emptied(r, t) /\ ~Wiped(r, t)
    BY NoCleaner DEF StartTurn
  <1>6. UNCHANGED <<records, older, messages>>  BY DEF StartTurn
  <1>7. ASSUME t = u, disturbed'[t] = Calm
        PROVE  KnownCount(u) <= messages[u]
    <2>1. CASE ~Has(t)  BY <1>7, <2>1, StoreTypes DEF KnownCount
    <2>2. CASE Has(t)
      <3>1. disturbed[t] = Calm /\ Clear(t)'
        BY <1>7, Levels DEF Grows
      <3>2. ASSUME NEW q \in Requests, Emptied(q, t) \/ Wiped(q, t)
            PROVE  FALSE
        <4>1. q # r  BY <1>5, <3>2
        <4>2. Emptied(q, t)' \/ Wiped(q, t)'  BY <1>3, <3>2, <4>1, SameSlot
        <4>3. IsDelete(req[q]) => req[q].session = t[2] \/ ~Emptied(q, t)
          BY DEF StoreInv, HandlersMatch, Emptied
        <4>4. \A x : Concerns(req[q], t, x)'
          BY <1>3, <3>2, <4>1, <4>2, <4>3 DEF Concerns, Emptied, Wiped, IsDelete
        <4>5. r \in OnThread(t)'  BY <1>4, <1>7 DEF OnThread
        <4>6. QED  BY <3>1, <4>4, <4>5, NoTurnBesideCleaner
      <3>3. QED
        BY <1>7, <2>2, <3>1, <3>2, StoreTypes DEF ThreadInv, CountIsBacked, KnownCount
    <2>3. QED  BY <2>1, <2>2
  <1>8. TurnIsBacked(r, t)'
    BY <1>4, <1>6, <1>7 DEF TurnIsBacked, OnThread
  <1>9. HandlerInv(r, t)'  BY <1>4, <1>8, TurnHandler
  <1>10. QED  BY <1>3, <1>5, <1>6, <1>9, HandlerStep

LEMMA CheckResumeKeeps ==
    ASSUME StoreInv, NEW t \in Threads, Grows(t), NEW r \in Requests, CheckResume(r)
    PROVE  ThreadInv(t)'
  <1> DEFINE u == req[r].thread
             h == IF messages[u] = 0 THEN Idle ELSE [req[r] EXCEPT !.pc = "ready"]
  <1>1. req[r].pc = "checking" /\ IsTurn(req[r])  BY DEF CheckResume, IsTurn, TurnSteps
  <1>2. req[r] \in Turn /\ u \in Threads
    BY <1>1, StoreTypes, HandlerByPc DEF TypeOK, IsTurn, Turn
  <1>3. req'[r] = h /\ \A q \in Requests \ {r} : req'[q] = req[q]
    BY StoreTypes, Others DEF CheckResume
  <1>4. UNCHANGED <<records, older, messages>>  BY DEF CheckResume
  <1>5. ~Purging(r, t) /\ ~Emptied(r, t) /\ ~Wiped(r, t)  BY <1>1, NoCleaner
  <1>6. CASE messages[u] = 0
    <2>1. req'[r] = Idle  BY <1>3, <1>6
    <2>2. QED  BY <1>3, <1>4, <1>5, <2>1, TurnHandler, HandlerStep
  <1>7. CASE messages[u] # 0
    <2>1. /\ req'[r].pc = "ready" /\ req'[r].thread = u /\ req'[r].seen = req[r].seen
          /\ IsTurn(req[r])'
      BY <1>2, <1>3, <1>7 DEF Turn, IsTurn, TurnSteps
    <2>2. r \in OnThread(u) /\ HandlerInv(r, u) /\ OrphanIsKnown(u)
      BY <1>1, <1>2, StoreTypes DEF OnThread, ThreadInv
    <2>3. t = u => Has(t) \/ disturbed'[t] >= PurgeCut
      <3> SUFFICES ASSUME t = u, ~Has(t), disturbed'[t] < PurgeCut
                   PROVE  FALSE
        BY Levels
      <3>1. disturbed'[t] < Raced /\ Clear(t) /\ ~(disturbed[t] >= PurgeCut)
        BY Levels DEF Grows
      <3>2. Orphan(t)
        <4>1. messages[t] \in Nat  BY StoreTypes
        <4>2. QED  BY <1>7, <4>1 DEF Orphan
      <3>3. PICK q \in Requests : Purging(q, t)
        BY <2>2, <3>1, <3>2 DEF OrphanIsKnown
      <3>4. QED  BY <2>2, <3>1, <3>3, CleanerConcerns, NoTurnBesideCleaner
    <2>4. t = u /\ disturbed'[t] = Calm => req[r].seen <= messages[t]
      BY <2>2, Levels DEF HandlerInv, TurnIsBacked
    <2>5. TurnIsBacked(r, t)'
      <3>1. Has(t)' <=> Has(t)  BY <1>4 DEF Has
      <3>2. QED  BY <1>4, <2>1, <2>3, <2>4, <3>1 DEF TurnIsBacked, OnThread
    <2>6. QED  BY <1>3, <1>4, <1>5, <2>1, <2>5, TurnHandler, HandlerStep
  <1>8. QED  BY <1>6, <1>7

LEMMA AnswerKeeps ==
    ASSUME StoreInv, NEW t \in Threads, Grows(t), NEW r \in Requests, Answer(r)
    PROVE  ThreadInv(t)'
  <1> DEFINE u == req[r].thread
             n == IF req[r].kind = "stream" THEN messages[u] ELSE req[r].seen
  <1>1. req[r].pc \in {"ready", "running"} /\ IsTurn(req[r])
    BY DEF Answer, IsTurn, TurnSteps
  <1>2. req[r] \in Turn /\ u \in Threads
    BY <1>1, StoreTypes, HandlerByPc DEF TypeOK, IsTurn, Turn
  <1>3. /\ req'[r] = [req[r] EXCEPT !.pc = "answered", !.seen = n]
        /\ \A q \in Requests \ {r} : req'[q] = req[q]
    BY StoreTypes, Others DEF Answer
  <1>4. UNCHANGED <<records, older, messages>>  BY DEF Answer
  <1>5. ~Purging(r, t) /\ ~Emptied(r, t) /\ ~Wiped(r, t)  BY <1>1, NoCleaner
  <1>6. /\ req'[r].pc = "answered" /\ req'[r].thread = u /\ req'[r].seen = n
        /\ IsTurn(req[r])'
    BY <1>2, <1>3 DEF Turn, IsTurn, TurnSteps
  <1>7. r \in OnThread(u) /\ HandlerInv(r, u) /\ messages[u] \in Nat
    BY <1>1, <1>2, StoreTypes DEF OnThread, ThreadInv
  <1>8. t = u => Has(t) \/ disturbed'[t] >= PurgeCut
    BY <1>1, <1>7, Levels DEF HandlerInv, TurnIsBacked
  <1>9. t = u /\ disturbed'[t] = Calm => n <= messages[t]
    BY <1>7, Levels DEF HandlerInv, TurnIsBacked
  <1> HIDE DEF n
  <1>10. TurnIsBacked(r, t)'
    <2>1. Has(t)' <=> Has(t)  BY <1>4 DEF Has
    <2>2. QED  BY <1>4, <1>6, <1>8, <1>9, <2>1 DEF TurnIsBacked, OnThread
  <1>11. QED  BY <1>3, <1>4, <1>5, <1>6, <1>10, TurnHandler, HandlerStep

LEMMA SaveStepKeeps ==
    ASSUME StoreInv, NEW t \in Threads, Grows(t), NEW r \in Requests,
           LoadGraph(r) \/ SaveStep(r)
    PROVE  ThreadInv(t)'
  <1> DEFINE u == req[r].thread
  <1>1. req[r].pc \in {"ready", "running"} /\ IsTurn(req[r])
    BY DEF LoadGraph, SaveStep, IsTurn, TurnSteps
  <1>2. req[r] \in Turn /\ u \in Threads /\ req[r].seen \in Nat
    BY <1>1, StoreTypes, HandlerByPc DEF TypeOK, IsTurn, Turn
  <1>3. r \in OnThread(u) /\ HandlerInv(r, u) /\ messages[u] \in Nat
    BY <1>1, <1>2, StoreTypes DEF OnThread, ThreadInv
  <1>4. UNCHANGED <<records, older>>  BY DEF LoadGraph, SaveStep
  <1>5. PICK n \in 0 .. MaxMessages :
          /\ messages' = [messages EXCEPT ![u] = n]
          /\ Become(r, [req[r] EXCEPT !.pc = "running", !.seen = n])
          /\ disturbed[u] = Calm => messages[u] <= n
    <2>1. CASE LoadGraph(r)
      <3> DEFINE n == IF req[r].kind = "resume" THEN messages[u] ELSE messages[u] + 1
      <3>1. /\ n \in 1 .. MaxMessages
            /\ messages' = [messages EXCEPT ![u] = n]
            /\ Become(r, [req[r] EXCEPT !.pc = "running", !.seen = n])
        BY <2>1 DEF LoadGraph
      <3>2. messages[u] <= n  BY <1>3
      <3>3. n \in 0 .. MaxMessages  BY <3>1, MaxMessagesAssumption
      <3>4. QED  BY <3>1, <3>2, <3>3
    <2>2. CASE SaveStep(r)
      <3>1. [req[r] EXCEPT !.seen = req[r].seen + 1]
              = [req[r] EXCEPT !.pc = "running", !.seen = req[r].seen + 1]
        BY <1>2, <2>2 DEF SaveStep, Turn
      <3>2. disturbed[u] = Calm => messages[u] <= req[r].seen + 1
        BY <1>2, <1>3, <2>2 DEF SaveStep, HandlerInv, TurnIsBacked
      <3>3. req[r].seen + 1 \in 0 .. MaxMessages
        BY <1>2, <2>2, MaxMessagesAssumption DEF SaveStep
      <3>4. QED  BY <2>2, <3>1, <3>2, <3>3 DEF SaveStep
    <2>3. QED  BY <2>1, <2>2
  <1>6. /\ req'[r] = [req[r] EXCEPT !.pc = "running", !.seen = n]
        /\ \A q \in Requests \ {r} : req'[q] = req[q]
    BY <1>5, StoreTypes, Others
  <1>7. req'[r].pc = "running" /\ req'[r].thread = u /\ req'[r].seen = n
    BY <1>2, <1>6 DEF Turn
  <1>8. QED  BY <1>1, <1>2, <1>4, <1>5, <1>6, <1>7, SaveKeeps

\* The turn in slot r writes its thread's record, with what it has seen.
LEMMA RegisterKeeps ==
    ASSUME StoreInv, NEW t \in Threads, Grows(t), NEW r \in Requests,
           RegisterFirst(r) \/ RegisterFinal(r)
    PROVE  ThreadInv(t)'
  <1> DEFINE u == req[r].thread
             a == req[r].account
             n == req[r].seen
  <1>1. req[r].pc \in TurnSteps /\ IsTurn(req[r])
    BY DEF RegisterFirst, RegisterFinal, IsTurn, TurnSteps
  <1>2. req[r] \in Turn /\ u \in Threads /\ n \in Nat /\ a \in Owners
    BY <1>1, StoreTypes, HandlerByPc DEF TypeOK, Turn
  <1>3. RegisterFor(r) /\ messages' = messages  BY DEF RegisterFirst, RegisterFinal
  <1>4. \A q \in Requests \ {r} : req'[q] = req[q]
    BY StoreTypes, Others DEF RegisterFirst, RegisterFinal
  <1>5. \/ req'[r] = Idle
        \/ /\ req'[r].pc = "ready" /\ IsTurn(req[r])' /\ req'[r].thread = u
           /\ req'[r].seen = n
    <2>1. CASE RegisterFirst(r)
      <3>1. req'[r] = [req[r] EXCEPT !.pc = "ready"]
        BY <2>1, StoreTypes, Others DEF RegisterFirst
      <3>2. QED  BY <1>2, <3>1 DEF Turn, IsTurn, TurnSteps
    <2>2. CASE RegisterFinal(r)
      BY <2>2, StoreTypes, Others DEF RegisterFinal
    <2>3. QED  BY <2>1, <2>2
  <1>6. RecordsMatch /\ RecordsMatch' /\ RegistryTypeOK
    BY <1>1, <1>3, StoreTypes, RegisterMatches DEF StoreInv
  <1>7. Touch({u})  BY <1>3 DEF RegisterFor, RegisterTurn
  <1>8. /\ records' \in [Threads -> Record \cup {NoRecord}]
        /\ \A v \in Threads : v # u => records'[v] = records[v]
    <2>1. req[r].owner \in Browsers /\ req[r].session \in SessionIds  BY <1>2 DEF Turn
    <2>2. RegistryTypeOK'
      BY <1>2, <1>3, <1>6, <2>1, RegisterTurnType DEF RegisterFor
    <2>3. QED
      BY <1>2, <1>3, <1>6, <2>2 DEF RegisterFor, RegisterTurn, RegistryTypeOK
  <1>9. /\ records'[u] # NoRecord
        /\ records'[u].account = IF Has(u) THEN MergedAccount(records[u].account, a) ELSE a
        /\ records'[u].count = IF Has(u) THEN Larger(records[u].count, n) ELSE n
    <2>1. records'[u] = IF Has(u) THEN UpdatedRecord(records[u], a, n)
                        ELSE NewRecord(req[r].owner, a, req[r].session, n)
      BY <1>2, <1>3, <1>6 DEF RegisterFor, RegisterTurn, RegistryTypeOK
    <2>2. CASE Has(u)
      <3>1. records[u] \in Record  BY <1>2, <2>2, StoreTypes
      <3>2. /\ UpdatedRecord(records[u], a, n) \in Record
            /\ UpdatedRecord(records[u], a, n).account = MergedAccount(records[u].account, a)
            /\ UpdatedRecord(records[u], a, n).count = Larger(records[u].count, n)
        BY <1>2, <3>1 DEF UpdatedRecord, Record, MergedAccount, Larger
      <3>3. QED  BY <2>1, <2>2, <3>2, NoRecordAssumption DEF Has
    <2>3. CASE ~Has(u)
      <3> DEFINE new == NewRecord(req[r].owner, a, req[r].session, n)
      <3>1. new \in Record /\ new.account = a /\ new.count = n
        BY <1>2 DEF NewRecord, Record, Turn
      <3>2. records'[u] = new  BY <2>1, <2>3
      <3> HIDE DEF new
      <3>3. QED  BY <2>3, <3>1, <3>2, NoRecordAssumption
    <2>4. QED  BY <2>2, <2>3
  <1>10. Has(t) => Has(t)'
    BY <1>8, <1>9 DEF Has
  <1>11. t # u => (Has(t)' <=> Has(t))  BY <1>8 DEF Has
  <1>12. ThreadInv(t) /\ messages[t] \in Nat /\ messages'[t] \in Nat
    BY <1>3, StoreTypes
  <1>13. r \in OnThread(u) /\ HandlerInv(r, u) /\ CountIsBacked(u)
    BY <1>1, <1>2, StoreTypes DEF OnThread, ThreadInv
  <1>14. ASSUME t = u, disturbed'[t] = Calm
         PROVE  n <= messages[t]
    BY <1>13, <1>14, Levels DEF HandlerInv, TurnIsBacked
  <1>15. HandlerInv(r, t)'
    <2>1. ASSUME IsTurn(req[r])', req'[r] # Idle
          PROVE  TurnIsBacked(r, t)'
      <3>1. r \in OnThread(t)' => t = u  BY <1>5, <2>1 DEF OnThread
      <3>2. QED  BY <1>3, <1>5, <1>9, <1>14, <2>1, <3>1 DEF TurnIsBacked, Has
    <2>2. QED  BY <1>5, <2>1, TurnHandler
  <1>16. ASSUME NEW q \in Requests, q # r
         PROVE  HandlerInv(q, t)'
    <2>1. req'[q] = req[q]  BY <1>4, <1>16
    <2>2. ASSUME Deletes(q, t[2]), disturbed'[t] < Raced
          PROVE  DeletedRecords(q)' = DeletedRecords(q)
      <3>1. u[2] # t[2]  BY <1>1, <1>2, <2>2, NoTurnInSession DEF Grows
      <3>2. \A v, w \in Threads :
               v[2] = t[2] /\ w[2] = t[2] => (v \in older'[w] <=> v \in older[w])
        BY <1>6, <1>7, <3>1, TouchKeepsOrder
      <3>3. QED  BY <1>6, <1>8, <2>1, <2>2, <3>1, <3>2, LookupKept DEF Deletes
    <2>3. ASSUME req[q].pc = "wipe", disturbed'[t] < Raced
          PROVE  t \in AccountThreads(req[q].account)' <=> t \in AccountThreads(req[q].account)
      <3> DEFINE b == req[q].account
      <3>1. CASE t # u
        BY <1>8, <1>11, <2>1, <3>1 DEF AccountThreads
      <3>2. CASE t = u
        <4>1. ~Concerns(req[q], t, a)
          BY <1>13, <2>3, <3>2, NoTurnBesideCleaner DEF Grows
        <4>2. a # b /\ t \notin AccountThreads(b)
          BY <2>3, <4>1 DEF Concerns
        <4>3. Has(t) => records[t].account # b  BY <4>2 DEF AccountThreads
        <4>4. records'[t].account # b
          BY <1>9, <3>2, <4>2, <4>3 DEF MergedAccount
        <4>5. QED  BY <2>1, <4>2, <4>4 DEF AccountThreads
      <3>3. QED  BY <3>1, <3>2
    <2>4. Purging(q, t) /\ disturbed'[t] < Raced => t # u
      BY <1>13, CleanerConcerns, NoTurnBesideCleaner DEF Grows
    <2>5. QED
      BY <1>3, <1>10, <1>11, <1>12, <2>1, <2>2, <2>3, <2>4, SlotKept
  <1>17. OrphanIsKnown(t)'
    <2>1. \A q \in Requests : Purging(q, t) => Purging(q, t)'
      BY <1>1, <1>4, SameSlot, NoCleaner
    <2>2. Orphan(t)' => Orphan(t)  BY <1>3, <1>10 DEF Orphan
    <2>3. QED  BY <1>12, <2>1, <2>2, Levels DEF ThreadInv, OrphanIsKnown
  <1>18. CountIsBacked(t)'
    <2> SUFFICES ASSUME Has(t)', disturbed'[t] = Calm
                 PROVE  \/ records'[t].count <= messages[t]
                        \/ \E q \in Requests : Emptied(q, t)' \/ Wiped(q, t)'
      BY <1>3 DEF CountIsBacked
    <2>1. Clear(t) /\ disturbed[t] = Calm  BY Levels DEF Grows
    <2>2. CASE t # u
      <3>1. \A q \in Requests : Emptied(q, t) \/ Wiped(q, t) => Emptied(q, t)' \/ Wiped(q, t)'
        BY <1>1, <1>4, SameSlot, NoCleaner
      <3>2. QED
        BY <1>8, <1>11, <1>12, <2>1, <2>2, <3>1 DEF ThreadInv, CountIsBacked
    <2>3. CASE t = u
      <3>1. \A q \in Requests : ~Emptied(q, t) /\ ~Wiped(q, t)
        BY <1>13, <2>1, <2>3, CleanerConcerns, NoTurnBesideCleaner DEF StoreInv
      <3>2. Has(t) => records[t].count <= messages[t]
        BY <1>13, <2>1, <2>3, <3>1 DEF CountIsBacked
      <3>3. n <= messages[t]  BY <1>14, <2>3
      <3>4. QED  BY <1>9, <2>3, <3>2, <3>3 DEF Larger
    <2>4. QED  BY <2>2, <2>3
  <1>19. QED  BY <1>15, <1>16, <1>17, <1>18 DEF ThreadInv

\* A handler that cleans up u empties u's checkpoint, and knows that it did.
LEMMA EmptyKeeps ==
    ASSUME StoreInv, NEW t \in Threads, Grows(t),
           UNCHANGED <<records, older>>,
           NEW r \in Requests, \A q \in Requests \ {r} : req'[q] = req[q],
           NEW u \in Threads, messages' = [messages EXCEPT ![u] = 0],
           \A a : Concerns(req[r], u, a),
           Purging(r, t) => Purging(r, t)' \/ t = u,
           Emptied(r, t) \/ Wiped(r, t) => Emptied(r, t)' \/ Wiped(r, t)',
           t = u /\ disturbed'[t] = Calm /\ Has(t) => Emptied(r, t)' \/ Wiped(r, t)',
           HandlerInv(r, t)'
    PROVE  ThreadInv(t)'
  <1>1. ThreadInv(t) /\ RecordsMatch /\ messages[t] \in Nat  BY StoreTypes
  <1>2. RecordsMatch'  BY <1>1 DEF RecordsMatch, Has
  <1>3. Has(t)' <=> Has(t)  BY DEF Has
  <1>4. messages'[t] = IF t = u THEN 0 ELSE messages[t]
    BY StoreTypes DEF TypeOK
  <1>5. messages'[t] \in Nat /\ messages'[t] \in {0, messages[t]}  BY <1>1, <1>4
  <1>6. ASSUME NEW q \in Requests, q # r
        PROVE  HandlerInv(q, t)'
    <2>1. req'[q] = req[q]  BY <1>6
    <2>2. Deletes(q, t[2]) => DeletedRecords(q)' = DeletedRecords(q)
      BY <1>1, <1>2, <2>1, LookupKept DEF Deletes
    <2>3. t \in AccountThreads(req[q].account)' <=> t \in AccountThreads(req[q].account)
      BY <2>1 DEF AccountThreads, Has
    <2>4. q \in OnThread(t) /\ disturbed'[t] = Calm => t # u
      BY Levels, NoTurnBesideCleaner DEF Grows
    <2>5. QED  BY <1>1, <1>3, <1>4, <1>5, <2>1, <2>2, <2>3, <2>4, SlotKept
  <1>7. OrphanIsKnown(t)'
    <2>1. Orphan(t)' => Orphan(t) /\ t # u  BY <1>3, <1>4 DEF Orphan
    <2>2. t # u => \A q \in Requests : Purging(q, t) => Purging(q, t)'
      BY SameSlot
    <2>3. QED  BY <1>1, <2>1, <2>2, Levels DEF ThreadInv, OrphanIsKnown
  <1>8. CountIsBacked(t)'
    <2>1. \A q \in Requests : Emptied(q, t) \/ Wiped(q, t) => Emptied(q, t)' \/ Wiped(q, t)'
      BY SameSlot
    <2>2. t = u /\ disturbed'[t] = Calm /\ Has(t)
            => \E q \in Requests : Emptied(q, t)' \/ Wiped(q, t)'
      OBVIOUS
    <2>3. QED  BY <1>1, <1>3, <1>4, <2>1, <2>2, Levels DEF ThreadInv, CountIsBacked
  <1>9. QED  BY <1>6, <1>7, <1>8, HandlerInv(r, t)' DEF ThreadInv

\* A handler that is to clean up R, by what it holds before or after the step,
\* removes the records of R.
LEMMA RemoveKeeps ==
    ASSUME StoreInv, NEW t \in Threads, Grows(t),
           NEW R \in SUBSET Threads, RemoveRecords(R), messages' = messages,
           NEW r \in Requests, \A q \in Requests \ {r} : req'[q] = req[q],
           \/ \A u \in R : \A a : Concerns(req[r], u, a)
           \/ \A u \in R : \A a : Concerns(req[r], u, a)',
           ~Purging(r, t),
           t \in R /\ disturbed'[t] < PurgeCut => messages[t] = 0 \/ Purging(r, t)',
           disturbed'[t] = Calm /\ (Emptied(r, t) \/ Wiped(r, t)) => t \in R,
           HandlerInv(r, t)'
    PROVE  ThreadInv(t)'
  <1>1. /\ ThreadInv(t) /\ RecordsMatch /\ messages[t] \in Nat /\ messages'[t] \in Nat
        /\ IdentityInv
    BY StoreTypes DEF StoreInv
  <1>2. RecordsMatch'  BY <1>1, RemoveMatches
  <1>3. /\ \A u \in Threads : records'[u] = IF u \in R THEN NoRecord ELSE records[u]
        /\ older' = older
    BY DEF RemoveRecords
  <1>4. Has(t)' <=> Has(t) /\ t \notin R  BY <1>3 DEF Has
  <1>5. ASSUME NEW q \in Requests, q # r
        PROVE  HandlerInv(q, t)'
    <2>1. req'[q] = req[q]  BY <1>5
    <2>2. ASSUME Deletes(q, t[2]), disturbed'[t] < Raced
          PROVE  DeletedRecords(q)' = DeletedRecords(q)
      <3>1. ASSUME NEW u \in R, u[2] = t[2]
            PROVE  FALSE
        <4>1. Clear(t) /\ Clear(t)' /\ Deletes(q, t[2])'
          BY <2>1, <2>2, SameSlot DEF Grows
        <4>2. CASE Concerns(req[r], u, NoAccount)
          BY <1>5, <2>2, <3>1, <4>1, <4>2, OneCleanerOfSession
        <4>3. CASE Concerns(req[r], u, NoAccount)'
          BY <1>5, <3>1, <4>1, <4>3, OneCleanerOfSession
        <4>4. QED  BY <4>2, <4>3
      <3>2. QED  BY <1>1, <1>2, <1>3, <2>1, <2>2, <3>1, LookupKept DEF Deletes
    <2>3. ASSUME q \in OnThread(t), disturbed'[t] < Raced, t \in R
          PROVE  FALSE
      <3>1. Clear(t) /\ Clear(t)' /\ q \in OnThread(t)'
        BY <2>1, <2>3, SameSlot DEF Grows
      <3>2. QED  BY <2>3, <3>1, NoTurnBesideCleaner
    <2>4. ASSUME req[q].pc = "wipe", disturbed'[t] < Raced, t \in R
          PROVE  t \notin AccountThreads(req[q].account)
      <3>1. Clear(t) /\ Clear(t)' /\ disturbed[t] < Raced  BY <2>4, Levels DEF Grows
      <3>2. t \in req[q].targets
              => Concerns(req[q], t, NoAccount) /\ Concerns(req[q], t, NoAccount)'
        BY <2>1, <2>4 DEF Concerns
      <3>3. t \notin req[q].targets
        BY <1>5, <2>4, <3>1, <3>2, OneCleaner
      <3>4. QED  BY <1>1, <2>4, <3>1, <3>3 DEF ThreadInv, HandlerInv, WipeIsExact
    <2>5. req[q].pc = "wipe" /\ disturbed'[t] < Raced =>
             (t \in AccountThreads(req[q].account)' <=> t \in AccountThreads(req[q].account))
      BY <1>3, <1>4, <2>1, <2>4 DEF AccountThreads
    <2>6. q \in OnThread(t) /\ disturbed'[t] < PurgeCut /\ Has(t) => Has(t)'
      BY <1>4, <2>3, Levels
    <2>7. QED  BY <1>1, <1>4, <2>1, <2>2, <2>5, <2>6, SlotKept
  <1>6. OrphanIsKnown(t)'
    <2>1. \A q \in Requests : Purging(q, t) => Purging(q, t)'  BY SameSlot
    <2>2. disturbed'[t] < PurgeCut /\ Orphan(t)' => Orphan(t) \/ Purging(r, t)'
      BY <1>4 DEF Orphan
    <2>3. QED  BY <1>1, <2>1, <2>2, Levels DEF ThreadInv, OrphanIsKnown
  <1>7. CountIsBacked(t)'
    <2>1. Has(t)' /\ disturbed'[t] = Calm => ~Emptied(r, t) /\ ~Wiped(r, t)  BY <1>4
    <2>2. Has(t)' => records'[t] = records[t]  BY <1>3, <1>4
    <2>3. \A q \in Requests \ {r} :
             Emptied(q, t) \/ Wiped(q, t) => Emptied(q, t)' \/ Wiped(q, t)'
      BY SameSlot
    <2>4. QED  BY <1>1, <1>4, <2>1, <2>2, <2>3, Levels DEF ThreadInv, CountIsBacked
  <1>8. QED  BY <1>5, <1>6, <1>7, HandlerInv(r, t)' DEF ThreadInv

LEMMA ClaimKeeps ==
    ASSUME StoreInv, NEW t \in Threads, Grows(t),
           NEW b \in Browsers, NEW a \in Accounts, NEW S \in SUBSET SessionIds,
           ClaimSessions(b, a, S), UNCHANGED <<messages, req>>,
           disturbed'[t] < Raced =>
              \A u \in Claimable(b, a, S), q \in Requests : ~Spoils(req[q], u, a, t)
    PROVE  ThreadInv(t)'
  <1> DEFINE Z == Claimable(b, a, S)
  <1>1. /\ ThreadInv(t) /\ RecordsMatch /\ messages[t] \in Nat /\ messages'[t] \in Nat
        /\ IdentityInv /\ RegistryTypeOK
    BY StoreTypes DEF StoreInv
  <1>2. RecordsMatch'  BY <1>1, ClaimMatches
  <1>3. /\ \A u \in Threads \ Z : records'[u] = records[u]
        /\ Touch(Z)
    BY DEF ClaimSessions
  <1>4. ASSUME t \in Z
        PROVE  /\ Has(t) /\ records'[t] # NoRecord
               /\ records'[t].account = a /\ records'[t].count = records[t].count
    <2>1. Has(t) /\ records[t] \in Record  BY <1>4, StoreTypes DEF Claimable
    <2> DEFINE new == [records[t] EXCEPT !.account = a, !.stale = FALSE]
    <2>2. records'[t] = new  BY <1>4 DEF ClaimSessions
    <2>3. new \in Record /\ new.account = a /\ new.count = records[t].count
      BY <2>1 DEF Record, Owners
    <2> HIDE DEF new
    <2>4. QED  BY <2>1, <2>2, <2>3, NoRecordAssumption
  <1> HIDE DEF Z
  <1>5. (Has(t)' <=> Has(t)) /\ (Has(t) => records'[t].count = records[t].count)
    BY <1>3, <1>4 DEF Has
  <1>6. \A q \in Requests : req'[q] = req[q]  OBVIOUS
  <1>7. ASSUME NEW q \in Requests
        PROVE  HandlerInv(q, t)'
    <2>1. ASSUME Deletes(q, t[2]), disturbed'[t] < Raced
          PROVE  DeletedRecords(q)' = DeletedRecords(q)
      <3>1. \A u \in Z : u[2] # t[2]
        BY <2>1 DEF Z, Spoils, Concerns, Deletes
      <3>2. \A v, w \in Threads :
               v[2] = t[2] /\ w[2] = t[2] => (v \in older'[w] <=> v \in older[w])
        BY <1>1, <1>3, <3>1, TouchKeepsOrder
      <3>3. QED  BY <1>1, <1>2, <1>3, <1>6, <2>1, <3>1, <3>2, LookupKept DEF Deletes
    <2>2. ASSUME req[q].pc = "wipe", disturbed'[t] < Raced
          PROVE  t \in AccountThreads(req[q].account)' <=> t \in AccountThreads(req[q].account)
      <3>1. CASE t \notin Z
        BY <1>3, <1>5, <3>1 DEF AccountThreads, Has
      <3>2. CASE t \in Z
        <4>1. ~Concerns(req[q], t, a)  BY <2>2, <3>2 DEF Z, Spoils
        <4>2. a # req[q].account /\ t \notin AccountThreads(req[q].account)
          BY <2>2, <4>1 DEF Concerns
        <4>3. QED  BY <1>4, <1>6, <3>2, <4>2 DEF AccountThreads
      <3>3. QED  BY <3>1, <3>2
    <2>3. QED  BY <1>1, <1>5, <1>6, <2>1, <2>2, SlotKept
  <1>8. \A q \in Requests : /\ Purging(q, t)' <=> Purging(q, t)
                            /\ Emptied(q, t)' <=> Emptied(q, t)
                            /\ Wiped(q, t)' <=> Wiped(q, t)
    BY <1>6, SameSlot
  <1>9. OrphanIsKnown(t)'
    BY <1>1, <1>5, <1>8, Levels DEF ThreadInv, OrphanIsKnown, Orphan
  <1>10. CountIsBacked(t)'
    BY <1>1, <1>5, <1>8, Levels DEF ThreadInv, CountIsBacked
  <1>11. QED  BY <1>7, <1>9, <1>10 DEF ThreadInv

\* Nobody is at work while a retention period elapses.
LEMMA RetentionKeeps ==
    ASSUME StoreInv, NEW t \in Threads, Grows(t), RetentionElapses
    PROVE  ThreadInv(t)'
  <1>1. ThreadInv(t)  BY StoreTypes
  <1>2. messages' = messages /\ req' = req /\ \A q \in Requests : req[q] = Idle
    BY DEF RetentionElapses
  <1>3. \A q \in Requests : HandlerInv(q, t)'  BY <1>2, TurnHandler
  <1>4. (Has(t)' <=> Has(t)) /\ (Has(t) => records'[t].count = records[t].count)
    <2>1. CASE Saved(t)
      <3> DEFINE new == [records[t] EXCEPT !.stale = TRUE]
      <3>1. Has(t) /\ records[t] \in Record  BY <2>1, StoreTypes DEF Saved
      <3>2. records'[t] = new  BY <2>1 DEF RetentionElapses, AgeRecords
      <3>3. new \in Record /\ new.count = records[t].count  BY <3>1 DEF Record
      <3> HIDE DEF new
      <3>4. QED  BY <3>1, <3>2, <3>3, NoRecordAssumption DEF Has
    <2>2. CASE ~Saved(t)  BY <2>2 DEF RetentionElapses, AgeRecords, Has
    <2>3. QED  BY <2>1, <2>2
  <1>5. \A q \in Requests : ~Purging(q, t) /\ ~Emptied(q, t) /\ ~Wiped(q, t)
    BY <1>2, NoCleaner
  <1>6. QED
    BY <1>1, <1>2, <1>3, <1>4, <1>5, Levels
    DEF ThreadInv, OrphanIsKnown, CountIsBacked, Orphan

-----------------------------------------------------------------------------
(* The deletions and the purge. *)

LEMMA StartDeleteKeeps ==
    ASSUME StoreInv, NEW t \in Threads, Grows(t), NEW r \in Requests,
           NEW b \in Browsers, NEW a \in Owners, NEW s \in SessionIds,
           StartDelete(r, b, a, s)
    PROVE  ThreadInv(t)'
  <1>1. PICK u \in FindAccessible(b, a, s) :
          Become(r, [pc |-> "delete_checkpoint", browser |-> b, account |-> a,
                     session |-> s, thread |-> u])
    BY DEF StartDelete
  <1>2. /\ req'[r] = [pc |-> "delete_checkpoint", browser |-> b, account |-> a,
                      session |-> s, thread |-> u]
        /\ \A q \in Requests \ {r} : req'[q] = req[q]
    BY <1>1, StoreTypes, Others
  <1>3. /\ req'[r].pc = "delete_checkpoint" /\ req'[r].thread = u
        /\ req'[r].browser = b /\ req'[r].account = a /\ req'[r].session = s
    BY <1>2
  <1>4. UNCHANGED <<records, older, messages>>  BY DEF StartDelete
  <1>5. ~Purging(r, t) /\ ~Emptied(r, t) /\ ~Wiped(r, t)
    BY NoCleaner DEF StartDelete
  <1>6. DeletedRecords(r)' = {u}
    <2>1. FindAccessible(b, a, s) = {u}  BY <1>1, FoundIsUnique DEF StoreInv
    <2>2. FindAccessible(b, a, s)' = FindAccessible(b, a, s)
      BY <1>4 DEF FindAccessible, Accessible, Has
    <2>3. DeletedRecords(r)' = FindAccessible(b, a, s)'
      BY <1>3, <1>4 DEF DeletedRecords, FindAccessible, Accessible, Has
    <2>4. QED  BY <2>1, <2>2, <2>3
  <1>7. HandlerInv(r, t)'
    BY <1>3, <1>6
    DEF HandlerInv, TurnIsBacked, DeleteIsExact, WipeIsExact, PurgeIsExact,
        OnThread, IsTurn, TurnSteps, Emptied, Purging
  <1>8. QED  BY <1>2, <1>4, <1>5, <1>7, HandlerStep

LEMMA StartAccountDeletionKeeps ==
    ASSUME StoreInv, NEW t \in Threads, Grows(t), NEW r \in Requests,
           NEW a \in Accounts, StartAccountDeletion(r, a)
    PROVE  ThreadInv(t)'
  <1>1. /\ req'[r] = [pc |-> "wipe", account |-> a,
                      targets |-> AccountThreads(a), left |-> AccountThreads(a)]
        /\ \A q \in Requests \ {r} : req'[q] = req[q]
    BY StoreTypes, Others DEF StartAccountDeletion
  <1>2. /\ req'[r].pc = "wipe" /\ req'[r].account = a
        /\ req'[r].targets = AccountThreads(a) /\ req'[r].left = AccountThreads(a)
    BY <1>1
  <1>3. UNCHANGED <<records, older, messages>>  BY DEF StartAccountDeletion
  <1>4. ~Purging(r, t) /\ ~Emptied(r, t) /\ ~Wiped(r, t)
    BY NoCleaner DEF StartAccountDeletion
  <1>5. AccountThreads(req[r].account)' = AccountThreads(a)
    BY <1>2, <1>3 DEF AccountThreads, Has
  <1>6. HandlerInv(r, t)'
    BY <1>2, <1>5
    DEF HandlerInv, TurnIsBacked, DeleteIsExact, WipeIsExact, PurgeIsExact,
        OnThread, IsTurn, TurnSteps, Emptied, Purging, Wiped, Deletes, IsDelete
  <1>7. QED  BY <1>1, <1>3, <1>4, <1>6, HandlerStep

LEMMA DeleteCheckpointKeeps ==
    ASSUME StoreInv, NEW t \in Threads, Grows(t), NEW r \in Requests, DeleteCheckpoint(r)
    PROVE  ThreadInv(t)'
  <1> DEFINE u == req[r].thread
  <1>1. req[r].pc = "delete_checkpoint" /\ IsDelete(req[r])
    BY DEF DeleteCheckpoint, IsDelete
  <1>2. req[r] \in Delete /\ u \in Threads /\ u[2] = req[r].session
    BY <1>1, StoreTypes, HandlerByPc DEF TypeOK, StoreInv, HandlersMatch
  <1>3. /\ req'[r] = [req[r] EXCEPT !.pc = "delete_record"]
        /\ \A q \in Requests \ {r} : req'[q] = req[q]
    BY StoreTypes, Others DEF DeleteCheckpoint
  <1>4. /\ req'[r].pc = "delete_record" /\ req'[r].thread = u
        /\ req'[r].browser = req[r].browser /\ req'[r].account = req[r].account
        /\ req'[r].session = req[r].session
    BY <1>2, <1>3 DEF Delete
  <1>5. UNCHANGED <<records, older>> /\ messages' = [messages EXCEPT ![u] = 0]
    BY DEF DeleteCheckpoint
  <1>6. \A a : Concerns(req[r], u, a)  BY <1>1, <1>2 DEF Concerns
  <1>7. ~Purging(r, t) /\ ~Emptied(r, t) /\ ~Wiped(r, t)
    BY <1>1 DEF Purging, Emptied, Wiped
  <1>8. t = u => Emptied(r, t)'  BY <1>4 DEF Emptied
  <1>9. HandlerInv(r, t)'
    <2>1. HandlerInv(r, t) /\ RecordsMatch  BY StoreTypes DEF ThreadInv
    <2>2. RecordsMatch'  BY <1>5, <2>1 DEF RecordsMatch, Has
    <2>3. Deletes(r, t[2]) => DeletedRecords(r)' = DeletedRecords(r)
      BY <1>4, <1>5, <2>1, <2>2, LookupKept DEF Deletes
    <2>4. Deletes(r, t[2])' => Deletes(r, t[2])
      BY <1>1, <1>4 DEF Deletes
    <2>5. Emptied(r, t)' => messages'[t] = 0
      BY <1>4, <1>5, StoreTypes DEF Emptied, TypeOK
    <2>6. DeleteIsExact(r, t)'
      BY <1>4, <2>1, <2>3, <2>4, <2>5, Levels DEF HandlerInv, DeleteIsExact
    <2>7. QED
      BY <1>4, <2>6
      DEF HandlerInv, TurnIsBacked, WipeIsExact, PurgeIsExact, OnThread, IsTurn,
          TurnSteps, Purging
  <1>10. QED  BY <1>2, <1>3, <1>5, <1>6, <1>7, <1>8, <1>9, EmptyKeeps

LEMMA DeleteRecordKeeps ==
    ASSUME StoreInv, NEW t \in Threads, Grows(t), NEW r \in Requests, DeleteRecord(r)
    PROVE  ThreadInv(t)'
  <1> DEFINE R == DeletedRecords(r)
  <1>1. req[r].pc = "delete_record" /\ IsDelete(req[r])
    BY DEF DeleteRecord, IsDelete
  <1>2. req'[r] = Idle /\ \A q \in Requests \ {r} : req'[q] = req[q]
    BY StoreTypes, Others DEF DeleteRecord
  <1>3. RemoveRecords(R) /\ messages' = messages  BY DEF DeleteRecord
  <1>4. \A u \in R : u \in Threads /\ u[2] = req[r].session
    BY StoreTypes DEF DeletedRecords, FindAccessible, Accessible, RecordsMatch
  <1>5. R \in SUBSET Threads /\ \A u \in R : \A a : Concerns(req[r], u, a)
    BY <1>1, <1>4 DEF Concerns
  <1>6. HandlerInv(r, t) /\ HandlersMatch  BY StoreTypes DEF ThreadInv, StoreInv
  <1>7. ASSUME t[2] = req[r].session, disturbed'[t] < Raced
        PROVE  R = {req[r].thread} /\ (Emptied(r, t) => messages[t] = 0)
    BY <1>1, <1>6, <1>7, Levels DEF HandlerInv, DeleteIsExact, Deletes
  <1>8. t \in R /\ disturbed'[t] < PurgeCut => messages[t] = 0
    BY <1>1, <1>4, <1>7, Levels DEF Emptied
  <1>9. ~Purging(r, t) /\ ~Wiped(r, t)  BY <1>1 DEF Purging, Wiped
  <1>10. disturbed'[t] = Calm /\ Emptied(r, t) => t \in R
    BY <1>1, <1>6, <1>7, Levels DEF Emptied, HandlersMatch
  <1>11. HandlerInv(r, t)'  BY <1>2, TurnHandler
  <1> HIDE DEF R
  <1>12. QED  BY <1>2, <1>3, <1>5, <1>8, <1>9, <1>10, <1>11, RemoveKeeps

LEMMA WipeCheckpointKeeps ==
    ASSUME StoreInv, NEW t \in Threads, Grows(t), NEW r \in Requests, WipeCheckpoint(r)
    PROVE  ThreadInv(t)'
  <1>1. PICK u \in req[r].left :
          /\ messages' = [messages EXCEPT ![u] = 0]
          /\ Become(r, [req[r] EXCEPT !.left = req[r].left \ {u}])
    BY DEF WipeCheckpoint
  <1>2. req[r].pc = "wipe" /\ req[r] \in AccountDeletion
    BY StoreTypes, HandlerByPc DEF WipeCheckpoint, TypeOK
  <1>3. u \in Threads /\ u \in req[r].targets
    BY <1>1, <1>2 DEF AccountDeletion, StoreInv, HandlersMatch
  <1>4. /\ req'[r] = [req[r] EXCEPT !.left = req[r].left \ {u}]
        /\ \A q \in Requests \ {r} : req'[q] = req[q]
    BY <1>1, StoreTypes, Others
  <1>5. /\ req'[r].pc = "wipe" /\ req'[r].account = req[r].account
        /\ req'[r].targets = req[r].targets /\ req'[r].left = req[r].left \ {u}
    BY <1>2, <1>4 DEF AccountDeletion
  <1>6. UNCHANGED <<records, older>>  BY DEF WipeCheckpoint
  <1>7. \A a : Concerns(req[r], u, a)  BY <1>2, <1>3 DEF Concerns
  <1>8. ~Purging(r, t) /\ ~Emptied(r, t)  BY <1>2 DEF Purging, Emptied
  <1>9. Wiped(r, t)' <=> Wiped(r, t) \/ t = u
    BY <1>1, <1>2, <1>3, <1>5 DEF Wiped
  <1>10. HandlerInv(r, t)'
    <2>1. HandlerInv(r, t)  BY StoreTypes DEF ThreadInv
    <2>2. messages'[t] = IF t = u THEN 0 ELSE messages[t]
      BY <1>1, StoreTypes DEF TypeOK
    <2>3. t \in AccountThreads(req[r].account)' <=> t \in AccountThreads(req[r].account)
      BY <1>5, <1>6 DEF AccountThreads, Has
    <2>4. WipeIsExact(r, t)'
      BY <1>2, <1>5, <1>9, <2>1, <2>2, <2>3, Levels DEF HandlerInv, WipeIsExact
    <2>5. QED
      BY <1>5, <2>4
      DEF HandlerInv, TurnIsBacked, DeleteIsExact, PurgeIsExact, OnThread, IsTurn,
          TurnSteps, Purging, Emptied, Deletes, IsDelete
  <1>11. QED  BY <1>1, <1>3, <1>4, <1>6, <1>7, <1>8, <1>9, <1>10, EmptyKeeps

LEMMA FinishAccountDeletionKeeps ==
    ASSUME StoreInv, NEW t \in Threads, Grows(t), NEW r \in Requests,
           FinishAccountDeletion(r)
    PROVE  ThreadInv(t)'
  <1> DEFINE R == AccountThreads(req[r].account)
  <1>1. req[r].pc = "wipe" /\ req[r].left = {}  BY DEF FinishAccountDeletion
  <1>2. req'[r] = Idle /\ \A q \in Requests \ {r} : req'[q] = req[q]
    BY StoreTypes, Others DEF FinishAccountDeletion
  <1>3. RemoveRecords(R) /\ messages' = messages  BY DEF FinishAccountDeletion
  <1>4. R \in SUBSET Threads /\ \A u \in R : \A a : Concerns(req[r], u, a)
    BY <1>1 DEF Concerns, AccountThreads
  <1>5. HandlerInv(r, t)  BY StoreTypes DEF ThreadInv
  <1>6. disturbed'[t] < Raced =>
           (t \in R <=> t \in req[r].targets) /\ (Wiped(r, t) => messages[t] = 0)
    BY <1>1, <1>5, Levels DEF HandlerInv, WipeIsExact
  <1>7. t \in R /\ disturbed'[t] < PurgeCut => messages[t] = 0
    BY <1>1, <1>6, Levels DEF Wiped
  <1>8. ~Purging(r, t) /\ ~Emptied(r, t)  BY <1>1 DEF Purging, Emptied
  <1>9. disturbed'[t] = Calm /\ Wiped(r, t) => t \in R
    BY <1>6, Levels DEF Wiped
  <1>10. HandlerInv(r, t)'  BY <1>2, TurnHandler
  <1> HIDE DEF R
  <1>11. QED  BY <1>2, <1>3, <1>4, <1>7, <1>8, <1>9, <1>10, RemoveKeeps

LEMMA StartPurgeKeeps ==
    ASSUME StoreInv, NEW t \in Threads, Grows(t), NEW r \in Requests, StartPurge(r)
    PROVE  ThreadInv(t)'
  <1> DEFINE R == InactiveSaved
  <1>1. /\ req'[r] = [pc |-> "purge", left |-> R]
        /\ \A q \in Requests \ {r} : req'[q] = req[q]
    BY StoreTypes, Others DEF StartPurge
  <1>2. req'[r].pc = "purge" /\ req'[r].left = R  BY <1>1
  <1>3. RemoveRecords(R) /\ messages' = messages  BY DEF StartPurge
  <1>4. R \in SUBSET Threads  BY DEF InactiveSaved
  <1>5. ~Purging(r, t) /\ ~Emptied(r, t) /\ ~Wiped(r, t)  BY NoCleaner DEF StartPurge
  <1> HIDE DEF R
  <1>6. \A u \in R : \A a : Concerns(req[r], u, a)'  BY <1>2 DEF Concerns
  <1>7. Purging(r, t)' <=> t \in R  BY <1>2 DEF Purging
  <1>8. HandlerInv(r, t)'
    <2>1. t \in R => ~Has(t)'  BY <1>3 DEF RemoveRecords, Has
    <2>2. QED
      BY <1>2, <1>7, <2>1
      DEF HandlerInv, TurnIsBacked, DeleteIsExact, WipeIsExact, PurgeIsExact, OnThread,
          IsTurn, TurnSteps, Emptied, Deletes, IsDelete
  <1>9. QED  BY <1>1, <1>3, <1>4, <1>5, <1>6, <1>7, <1>8, RemoveKeeps

LEMMA PurgeCheckpointKeeps ==
    ASSUME StoreInv, NEW t \in Threads, Grows(t), NEW r \in Requests, PurgeCheckpoint(r)
    PROVE  ThreadInv(t)'
  <1> DEFINE h(u) == IF req[r].left = {u}
                       THEN Idle ELSE [req[r] EXCEPT !.left = req[r].left \ {u}]
  <1>1. PICK u \in req[r].left : messages' = [messages EXCEPT ![u] = 0] /\ Become(r, h(u))
    BY DEF PurgeCheckpoint
  <1>2. req[r].pc = "purge" /\ req[r] \in Purge
    BY StoreTypes, HandlerByPc DEF PurgeCheckpoint, TypeOK
  <1>3. u \in Threads  BY <1>1, <1>2 DEF Purge
  <1>4. req'[r] = h(u) /\ \A q \in Requests \ {r} : req'[q] = req[q]
    BY <1>1, StoreTypes, Others
  <1>5. \/ req'[r] = Idle /\ req[r].left = {u}
        \/ req'[r].pc = "purge" /\ req'[r].left = req[r].left \ {u}
    BY <1>2, <1>4 DEF Purge
  <1>6. UNCHANGED <<records, older>>  BY DEF PurgeCheckpoint
  <1>7. Purging(r, u) /\ \A a : Concerns(req[r], u, a)
    BY <1>1, <1>2 DEF Purging, Concerns
  <1>8. ~Emptied(r, t) /\ ~Wiped(r, t)  BY <1>2 DEF Emptied, Wiped
  <1>9. /\ Purging(r, t) => Purging(r, t)' \/ t = u
        /\ Purging(r, t)' => Purging(r, t)
    BY <1>2, <1>5 DEF Purging, Idle
  <1>10. HandlerInv(r, t)  BY StoreTypes DEF ThreadInv
  <1>11. t = u /\ disturbed'[t] = Calm => ~Has(t)
    BY <1>7, <1>10, Levels DEF HandlerInv, PurgeIsExact
  <1>12. HandlerInv(r, t)'
    <2>1. CASE req'[r] = Idle  BY <2>1, TurnHandler
    <2>2. CASE req'[r].pc = "purge"
      <3>1. PurgeIsExact(r, t)'
        BY <1>6, <1>9, <1>10, Levels DEF HandlerInv, PurgeIsExact, Has
      <3>2. QED
        BY <2>2, <3>1
        DEF HandlerInv, TurnIsBacked, DeleteIsExact, WipeIsExact, OnThread,
            IsTurn, TurnSteps, Emptied, Deletes, IsDelete
    <2>3. QED  BY <1>5, <2>1, <2>2
  <1>13. QED  BY <1>1, <1>3, <1>4, <1>6, <1>7, <1>8, <1>9, <1>11, <1>12, EmptyKeeps

\* What a handler that is cut had begun and not ended is in the history.
LEMMA AbandonKeeps ==
    ASSUME StoreInv, NEW t \in Threads, Grows(t), NEW r \in Requests, Abandon(r),
           CutCause(r)[t] <= disturbed'[t]
    PROVE  ThreadInv(t)'
  <1>1. req'[r] = Idle /\ \A q \in Requests \ {r} : req'[q] = req[q]
    BY StoreTypes, Others DEF Abandon
  <1>2. UNCHANGED <<records, older, messages>>  BY DEF Abandon
  <1>3. disturbed'[t] \in Calm .. Raced  BY DEF Grows
  <1>4. Purging(r, t) => disturbed'[t] >= PurgeCut
    <2>1. Purging(r, t) => CutCause(r)[t] = PurgeCut  BY DEF Purging, CutCause
    <2>2. QED  BY <1>3, <2>1 DEF Calm, Raced, PurgeCut
  <1>5. Emptied(r, t) \/ Wiped(r, t) => disturbed'[t] # Calm
    <2>1. Emptied(r, t) => CutCause(r)[t] = Uneven  BY DEF Emptied, CutCause
    <2>2. Wiped(r, t) => CutCause(r)[t] = Uneven  BY DEF Wiped, CutCause
    <2>3. QED  BY <1>3, <2>1, <2>2 DEF Calm, Raced, Uneven
  <1>6. HandlerInv(r, t)'  BY <1>1, TurnHandler
  <1>7. QED  BY <1>1, <1>2, <1>4, <1>5, <1>6, HandlerStep

-----------------------------------------------------------------------------
(* Every step keeps the invariant. *)

LEMMA HandlersMatchKept ==
    ASSUME TypeOK, HandlersMatch, NEW r \in Requests, NEW h, Become(r, h),
           IsDelete(h) => h.thread \in Threads /\ h.thread[2] = h.session,
           h.pc = "wipe" => h.left \subseteq h.targets
    PROVE  HandlersMatch'
  <1>1. req'[r] = h /\ \A q \in Requests \ {r} : req'[q] = req[q]  BY Others
  <1>2. ASSUME NEW q \in Requests
        PROVE  /\ IsDelete(req'[q]) =>
                     req'[q].thread \in Threads /\ req'[q].thread[2] = req'[q].session
               /\ req'[q].pc = "wipe" => req'[q].left \subseteq req'[q].targets
    BY <1>1 DEF HandlersMatch
  <1>3. QED  BY <1>2 DEF HandlersMatch, IsDelete

LEMMA HandlersMatchNext ==
    ASSUME StoreInv, Next
    PROVE  HandlersMatch'
  <1>1. TypeOK /\ HandlersMatch  BY StoreTypes DEF StoreInv
  <1>2. ASSUME NEW r \in Requests, TurnStep(r)
        PROVE  HandlersMatch'
    <2>1. CASE \E b \in Browsers, a \in Owners, s \in SessionIds, k \in Kinds :
                  StartTurn(r, b, a, s, k)
      <3>1. PICK h : Become(r, h) /\ h.pc \in {"checking", "resolved"}
        BY <2>1 DEF StartTurn
      <3>2. QED  BY <1>1, <3>1, HandlersMatchKept DEF IsDelete
    <2>2. CASE RegisterFirst(r) \/ CheckResume(r) \/ LoadGraph(r) \/ SaveStep(r)
                 \/ Answer(r) \/ RegisterFinal(r)
      <3>1. req[r] \in Turn
        BY <1>1, <2>2, HandlerByPc
        DEF TypeOK, RegisterFirst, CheckResume, LoadGraph, SaveStep, Answer,
            RegisterFinal, TurnSteps
      <3>2. PICK h : /\ Become(r, h)
                     /\ \/ h = Idle
                        \/ \E p \in TurnSteps : \E n :
                             h = [req[r] EXCEPT !.pc = p, !.seen = n]
        BY <2>2, <3>1, TurnStepForm
      <3>3. h.pc \in TurnSteps \cup {"idle"}
        <4>1. CASE h = Idle  BY <4>1 DEF Idle
        <4>2. ASSUME NEW p \in TurnSteps, NEW n, h = [req[r] EXCEPT !.pc = p, !.seen = n]
              PROVE  h.pc = p
          BY <3>1, <4>2 DEF Turn
        <4>3. QED  BY <3>2, <4>1, <4>2
      <3>4. QED  BY <1>1, <3>2, <3>3, HandlersMatchKept DEF IsDelete, TurnSteps
    <2>3. QED  BY <1>2, <2>1, <2>2 DEF TurnStep
  <1>3. ASSUME NEW r \in Requests, DeletionStep(r) \/ Abandon(r)
        PROVE  HandlersMatch'
    <2>1. CASE \E b \in Browsers, a \in Owners, s \in SessionIds : StartDelete(r, b, a, s)
      <3>1. PICK b \in Browsers, a \in Owners, s \in SessionIds : StartDelete(r, b, a, s)
        BY <2>1
      <3>2. PICK u \in FindAccessible(b, a, s) :
              Become(r, [pc |-> "delete_checkpoint", browser |-> b, account |-> a,
                         session |-> s, thread |-> u])
        BY <3>1 DEF StartDelete
      <3>3. u \in Threads /\ u[2] = s
        BY StoreTypes DEF FindAccessible, Accessible, RecordsMatch
      <3>4. QED  BY <1>1, <3>2, <3>3, HandlersMatchKept
    <2>2. CASE DeleteCheckpoint(r)
      <3>1. req[r] \in Delete /\ IsDelete(req[r])
        BY <1>1, <2>2, HandlerByPc DEF TypeOK, DeleteCheckpoint, IsDelete
      <3> DEFINE h == [req[r] EXCEPT !.pc = "delete_record"]
      <3>2. h.pc = "delete_record" /\ h.thread = req[r].thread /\ h.session = req[r].session
        BY <3>1 DEF Delete
      <3>3. Become(r, h)  BY <2>2 DEF DeleteCheckpoint
      <3>4. req[r].thread \in Threads /\ req[r].thread[2] = req[r].session
        BY <1>1, <3>1 DEF HandlersMatch
      <3> HIDE DEF h
      <3>5. QED  BY <1>1, <3>2, <3>3, <3>4, HandlersMatchKept
    <2>3. CASE DeleteRecord(r) \/ FinishAccountDeletion(r) \/ Abandon(r)
      <3>1. Become(r, Idle)
        BY <2>3 DEF DeleteRecord, FinishAccountDeletion, Abandon
      <3>2. QED  BY <1>1, <3>1, HandlersMatchKept DEF Idle, IsDelete
    <2>4. CASE \E a \in Accounts : StartAccountDeletion(r, a)
      <3>1. PICK a \in Accounts : StartAccountDeletion(r, a)  BY <2>4
      <3>2. QED
        BY <1>1, <3>1, HandlersMatchKept DEF StartAccountDeletion, IsDelete
    <2>5. CASE WipeCheckpoint(r)
      <3>1. PICK u \in req[r].left : Become(r, [req[r] EXCEPT !.left = req[r].left \ {u}])
        BY <2>5 DEF WipeCheckpoint
      <3>2. req[r].pc = "wipe" /\ req[r] \in AccountDeletion
        BY <1>1, <2>5, HandlerByPc DEF TypeOK, WipeCheckpoint
      <3> DEFINE h == [req[r] EXCEPT !.left = req[r].left \ {u}]
      <3>3. h.pc = "wipe" /\ h.left \subseteq req[r].left /\ h.targets = req[r].targets
        BY <3>2 DEF AccountDeletion
      <3>4. req[r].left \subseteq req[r].targets  BY <1>1, <3>2 DEF HandlersMatch
      <3> HIDE DEF h
      <3>5. Become(r, h)  BY <3>1 DEF h
      <3>6. QED  BY <1>1, <3>3, <3>4, <3>5, HandlersMatchKept DEF IsDelete
    <2>6. CASE StartPurge(r)
      <3>1. Become(r, [pc |-> "purge", left |-> InactiveSaved])
        BY <2>6 DEF StartPurge
      <3>2. QED  BY <1>1, <3>1, HandlersMatchKept DEF IsDelete
    <2>7. CASE PurgeCheckpoint(r)
      <3> DEFINE g(u) == IF req[r].left = {u}
                           THEN Idle ELSE [req[r] EXCEPT !.left = req[r].left \ {u}]
      <3>1. PICK u \in req[r].left : Become(r, g(u))  BY <2>7 DEF PurgeCheckpoint
      <3>2. req[r] \in Purge  BY <1>1, <2>7, HandlerByPc DEF TypeOK, PurgeCheckpoint
      <3>3. g(u).pc \in {"purge", "idle"}  BY <3>2 DEF Purge, Idle
      <3> HIDE DEF g
      <3>4. QED  BY <1>1, <3>1, <3>3, HandlersMatchKept DEF IsDelete
    <2>8. QED
      BY <1>3, <2>1, <2>2, <2>3, <2>4, <2>5, <2>6, <2>7 DEF DeletionStep
  <1>4. ASSUME UNCHANGED req
        PROVE  HandlersMatch'
    BY <1>1, <1>4 DEF HandlersMatch
  <1>5. QED  BY <1>2, <1>3, <1>4 DEF Next, Claim, RetentionElapses

LEMMA WritesAreOrderedNext ==
    ASSUME WritesAreOrdered, Next
    PROVE  WritesAreOrdered'
  <1>1. UNCHANGED older \/ \E Z : Touch(Z)
    BY DEF Next, TurnStep, DeletionStep, StartTurn, RegisterFirst, CheckResume, LoadGraph,
           SaveStep, Answer, RegisterFinal, RegisterFor, RegisterTurn, StartDelete,
           DeleteCheckpoint, DeleteRecord, StartAccountDeletion, WipeCheckpoint,
           FinishAccountDeletion, StartPurge, PurgeCheckpoint, RemoveRecords, Abandon,
           Claim, ClaimSessions, RetentionElapses, AgeRecords
  <1>2. CASE UNCHANGED older  BY <1>2 DEF WritesAreOrdered
  <1>3. QED  BY <1>1, <1>2, TouchOrdered

LEMMA ThreadInvNext ==
    ASSUME StoreInv, Next, NEW t \in Threads
    PROVE  Overlap(t)' <= disturbed'[t] /\ ThreadInv(t)'
  <1>1. TypeOK /\ OverlapIsSeen /\ HandlersMatch'
    BY StoreTypes, HandlersMatchNext DEF StoreInv
  <1>2. (Gone(t) /\ Settled(t))' => ThreadInv(t)'  BY <1>1, GoneInv
  <1>3. ASSUME NEW r \in Requests, TurnStep(r)
        PROVE  Overlap(t)' <= disturbed'[t] /\ ThreadInv(t)'
    <2>1. Observe(NoCause)
      BY <1>3 DEF TurnStep, StartTurn, RegisterFirst, CheckResume, LoadGraph, SaveStep,
                  Answer, RegisterFinal
    <2>2. Overlap(t)' <= disturbed'[t] /\ (~(Gone(t) /\ Settled(t))' => Grows(t))
      BY <1>1, <2>1, NoCauseType, ObserveGrows
    <2>3. Grows(t) => ThreadInv(t)'
      BY <1>3, StartTurnKeeps, RegisterKeeps, CheckResumeKeeps, SaveStepKeeps, AnswerKeeps
      DEF TurnStep
    <2>4. QED  BY <1>2, <2>2, <2>3
  <1>4. ASSUME NEW r \in Requests, DeletionStep(r)
        PROVE  Overlap(t)' <= disturbed'[t] /\ ThreadInv(t)'
    <2>1. Observe(NoCause)
      BY <1>4 DEF DeletionStep, StartDelete, DeleteCheckpoint, DeleteRecord,
                  StartAccountDeletion, WipeCheckpoint, FinishAccountDeletion, StartPurge,
                  PurgeCheckpoint
    <2>2. Overlap(t)' <= disturbed'[t] /\ (~(Gone(t) /\ Settled(t))' => Grows(t))
      BY <1>1, <2>1, NoCauseType, ObserveGrows
    <2>3. Grows(t) => ThreadInv(t)'
      BY <1>4, StartDeleteKeeps, DeleteCheckpointKeeps, DeleteRecordKeeps,
         StartAccountDeletionKeeps, WipeCheckpointKeeps, FinishAccountDeletionKeeps,
         StartPurgeKeeps, PurgeCheckpointKeeps
      DEF DeletionStep
    <2>4. QED  BY <1>2, <2>2, <2>3
  <1>5. ASSUME NEW r \in Requests, Abandon(r)
        PROVE  Overlap(t)' <= disturbed'[t] /\ ThreadInv(t)'
    <2>1. Observe(CutCause(r))  BY <1>5 DEF Abandon
    <2>2. /\ Overlap(t)' <= disturbed'[t]
          /\ ~(Gone(t) /\ Settled(t))' => Grows(t) /\ CutCause(r)[t] <= disturbed'[t]
      BY <1>1, <2>1, CutCauseType, ObserveGrows
    <2>3. QED  BY <1>2, <1>5, <2>2, AbandonKeeps
  <1>6. ASSUME NEW b \in Browsers, NEW a \in Accounts, NEW S \in SUBSET SessionIds,
               Claim(b, a, S)
        PROVE  Overlap(t)' <= disturbed'[t] /\ ThreadInv(t)'
    <2> DEFINE cause == [v \in Threads |->
           IF \E u \in Claimable(b, a, S), r \in Requests : Spoils(req[r], u, a, v)
             THEN Raced ELSE Calm]
    <2>1. Observe(cause)  BY <1>6 DEF Claim
    <2>2. cause \in [Threads -> Calm .. Raced]  BY DEF Calm, Raced
    <2>3. cause[t] < Raced =>
             \A u \in Claimable(b, a, S), r \in Requests : ~Spoils(req[r], u, a, t)
      BY DEF Calm, Raced
    <2>4. cause[t] \in Calm .. Raced  BY <2>2
    <2> HIDE DEF cause
    <2>5. /\ Overlap(t)' <= disturbed'[t]
          /\ ~(Gone(t) /\ Settled(t))' => Grows(t) /\ cause[t] <= disturbed'[t]
      BY <1>1, <2>1, <2>2, ObserveGrows
    <2>6. Grows(t) /\ cause[t] <= disturbed'[t] /\ disturbed'[t] < Raced => cause[t] < Raced
      BY <2>4 DEF Grows, Calm, Raced
    <2>7. QED  BY <1>2, <1>6, <2>3, <2>5, <2>6, ClaimKeeps DEF Claim
  <1>7. ASSUME RetentionElapses
        PROVE  Overlap(t)' <= disturbed'[t] /\ ThreadInv(t)'
    <2>1. Observe(NoCause)  BY <1>7 DEF RetentionElapses
    <2>2. Overlap(t)' <= disturbed'[t] /\ (~(Gone(t) /\ Settled(t))' => Grows(t))
      BY <1>1, <2>1, NoCauseType, ObserveGrows
    <2>3. QED  BY <1>2, <1>7, <2>2, RetentionKeeps
  <1>8. QED  BY <1>3, <1>4, <1>5, <1>6, <1>7 DEF Next

LEMMA StoreInvUnchanged ==
    ASSUME StoreInv, IdentityInv', UNCHANGED vars
    PROVE  StoreInv'
  <1> USE DEF vars
  <1>1. WritesAreOrdered' /\ HandlersMatch'
    BY DEF StoreInv, WritesAreOrdered, HandlersMatch, Threads
  <1>2. OverlapIsSeen'
    BY DEF StoreInv, OverlapIsSeen, Overlap, Deleting, Spoils, Concerns, OnThread,
           AccountThreads, Has
  <1>3. ASSUME NEW t \in Threads
        PROVE  ThreadInv(t)'
    <2>1. ThreadInv(t)  BY DEF StoreInv
    <2>2. OrphanIsKnown(t)'
      BY <2>1 DEF ThreadInv, OrphanIsKnown, Orphan, Has, Purging
    <2>3. CountIsBacked(t)'
      BY <2>1 DEF ThreadInv, CountIsBacked, Has, Emptied, Wiped
    <2>4. ASSUME NEW r \in Requests
          PROVE  HandlerInv(r, t)'
      <3>1. HandlerInv(r, t)  BY <2>1 DEF ThreadInv
      <3>2. DeletedRecords(r)' = DeletedRecords(r)
        BY DEF DeletedRecords, FindAccessible, Accessible, Has
      <3>3. QED
        BY <3>1, <3>2
        DEF HandlerInv, TurnIsBacked, DeleteIsExact, WipeIsExact, PurgeIsExact, OnThread,
            Has, Deletes, Emptied, Wiped, Purging, AccountThreads
    <2>5. QED  BY <2>2, <2>3, <2>4 DEF ThreadInv
  <1>4. QED  BY <1>1, <1>2, <1>3 DEF StoreInv

LEMMA StoreInvInit ==
    ASSUME Init, IdentityInv
    PROVE  StoreInv
  <1>1. \A r \in Requests : req[r] = Idle  BY DEF Init
  <1>2. \A r \in Requests : ~IsTurn(req[r]) /\ ~IsDelete(req[r])
                            /\ req[r].pc # "wipe" /\ req[r].pc # "purge"
    BY <1>1 DEF Idle, IsTurn, IsDelete, TurnSteps
  <1>3. WritesAreOrdered /\ HandlersMatch
    BY <1>2 DEF Init, RegistryInit, WritesAreOrdered, HandlersMatch
  <1>4. ASSUME NEW t \in Threads
        PROVE  Overlap(t) <= disturbed[t]
    <2>1. OnThread(t) = {} /\ \A u \in Threads : Deleting(u) = {}
      BY <1>2 DEF OnThread, Deleting, Concerns
    <2>2. Overlap(t) = Calm  BY <1>2, <2>1 DEF Overlap
    <2>3. QED  BY <2>2 DEF Init, Calm
  <1>5. ASSUME NEW t \in Threads
        PROVE  ThreadInv(t)
    <2>1. ~Has(t) /\ messages[t] = 0  BY DEF Init, RegistryInit, Has
    <2>2. QED
      BY <1>2, <2>1, NoCleaner, <1>1
      DEF ThreadInv, OrphanIsKnown, CountIsBacked, HandlerInv, TurnIsBacked, DeleteIsExact,
          WipeIsExact, PurgeIsExact, Orphan
  <1>6. QED  BY <1>3, <1>4, <1>5 DEF StoreInv, OverlapIsSeen

\* What the invariant says of a settled thread, and of one that nobody deletes.
LEMMA StoreInvImplies == StoreInv => StoresAgree
  <1> SUFFICES ASSUME StoreInv, NEW t \in Threads
               PROVE  /\ Orphan(t) /\ Settled(t) => disturbed[t] >= PurgeCut
                      /\ Has(t) /\ disturbed[t] = Calm /\ Deleting(t) = {} =>
                            records[t].count <= messages[t]
    BY DEF StoresAgree, OrphanOnlyByRace, CountBacked
  <1>1. ThreadInv(t) /\ HandlersMatch  BY DEF StoreInv
  <1>2. Deleting(t) = {} =>
           \A r \in Requests : ~Purging(r, t) /\ ~Emptied(r, t) /\ ~Wiped(r, t)
    BY <1>1, CleanerConcerns DEF Deleting
  <1>3. QED  BY <1>1, <1>2 DEF ThreadInv, OrphanIsKnown, CountIsBacked, Settled

\* A checkpoint outlives its record only by a race with a deletion or a purge cut
\* short, and a listed count is in the checkpoint, for any number of handlers.
THEOREM StoresAlwaysAgree == Spec => []StoresAgree
  <1>1. Init /\ IdentityInv => StoreInv  BY StoreInvInit
  <1>2. StoreInv /\ IdentityInv' /\ [Next]_vars => StoreInv'
    <2> SUFFICES ASSUME StoreInv, IdentityInv', [Next]_vars PROVE StoreInv'  OBVIOUS
    <2>1. CASE Next
      <3>1. WritesAreOrdered' /\ HandlersMatch'
        BY <2>1, WritesAreOrderedNext, HandlersMatchNext DEF StoreInv
      <3>2. OverlapIsSeen' /\ \A t \in Threads : ThreadInv(t)'
        BY <2>1, ThreadInvNext DEF OverlapIsSeen
      <3>3. QED  BY <3>1, <3>2 DEF StoreInv
    <2>2. CASE UNCHANGED vars  BY <2>2, StoreInvUnchanged
    <2>3. QED  BY <2>1, <2>2
  <1>3. QED  BY <1>1, <1>2, StoreInvImplies, IdentityInvHolds, PTL DEF Spec
=============================================================================
