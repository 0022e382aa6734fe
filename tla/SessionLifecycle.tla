-------------------------- MODULE SessionLifecycle ---------------------------
(***************************************************************************)
(* The API handlers over two stores that have no common transaction: the   *)
(* session registry and the graph's checkpoint store.  Every await between *)
(* two store accesses is a point where other handlers, on the same or on   *)
(* another replica, may run; each handler is a small state machine.        *)
(*                                                                         *)
(*   chat, stream   resolve - register - run the graph - register          *)
(*   resume         resolve - check - run the graph - register             *)
(*   delete         resolve - delete checkpoint - delete record            *)
(*   user.deleted   list threads - delete each checkpoint - delete records *)
(*   startup purge  delete records - delete each checkpoint                *)
(*                                                                         *)
(* Rate limiting and the language preference touch neither store.         *)
(***************************************************************************)
EXTENDS SessionRegistry

CONSTANTS
    Requests,     \* slots for handlers in flight
    Kinds,        \* the turn handlers in use, among TurnKinds
    MaxMessages   \* bound on a conversation's messages

TurnKinds == {"chat", "stream", "resume"}

ASSUME KindsAssumption == Kinds \subseteq TurnKinds
ASSUME MaxMessagesAssumption == MaxMessages \in Nat \ {0}

VARIABLES
    messages,   \* messages[t]: messages in t's latest checkpoint, 0 without one
    req,        \* req[r]: the handler in slot r
    disturbed   \* history: how t's handlers got in each other's way

vars == <<records, older, messages, req, disturbed>>

TurnSteps == {"resolved", "checking", "ready", "running", "answered"}
Turn == [pc : TurnSteps, kind : Kinds, account : Owners, session : SessionIds,
         thread : Threads, owner : Browsers, seen : Nat]
Delete == [pc : {"delete_checkpoint", "delete_record"}, browser : Browsers,
           account : Owners, session : SessionIds, thread : Threads]
AccountDeletion == [pc : {"wipe"}, account : Accounts,
                    targets : SUBSET Threads, left : SUBSET Threads]
Purge == [pc : {"purge"}, left : SUBSET Threads]
Idle == [pc |-> "idle"]

Handler == Turn \cup Delete \cup AccountDeletion \cup Purge \cup {Idle}

\* How badly a thread's handlers got in each other's way since it was last gone:
\* not at all; two turns at once, or a deletion cut short that left the record;
\* a purge cut short; a deletion beside another handler.
Calm == 0
Uneven == 1
PurgeCut == 2
Raced == 3

TypeOK ==
    /\ records \in [Threads -> Record \cup {NoRecord}]
    /\ older \in [Threads -> SUBSET Threads]
    /\ messages \in [Threads -> 0 .. MaxMessages]
    /\ req \in [Requests -> Handler]
    /\ disturbed \in [Threads -> Calm .. Raced]

-----------------------------------------------------------------------------
(***************************************************************************)
(* History.  A handler h concerns thread t when it may delete t's record   *)
(* or checkpoint; the account webhook concerns what its account owns or    *)
(* works on, so that depends on the account a of whoever touches t.        *)
(***************************************************************************)
IsTurn(h) == h.pc \in TurnSteps

IsDelete(h) == h.pc \in {"delete_checkpoint", "delete_record"}

Concerns(h, t, a) ==
    \/ IsDelete(h) /\ h.session = t[2]
    \/ h.pc = "wipe" /\ (t \in h.targets \cup AccountThreads(h.account) \/ a = h.account)
    \/ h.pc = "purge" /\ t \in h.left

OnThread(t) == {r \in Requests : IsTurn(req[r]) /\ req[r].thread = t}

Deleting(t) == {r \in Requests : Concerns(req[r], t, NoAccount)}

\* Account a's work on thread u, while h is in flight, may spoil what h does to
\* t: a delete looks its session up twice, and may find another thread of it.
Spoils(h, u, a, t) ==
    /\ Concerns(h, u, a)
    /\ t = u \/ (IsDelete(h) /\ h.session = t[2])

\* Two turns on t; or a deletion of t spoilt by another deletion or by a turn.
Overlap(t) ==
    IF \/ \E u \in Threads : \E r1, r2 \in Deleting(u) :
             r1 # r2 /\ Spoils(req[r2], u, NoAccount, t)
       \/ \E r1, r2 \in Requests :
             IsTurn(req[r1]) /\ Spoils(req[r2], req[r1].thread, req[r1].account, t)
      THEN Raced
    ELSE IF \E r1, r2 \in OnThread(t) : r1 # r2 THEN Uneven ELSE Calm

\* Nobody is at work on t, or still has t to clean up.
Settled(t) == OnThread(t) \cup Deleting(t) = {}

\* Nothing is left of t.
Gone(t) == records[t] = NoRecord /\ messages[t] = 0

\* Every action ends by recording, in disturbed', the worst that happened to each
\* thread: cause[t], or an overlap visible among the handlers in flight.
Observe(cause) ==
    disturbed' = [t \in Threads |->
        IF (Gone(t) /\ Settled(t))'
          THEN Calm
          ELSE Larger(disturbed[t], Larger(Overlap(t)', cause[t]))]

NoCause == [t \in Threads |-> Calm]

-----------------------------------------------------------------------------
Init ==
    /\ RegistryInit
    /\ messages = [t \in Threads |-> 0]
    /\ req = [r \in Requests |-> Idle]
    /\ disturbed = [t \in Threads |-> Calm]

Become(r, h) == req' = [req EXCEPT ![r] = h]

\* _resolve_session_record: the accessible record's thread, else a private one.
Resolve(b, a, s) ==
    IF Accessible(b, a, s) = {} THEN {PrivateThread(b, s)}
                                ELSE FindAccessible(b, a, s)

\* Mutant: the requester's browser is registered, not the record's.
TurnOwnerRequester(t, b) == b

\* existing.browser_owner_key if existing is not None else owner_id
TurnOwner(t, b) == IF Has(t) THEN records[t].browser ELSE b

\* Mutant: the message about to be sent is counted before it is saved.
KnownCountAhead(t) == IF Has(t) THEN records[t].count + 1 ELSE 1

\* record.message_count if record else 0
KnownCount(t) == IF Has(t) THEN records[t].count ELSE 0

StartTurn(r, b, a, s, k) ==
    /\ req[r] = Idle
    /\ \E t \in Resolve(b, a, s) :
         Become(r, [pc |-> IF k = "resume" THEN "checking" ELSE "resolved",
                    kind |-> k, account |-> a, session |-> s, thread |-> t,
                    owner |-> TurnOwner(t, b), seen |-> KnownCount(t)])
    /\ UNCHANGED <<records, older, messages>>
    /\ Observe(NoCause)

\* _record_session_turn on behalf of the turn in slot r.
RegisterFor(r) ==
    RegisterTurn(req[r].thread, req[r].owner, req[r].account, req[r].session,
                 req[r].seen)

RegisterFirst(r) ==
    /\ req[r].pc = "resolved"
    /\ RegisterFor(r)
    /\ Become(r, [req[r] EXCEPT !.pc = "ready"])
    /\ UNCHANGED messages
    /\ Observe(NoCause)

\* A resume is refused with 404 when the thread has no messages.
CheckResume(r) ==
    /\ req[r].pc = "checking"
    /\ Become(r, IF messages[req[r].thread] = 0
                   THEN Idle ELSE [req[r] EXCEPT !.pc = "ready"])
    /\ UNCHANGED <<records, older, messages>>
    /\ Observe(NoCause)

\* The graph reads the latest checkpoint; a new message is saved with it.
LoadGraph(r) ==
    LET t == req[r].thread
        n == IF req[r].kind = "resume" THEN messages[t] ELSE messages[t] + 1
    IN  /\ req[r].pc = "ready"
        /\ n \in 1 .. MaxMessages
        /\ messages' = [messages EXCEPT ![t] = n]
        /\ Become(r, [req[r] EXCEPT !.pc = "running", !.seen = n])
        /\ UNCHANGED <<records, older>>
        /\ Observe(NoCause)

\* A graph step saves the run's own copy of the conversation, one message on.
SaveStep(r) ==
    /\ req[r].pc = "running"
    /\ req[r].seen < MaxMessages
    /\ messages' = [messages EXCEPT ![req[r].thread] = req[r].seen + 1]
    /\ Become(r, [req[r] EXCEPT !.seen = req[r].seen + 1])
    /\ UNCHANGED <<records, older>>
    /\ Observe(NoCause)

\* The graph is done.  A stream swallows the graph's exceptions and reads the
\* conversation back from the store; the others use the run's own result.
Answer(r) ==
    /\ \/ req[r].pc = "running"
       \/ req[r].pc = "ready" /\ req[r].kind = "stream"
    /\ Become(r, [req[r] EXCEPT !.pc = "answered",
                  !.seen = IF req[r].kind = "stream" THEN messages[req[r].thread]
                                                     ELSE req[r].seen])
    /\ UNCHANGED <<records, older, messages>>
    /\ Observe(NoCause)

RegisterFinal(r) ==
    /\ req[r].pc = "answered"
    /\ RegisterFor(r)
    /\ Become(r, Idle)
    /\ UNCHANGED messages
    /\ Observe(NoCause)

-----------------------------------------------------------------------------
StartDelete(r, b, a, s) ==
    /\ req[r] = Idle
    /\ \E t \in FindAccessible(b, a, s) :
         Become(r, [pc |-> "delete_checkpoint", browser |-> b, account |-> a,
                    session |-> s, thread |-> t])
    /\ UNCHANGED <<records, older, messages>>
    /\ Observe(NoCause)

\* Mutant: a backend that cannot delete is only logged (strict=False).
DeleteCheckpointBestEffort(r) ==
    /\ req[r].pc = "delete_checkpoint"
    /\ Become(r, [req[r] EXCEPT !.pc = "delete_record"])
    /\ UNCHANGED <<records, older, messages>>
    /\ Observe(NoCause)

DeleteCheckpoint(r) ==
    /\ req[r].pc = "delete_checkpoint"
    /\ messages' = [messages EXCEPT ![req[r].thread] = 0]
    /\ Become(r, [req[r] EXCEPT !.pc = "delete_record"])
    /\ UNCHANGED <<records, older>>
    /\ Observe(NoCause)

\* delete_accessible looks the session up again; without a record it is a 404.
DeletedRecords(r) ==
    FindAccessible(req[r].browser, req[r].account, req[r].session)

DeleteRecord(r) ==
    /\ req[r].pc = "delete_record"
    /\ RemoveRecords(DeletedRecords(r))
    /\ Become(r, Idle)
    /\ UNCHANGED messages
    /\ Observe(NoCause)

StartAccountDeletion(r, a) ==
    /\ req[r] = Idle
    /\ Become(r, [pc |-> "wipe", account |-> a,
                  targets |-> AccountThreads(a), left |-> AccountThreads(a)])
    /\ UNCHANGED <<records, older, messages>>
    /\ Observe(NoCause)

WipeCheckpoint(r) ==
    /\ req[r].pc = "wipe"
    /\ \E t \in req[r].left :
         /\ messages' = [messages EXCEPT ![t] = 0]
         /\ Become(r, [req[r] EXCEPT !.left = req[r].left \ {t}])
    /\ UNCHANGED <<records, older>>
    /\ Observe(NoCause)

FinishAccountDeletion(r) ==
    /\ req[r].pc = "wipe"
    /\ req[r].left = {}
    /\ RemoveRecords(AccountThreads(req[r].account))
    /\ Become(r, Idle)
    /\ UNCHANGED messages
    /\ Observe(NoCause)

\* A replica starts: it purges the inactive saved sessions, records first.
StartPurge(r) ==
    /\ req[r] = Idle
    /\ InactiveSaved # {}
    /\ RemoveRecords(InactiveSaved)
    /\ Become(r, [pc |-> "purge", left |-> InactiveSaved])
    /\ UNCHANGED messages
    /\ Observe(NoCause)

PurgeCheckpoint(r) ==
    /\ req[r].pc = "purge"
    /\ \E t \in req[r].left :
         /\ messages' = [messages EXCEPT ![t] = 0]
         /\ Become(r, IF req[r].left = {t}
                        THEN Idle ELSE [req[r] EXCEPT !.left = req[r].left \ {t}])
    /\ UNCHANGED <<records, older>>
    /\ Observe(NoCause)

-----------------------------------------------------------------------------
Claim(b, a, S) ==
    /\ Claimable(b, a, S) # {}
    /\ ClaimSessions(b, a, S)
    /\ UNCHANGED <<messages, req>>
    /\ Observe([t \in Threads |->
         IF \E u \in Claimable(b, a, S), r \in Requests : Spoils(req[r], u, a, t)
           THEN Raced ELSE Calm])

\* A timeout, an exception, a disconnected client or a replica's death ends a
\* handler where it stands; both stores stay as they are.
CutCause(r) ==
    CASE req[r].pc = "delete_record" ->
           [t \in Threads |-> IF t = req[r].thread THEN Uneven ELSE Calm]
      [] req[r].pc = "wipe" ->
           [t \in Threads |-> IF t \in req[r].targets \ req[r].left
                                THEN Uneven ELSE Calm]
      [] req[r].pc = "purge" ->
           [t \in Threads |-> IF t \in req[r].left THEN PurgeCut ELSE Calm]
      [] OTHER -> NoCause

Abandon(r) ==
    /\ req[r] # Idle
    /\ Become(r, Idle)
    /\ UNCHANGED <<records, older, messages>>
    /\ Observe(CutCause(r))

\* The retention period is at least 30 days: no handler is in flight that long.
RetentionElapses ==
    /\ \A r \in Requests : req[r] = Idle
    /\ AgeRecords
    /\ UNCHANGED <<messages, req>>
    /\ Observe(NoCause)

-----------------------------------------------------------------------------
TurnStep(r) ==
    \/ \E b \in Browsers, a \in Owners, s \in SessionIds, k \in Kinds :
          StartTurn(r, b, a, s, k)
    \/ RegisterFirst(r)
    \/ CheckResume(r)
    \/ LoadGraph(r)
    \/ SaveStep(r)
    \/ Answer(r)
    \/ RegisterFinal(r)

DeletionStep(r) ==
    \/ \E b \in Browsers, a \in Owners, s \in SessionIds : StartDelete(r, b, a, s)
    \/ DeleteCheckpoint(r)
    \/ DeleteRecord(r)
    \/ \E a \in Accounts : StartAccountDeletion(r, a)
    \/ WipeCheckpoint(r)
    \/ FinishAccountDeletion(r)
    \/ StartPurge(r)
    \/ PurgeCheckpoint(r)

Next ==
    \/ \E r \in Requests : TurnStep(r) \/ DeletionStep(r) \/ Abandon(r)
    \/ \E b \in Browsers, a \in Accounts, S \in SUBSET SessionIds : Claim(b, a, S)
    \/ RetentionElapses

Spec == Init /\ [][Next]_vars

-----------------------------------------------------------------------------
(***************************************************************************)
(* What is right about the code                                            *)
(***************************************************************************)

\* register_turn never raises "Checkpoint thread identity is immutable": a turn
\* resolved to another browser's record still registers under that browser, even
\* when the record was deleted and opened again while the turn ran.
IdentityNeverConflicts ==
    \A r \in Requests :
        IsTurn(req[r]) =>
            IdentityMatches(req[r].thread, req[r].owner, req[r].session)

Orphan(t) == messages[t] > 0 /\ ~Has(t)

\* A checkpoint outlives its registry record only if a deletion ran side by side
\* with another handler of the same session, or a startup purge was cut short:
\* an interrupted delete_session or user.deleted leaves a record to retry with.
OrphanOnlyByRace ==
    \A t \in Threads :
        Orphan(t) /\ Settled(t) =>
            disturbed[t] >= PurgeCut

\* The message count listed for a session is backed by its checkpoint, unless
\* two turns ran at once on the thread or a deletion was disturbed.
CountBacked ==
    \A t \in Threads :
        Has(t) /\ disturbed[t] = Calm /\ Deleting(t) = {} =>
            records[t].count <= messages[t]

\* The refinement mapping: who a conversation belongs to.
Owner == [t \in Threads |-> IF Has(t) THEN records[t].account ELSE NoRecord]

Ownership == INSTANCE SessionOwnership WITH
    Guest <- NoAccount, Nobody <- NoRecord, owner <- Owner

\* A saved conversation stays its account's until it is removed: no turn, claim
\* or race gives it to another account or back to the guest.
OwnershipSpec == Ownership!Spec

\* The two stores agree: a checkpoint without a record is left only by a race
\* with a deletion or a cut purge, and a listed message count is in the
\* checkpoint.
StoresAgree == OrphanOnlyByRace /\ CountBacked

=============================================================================
