--------------------------- MODULE SessionRegistry ---------------------------
(***************************************************************************)
(* The session registry: the index that says which browser and which       *)
(* account own a conversation.  Each operation is one SQL statement (or    *)
(* one critical section of the memory registry), hence one atomic step.    *)
(*                                                                         *)
(* Titles, locales and creation times are left out; updated_at is kept     *)
(* only as the order of the records' last writes and as the question       *)
(* whether a write is older than the retention period.                     *)
(***************************************************************************)
EXTENDS Naturals

CONSTANTS
    Browsers,    \* browser owners, the signed cookie's principals
    SessionIds,  \* public session identifiers chosen by clients
    Accounts,    \* opaque account owners
    NoAccount,   \* the absence of a signed-in account
    NoRecord     \* the absence of a registry row

ASSUME NoAccountAssumption == NoAccount \notin Accounts

VARIABLES
    records,  \* records[t]: the row whose primary key is thread t, or NoRecord
    older     \* older[t]: the threads whose last write precedes t's

registryVars == <<records, older>>

(***************************************************************************)
(* private_thread_id hashes the browser owner with the public session id:  *)
(* a distinct thread for each pair.                                        *)
(***************************************************************************)
Threads == Browsers \X SessionIds
PrivateThread(b, s) == <<b, s>>

Owners == Accounts \cup {NoAccount}

Record == [browser : Browsers, session : SessionIds, account : Owners,
           count : Nat, stale : BOOLEAN]

ASSUME NoRecordAssumption == NoRecord \notin Record

Has(t) == records[t] # NoRecord

RegistryInit ==
    /\ records = [t \in Threads |-> NoRecord]
    /\ older = [t \in Threads |-> {}]

\* The threads in S become the most recently written ones.
Touch(S) ==
    older' = [t \in Threads |-> IF t \in S THEN older[t] \cup (Threads \ S)
                                           ELSE older[t] \ S]

-----------------------------------------------------------------------------
\* What a principal may reach: its browser's record, or its account's.
Accessible(b, a, s) ==
    {t \in Threads :
        /\ Has(t)
        /\ records[t].session = s
        /\ \/ records[t].browser = b
           \/ a # NoAccount /\ records[t].account = a}

\* The most recently updated accessible record, if there is one.
FindAccessible(b, a, s) ==
    LET C == Accessible(b, a, s) IN {t \in C : C \subseteq older[t] \cup {t}}

\* An identity mismatch is the ValueError of register_turn: no row is written.
IdentityMatches(t, b, s) ==
    Has(t) => records[t].browser = b /\ records[t].session = s

Larger(m, n) == IF m < n THEN n ELSE m

\* Mutant: account and browser owner keys swapped in the INSERT.
NewRecordSwapped(b, a, s, n) ==
    [browser |-> b, session |-> s, account |-> b, count |-> n, stale |-> FALSE]

NewRecord(b, a, s, n) ==
    [browser |-> b, session |-> s, account |-> a, count |-> n, stale |-> FALSE]

\* Mutant: the turn's account replaces the stored one.
MergedAccountLatest(old, new) == new

\* COALESCE(stored account, the turn's account)
MergedAccount(old, new) == IF old = NoAccount THEN new ELSE old

UpdatedRecord(old, a, n) ==
    [old EXCEPT !.account = MergedAccount(old.account, a),
                !.count = Larger(old.count, n),
                !.stale = FALSE]

RegisterTurn(t, b, a, s, n) ==
    /\ IdentityMatches(t, b, s)
    /\ records' = [records EXCEPT ![t] =
         IF Has(t) THEN UpdatedRecord(records[t], a, n) ELSE NewRecord(b, a, s, n)]
    /\ Touch({t})

Claimable(b, a, S) ==
    {t \in Threads : /\ Has(t)
                     /\ records[t].browser = b
                     /\ records[t].session \in S
                     /\ records[t].account \in {NoAccount, a}}

ClaimSessions(b, a, S) ==
    /\ records' = [t \in Threads |->
         IF t \in Claimable(b, a, S)
           THEN [records[t] EXCEPT !.account = a, !.stale = FALSE]
           ELSE records[t]]
    /\ Touch(Claimable(b, a, S))

RemoveRecords(S) ==
    /\ records' = [t \in Threads |-> IF t \in S THEN NoRecord ELSE records[t]]
    /\ UNCHANGED older

AccountThreads(a) == {t \in Threads : Has(t) /\ records[t].account = a}

Saved(t) == Has(t) /\ records[t].account # NoAccount

\* updated_at < before, for a bound that is the retention period ago.
InactiveSaved == {t \in Threads : Saved(t) /\ records[t].stale}

\* The retention period goes by without a write (a guest's record never falls
\* under the purge, and a claim writes it afresh: its age is not kept).
AgeRecords ==
    /\ \E t \in Threads : Saved(t) /\ ~records[t].stale
    /\ records' = [t \in Threads |-> IF Saved(t) THEN [records[t] EXCEPT !.stale = TRUE]
                                                 ELSE records[t]]
    /\ UNCHANGED older
=============================================================================
