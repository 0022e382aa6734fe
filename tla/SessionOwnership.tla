-------------------------- MODULE SessionOwnership ---------------------------
(***************************************************************************)
(* What the session store promises about ownership, thread by thread: a    *)
(* conversation is opened as a guest's or as an account's, a guest's       *)
(* conversation may be saved to an account, and from then on it belongs to *)
(* that account until it is removed.                                       *)
(***************************************************************************)
CONSTANTS Threads, Accounts, Guest, Nobody

VARIABLE owner  \* owner[t]: an account, Guest, or Nobody

Init == owner = [t \in Threads |-> Nobody]

\* A first turn opens a conversation.
Open(t, o) ==
    /\ owner[t] = Nobody
    /\ owner' = [owner EXCEPT ![t] = o]

\* Guest conversations become one account's.
Save(S, a) ==
    /\ \A t \in S : owner[t] = Guest
    /\ owner' = [t \in Threads |-> IF t \in S THEN a ELSE owner[t]]

\* Conversations are deleted or purged.
Remove(S) ==
    owner' = [t \in Threads |-> IF t \in S THEN Nobody ELSE owner[t]]

Next ==
    \/ \E t \in Threads, o \in Accounts \cup {Guest} : Open(t, o)
    \/ \E S \in SUBSET Threads, a \in Accounts : Save(S, a)
    \/ \E S \in SUBSET Threads : Remove(S)

Spec == Init /\ [][Next]_owner
=============================================================================
