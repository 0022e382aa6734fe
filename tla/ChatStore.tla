------------------------------- MODULE ChatStore ------------------------------
(***************************************************************************)
(* One browser tab: frontend/src/stores/chat-store.ts with the components  *)
(* that call it (composer, history panel, gate card), the streams it reads *)
(* (lib/api/stream.ts) and what the API sends on them (chat_stream, the    *)
(* snapshot, resume_chat and delete_session of src/api/main.py).           *)
(*                                                                         *)
(* A callback of a stream, a snapshot, a resume or a deletion acts on the  *)
(* store as it is then, which may show another conversation by now.        *)
(***************************************************************************)
EXTENDS Naturals, Sequences, FiniteSets

CONSTANTS
    Sessions,   \* conversations
    Earlier,    \* those of earlier visits, which wait for a decision
    Streams,    \* slots of chat requests; a slot is used again when it is free
    MaxClicks,  \* bound on what the user does
    None        \* no conversation, request or gate

ASSUME TabAssumption ==
    /\ Earlier \subseteq Sessions /\ MaxClicks \in Nat
    /\ None \notin Sessions \cup Streams
    /\ Streams \cap {"resume", "delete"} = {}

\* What the server has of a conversation, and the slots nobody uses.
ThreadStates == {"absent", "idle", "waiting", "gone"}
Phases == {"free", "sent", "running", "ended", "abandoned"}
Free == [of |-> None, phase |-> "free", left |-> <<>>]

VARIABLES
    session,      \* sessionId
    streaming,    \* isStreaming
    controller,   \* abortController: the stream it aborts
    text,         \* streamingContent: the conversations whose tokens it holds
    shown,        \* messages of the assistant: the conversations they are of
    view,         \* components, budget, handbook: the conversation they are of
    gate,         \* interruptData: the conversation it is of
    stream,       \* per slot: its conversation, its phase and the events to come
    opening,      \* conversations whose snapshot was asked for
    resuming,     \* the conversation a decision was sent for
    deleting,     \* the deletion under way: its conversation, and the one shown then
    thread,       \* per conversation: its state on the server
    clicks,       \* how often the user did something
    loose,        \* history: calls made for a view the store has left since
    mixed,        \* history: such a call was applied to the present view
    crossed       \* history: a stream under way was left for another view or message

store == <<session, streaming, controller, text, shown, view, gate>>
calls == <<opening, resuming, deleting>>
history == <<loose, mixed, crossed>>
vars == <<store, stream, calls, thread, clicks, history>>

\* The streams the tab still reads; the server may go on with others.
Live == {i \in Streams : stream[i].phase \notin {"free", "abandoned"}}
Slots == {i \in Streams : stream[i].phase = "free"}

\* What another view or message leaves behind.
Crosses == crossed' = (crossed \/ Live # {})
KeepsCrossed == crossed' = (crossed /\ Live' # {})
Left(others) ==
    loose \cup others \cup (IF resuming = None THEN {} ELSE {"resume"})
          \cup (IF deleting = None THEN {} ELSE {"delete"})

Init ==
    /\ session = None /\ streaming = FALSE /\ controller = None
    /\ text = {} /\ shown = {} /\ view = None /\ gate = None
    /\ stream = [i \in Streams |-> Free]
    /\ opening = {} /\ resuming = None /\ deleting = None
    /\ thread = [s \in Sessions |-> IF s \in Earlier THEN "waiting" ELSE "absent"]
    /\ clicks = 0 /\ loose = {} /\ mixed = FALSE /\ crossed = FALSE

-----------------------------------------------------------------------------
(* The composer.                                                            *)

\* A conversation without an id gets a fresh one from the server.
Unused ==
    {s \in Sessions : thread[s] = "absent" /\ \A i \in Streams \ Slots : stream[i].of # s}

Click == clicks < MaxClicks /\ clicks' = clicks + 1

Send(i) ==
    /\ Click
    /\ ~streaming /\ Slots # {} /\ i = CHOOSE j \in Streams : j \in Slots
    /\ session # None \/ Unused # {}
    /\ LET s == IF session # None THEN session ELSE CHOOSE fresh \in Unused : TRUE
       IN  stream' = [stream EXCEPT ![i] = [Free EXCEPT !.of = s, !.phase = "sent"]]
    /\ streaming' = TRUE
    /\ controller' = i
    /\ text' = {} /\ gate' = None
    /\ Crosses
    /\ UNCHANGED <<session, shown, view, calls, thread, loose, mixed>>

\* Mutant: aborting the request is forgotten.
NeverAborted(i) == stream

\* The tab reads nothing more of it; what the server does for it goes on until it
\* notices that the connection is closed.
Abandoned(request) ==
    IF request.phase \in {"free", "ended"} THEN Free
    ELSE [Free EXCEPT !.of = request.of, !.phase = "abandoned"]

Aborted(i) == IF i = None THEN stream ELSE [stream EXCEPT ![i] = Abandoned(@)]

Stop ==
    /\ Click
    /\ streaming
    /\ stream' = Aborted(controller)
    /\ shown' = shown \cup text
    /\ streaming' = FALSE /\ text' = {} /\ controller' = None
    /\ KeepsCrossed
    /\ UNCHANGED <<session, view, gate, calls, thread, loose, mixed>>

\* The store begins anew; what else is under way was for the view it left.
Cleared ==
    /\ stream' = Aborted(controller)
    /\ session' = None /\ streaming' = FALSE /\ controller' = None
    /\ text' = {} /\ shown' = {} /\ view' = None /\ gate' = None
    /\ mixed' = FALSE
    /\ KeepsCrossed

Clear ==
    /\ Click
    /\ Cleared /\ loose' = Left(Live \ {controller})
    /\ UNCHANGED <<calls, thread>>

\* sessionStorage keeps the messages and the id; the page's requests end.
Reload ==
    /\ Click
    /\ stream' = [i \in Streams |-> Abandoned(stream[i])]
    /\ streaming' = FALSE /\ controller' = None
    /\ text' = {} /\ view' = None /\ gate' = None
    /\ opening' = {} /\ resuming' = None /\ deleting' = None
    /\ loose' = {} /\ crossed' = FALSE
    /\ UNCHANGED <<session, shown, thread, mixed>>

-----------------------------------------------------------------------------
(* The server's side of a stream.  Nothing keeps two runs off one thread.   *)

Run(i) ==
    LET s == stream[i].of IN
    /\ stream[i].phase = "sent"
    /\ thread' = [thread EXCEPT ![s] = "idle"]
    /\ stream' = [stream EXCEPT ![i].phase = "running", ![i].left = <<"session">>]
    /\ UNCHANGED <<store, calls, clicks, history>>

\* What _event_generator sends after the graph ended.  The update of a gate is
\* a tuple, which the loop over updates does not expect: an error event comes
\* first.  An error leaves a next node, which is reported as an interrupt
\* without data.
Endings ==
    {[state |-> "idle", events |-> <<"token", "done">>],
     [state |-> "idle", events |-> <<"error", "pause", "token", "paused">>],
     [state |-> "waiting", events |-> <<"error", "interrupt", "token", "waits">>]}

EndRun(i) ==
    /\ stream[i].phase = "running"
    /\ \E ending \in Endings :
          /\ stream' = [stream EXCEPT ![i].phase = "ended",
                                      ![i].left = @ \o ending.events]
          /\ thread' = [thread EXCEPT ![stream[i].of] = ending.state]
    /\ UNCHANGED <<store, calls, clicks, history>>

\* A request the tab has left may still begin, save a step, or end its turn, until
\* the server notices and cancels it.
LeftSaves(i) ==
    /\ stream[i].phase = "abandoned"
    /\ thread' = [thread EXCEPT ![stream[i].of] = "idle"]
    /\ UNCHANGED <<store, stream, calls, clicks, history>>

LeftEnds(i) ==
    /\ stream[i].phase = "abandoned"
    /\ stream' = [stream EXCEPT ![i] = Free]
    /\ \E ending \in Endings : thread' = [thread EXCEPT ![stream[i].of] = ending.state]
    /\ UNCHANGED <<store, calls, clicks, history>>

LeftCancelled(i) ==
    /\ stream[i].phase = "abandoned"
    /\ stream' = [stream EXCEPT ![i] = Free]
    /\ UNCHANGED <<store, calls, thread, clicks, history>>

-----------------------------------------------------------------------------
(* streamChat reads the events; the callbacks of sendMessage apply them.    *)

\* A callback of a stream the store has moved on from.
Strays(call) == mixed' = (mixed \/ call \in loose)

Read(i, event) ==
    /\ stream[i].left # <<>>
    /\ Head(stream[i].left) = event
    /\ stream' = [stream EXCEPT ![i].left = Tail(@)]
    /\ Strays(i)
    /\ UNCHANGED <<calls, thread, clicks, crossed>>

Ends(i) ==
    /\ stream' = [stream EXCEPT ![i] = Abandoned(@)]
    /\ loose' = loose \ {i}
    /\ Strays(i)
    /\ KeepsCrossed

OnSession(i) ==
    /\ Read(i, "session")
    /\ session' = stream[i].of
    /\ loose' = loose \cup (IF deleting = None \/ session' = session THEN {} ELSE {"delete"})
    /\ UNCHANGED <<streaming, controller, text, shown, view, gate>>

OnToken(i) ==
    /\ Read(i, "token")
    /\ text' = text \cup {stream[i].of}
    /\ UNCHANGED <<loose, session, streaming, controller, shown, view, gate>>

\* The text so far becomes a message, and the turn is over for the store.
Settle ==
    /\ shown' = shown \cup text
    /\ text' = {} /\ streaming' = FALSE /\ controller' = None

OnInterrupt(i) ==
    /\ \/ Read(i, "interrupt") /\ gate' = stream[i].of
       \/ Read(i, "pause") /\ gate' = None
    /\ Settle
    /\ UNCHANGED <<loose, session, view>>

\* Mutant: an error is shown and the turn goes on.
Unfinished == UNCHANGED <<streaming, controller, text>>

Fails == streaming' = FALSE /\ controller' = None /\ text' = {}

OnError(i) ==
    /\ Read(i, "error")
    /\ Fails
    /\ UNCHANGED <<loose, session, shown, view, gate>>

LastEvent(i, event) ==
    /\ stream[i].left # <<>> /\ Head(stream[i].left) = event
    /\ Ends(i)
    /\ UNCHANGED <<calls, thread, clicks>>

\* The payload names what the thread holds; a paused run without data keeps
\* the gate the store has, one that is not paused has none.
OnDone(i) ==
    /\ \/ LastEvent(i, "waits") /\ gate' = stream[i].of
       \/ LastEvent(i, "paused") /\ UNCHANGED gate
       \/ LastEvent(i, "done") /\ gate' = None
    /\ Settle
    /\ view' = stream[i].of
    /\ UNCHANGED session

\* A refused request, a lost connection: onError; a body that ends early:
\* onDone with an empty payload, which leaves gate and components alone.
Lost(i) ==
    /\ i \in Live
    /\ Ends(i)
    /\ \/ Fails /\ UNCHANGED shown
       \/ stream[i].phase # "sent" /\ Settle
    /\ UNCHANGED <<session, view, gate, calls, thread, clicks>>

-----------------------------------------------------------------------------
(* The history panel.                                                       *)

Saved == {s \in Sessions : thread[s] \notin {"absent", "gone"}}

Open(s) ==
    /\ Click
    /\ s \in Saved
    /\ opening' = opening \cup {s}
    /\ UNCHANGED <<store, stream, resuming, deleting, thread, history>>

OpenFails(s) ==
    /\ s \in opening
    /\ opening' = opening \ {s}
    /\ UNCHANGED <<store, stream, resuming, deleting, thread, clicks, history>>

\* restoreSnapshot aborts nothing: it only drops the controller.
Restore(s) ==
    /\ s \in opening /\ s \in Saved
    /\ opening' = opening \ {s}
    /\ session' = s /\ streaming' = FALSE /\ controller' = None
    /\ text' = {} /\ shown' = {s} /\ view' = s
    /\ gate' = IF thread[s] = "waiting" THEN s ELSE None
    /\ loose' = Left(Live)
    /\ mixed' = FALSE
    /\ Crosses
    /\ UNCHANGED <<stream, resuming, deleting, thread, clicks>>

\* remove compares with the conversation that was shown when it was called.
Delete(s) ==
    /\ Click
    /\ s \in Saved /\ deleting = None
    /\ deleting' = [of |-> s, current |-> session, done |-> FALSE]
    /\ UNCHANGED <<store, stream, opening, resuming, thread, history>>

\* Mutant: the panel compares nothing and clears the chat.
ClearsAny == TRUE

ClearsView == deleting.current = deleting.of

DeleteAnswers ==
    /\ deleting # None
    /\ deleting' = None
    /\ IF deleting.done /\ ClearsView
       THEN Cleared /\ loose' = Left(Live \ {controller}) \ {"delete"}
       ELSE /\ loose' = loose \ {"delete"}
            /\ UNCHANGED <<store, stream, mixed, crossed>>
    /\ UNCHANGED <<opening, resuming, thread, clicks>>

\* The server deletes it at any time before its answer, or refuses.
Gone ==
    /\ deleting # None /\ ~deleting.done
    /\ deleting' = [deleting EXCEPT !.done = TRUE]
    /\ thread' = [thread EXCEPT ![deleting.of] = "gone"]
    /\ UNCHANGED <<store, stream, opening, resuming, clicks, history>>

-----------------------------------------------------------------------------
(* The gate card.                                                           *)

Submit ==
    /\ Click
    /\ gate # None /\ session # None /\ resuming = None
    /\ resuming' = session
    /\ UNCHANGED <<store, stream, opening, deleting, thread, history>>

Decided ==
    /\ resuming' = None
    /\ loose' = loose \ {"resume"}

ResumeFails ==
    /\ resuming # None
    /\ Decided
    /\ UNCHANGED <<store, stream, opening, deleting, thread, clicks, mixed, crossed>>

\* applyResumeResponse does not compare conversations.
ResumeAnswers ==
    /\ resuming # None /\ resuming \in Saved
    /\ Decided
    /\ Strays("resume")
    /\ shown' = shown \cup {resuming}
    /\ view' = resuming
    /\ \E again \in BOOLEAN :
          /\ gate' = IF again THEN resuming ELSE None
          /\ thread' = [thread EXCEPT ![resuming] = IF again THEN "waiting" ELSE "idle"]
    /\ UNCHANGED <<session, streaming, controller, text, stream, opening, deleting, clicks, crossed>>

-----------------------------------------------------------------------------
Progress(i) ==
    \/ Run(i) \/ EndRun(i) \/ Lost(i)
    \/ OnSession(i) \/ OnToken(i) \/ OnInterrupt(i) \/ OnError(i) \/ OnDone(i)

Next ==
    \/ \E i \in Streams : Send(i) \/ Progress(i)
    \/ \E i \in Streams : LeftSaves(i) \/ LeftEnds(i) \/ LeftCancelled(i)
    \/ Stop \/ Clear \/ Reload
    \/ \E s \in Sessions : Open(s) \/ OpenFails(s) \/ Restore(s) \/ Delete(s)
    \/ DeleteAnswers \/ Gone
    \/ Submit \/ ResumeFails \/ ResumeAnswers

Spec == Init /\ [][Next]_vars

\* A stream goes on: its run ends, its events arrive, or its connection is lost.
FairSpec == Spec /\ \A i \in Streams : WF_vars(Progress(i))

-----------------------------------------------------------------------------
IsConversation(s) == s \in Sessions \cup {None}

\* The shapes of the variables; while the composer is locked there is a stream
\* that Stop can abort.
TypeOK ==
    /\ IsConversation(session) /\ IsConversation(view)
    /\ IsConversation(gate) /\ IsConversation(resuming)
    /\ streaming \in BOOLEAN /\ mixed \in BOOLEAN /\ crossed \in BOOLEAN
    /\ controller \in Streams \cup {None}
    /\ text \subseteq Sessions /\ shown \subseteq Sessions /\ opening \subseteq Sessions
    /\ \A i \in Streams :
          /\ stream[i].phase \in Phases
          /\ IsConversation(stream[i].of)
    /\ deleting # None => deleting.of \in Sessions
    /\ thread \in [Sessions -> ThreadStates] /\ clicks \in 0..MaxClicks
    /\ loose \subseteq Streams \cup {"resume", "delete"}
    /\ streaming <=> controller # None
    /\ streaming => controller \in Live

\* The messages, results and gate on the screen, and so the gate a decision is
\* sent for, are of the conversation whose id the tab holds: streams, snapshots,
\* resumes and deletions may answer in any order, as long as none is applied
\* that was called for a view the tab has left.
OneConversation ==
    ~mixed => shown \cup text \cup ({view, gate} \ {None}) \subseteq {session}

\* Of the requests of a tab whose turn is not over, the composer follows the only
\* one whose connection is open: Stop is never without a stream to abort, and a
\* message that is sent starts no second turn beside one that is still read;
\* except after a message or a snapshot overtook the last events of a stream. Turns
\* whose connection the tab closed may go on beside it, until the server notices.
FollowsItsTurn ==
    ~crossed => \A i \in Live : stream[i].phase = "ended" \/ (streaming /\ controller = i)

\* Deleting a conversation empties the tab exactly if it shows that one, unless
\* the tab moved on before the answer.
DeletionFollowsView ==
    [][(DeleteAnswers /\ deleting.done /\ "delete" \notin loose /\ ~mixed)
          => (session = deleting.of <=> session # session')]_vars

\* The composer is never locked for good.
StreamingEnds == streaming ~> ~streaming

\* The store shows one conversation and follows every turn it has not given up.
ViewIsConsistent == TypeOK /\ OneConversation /\ FollowsItsTurn

=============================================================================
