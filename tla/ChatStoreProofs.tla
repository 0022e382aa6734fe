---------------------------- MODULE ChatStoreProofs ----------------------------
(***************************************************************************)
(* Proofs about the chat store of a tab, for any conversations, any number *)
(* of request slots and of clicks.                                         *)
(***************************************************************************)
EXTENDS ChatStore, TLAPS

-----------------------------------------------------------------------------
(* The inductive invariant. *)

Conversation == Sessions \cup {None}
Event == {"session", "token", "error", "pause", "paused", "interrupt", "waits", "done"}
Request == [of : Conversation, phase : Phases,
            left : Seq(Event)]
Deletion == [of : Sessions, current : Conversation, done : BOOLEAN]

\* The event to come is the one that names the conversation.
NamesNext(request) == request.left # <<>> /\ Head(request.left) = "session"

\* A request under way is for a conversation; before the run has ended the
\* stream carries nothing but its name.
StreamsAreSound ==
    /\ stream \in [Streams -> Request]
    /\ \A i \in Streams :
          /\ i \in Live => stream[i].of \in Sessions
          /\ stream[i].phase \in {"free", "sent", "abandoned"} => stream[i].left = <<>>
          /\ stream[i].phase = "running" => stream[i].left \in {<<>>, <<"session">>}
    /\ deleting # None => deleting \in Deletion

\* What is under way for the present view is of the conversation the tab shows,
\* or it is the first request of one whose id the tab has not read yet.
CallsFollowView ==
    ~mixed =>
      /\ \A i \in Live \ loose :
            \/ stream[i].of = session
            \/ /\ session = None /\ controller = i
               /\ stream[i].phase = "sent" \/ NamesNext(stream[i])
      /\ resuming # None /\ "resume" \notin loose => resuming = session
      /\ deleting # None /\ "delete" \notin loose => deleting.current = session

\* One stream at a time, which the composer follows until its run has ended.
OneStream ==
    ~crossed =>
      /\ \A i, j \in Live : i = j
      /\ \A i \in Live : controller = i \/ stream[i].phase = "ended"

TabInv ==
    /\ TypeOK /\ StreamsAreSound
    /\ OneConversation /\ CallsFollowView /\ OneStream

-----------------------------------------------------------------------------
(* Slots.                                                                   *)

LEMMA FreeIsRequest == Free \in Request /\ Free.phase = "free" /\ Free.left = <<>>
  BY DEF Free, Request, Conversation, Phases

\* What a tab leaves is read no more.
LEMMA AbandonedIsLeft ==
    ASSUME NEW request \in Request
    PROVE  /\ Abandoned(request) \in Request
           /\ Abandoned(request).phase \in {"free", "abandoned"}
           /\ Abandoned(request).left = <<>>
<1>1. CASE request.phase \in {"free", "ended"}
  BY <1>1, FreeIsRequest DEF Abandoned
<1>2. CASE request.phase \notin {"free", "ended"}
  <2>1. request.of \in Conversation /\ "abandoned" \in Phases
    BY DEF Request, Phases
  <2> QED
    BY <1>2, <2>1, FreeIsRequest DEF Abandoned, Request, Free
<1> QED
  BY <1>1, <1>2

\* One slot changes.
LEMMA SlotUpdate ==
    ASSUME stream \in [Streams -> Request], NEW i \in Streams,
           NEW r \in Request, stream' = [stream EXCEPT ![i] = r]
    PROVE  /\ stream' \in [Streams -> Request]
           /\ stream'[i] = r
           /\ \A j \in Streams \ {i} : stream'[j] = stream[j]
           /\ \A j \in Streams : j \in Live' <=> stream'[j].phase \notin {"free", "abandoned"}
  BY DEF Live

\* Aborting a stream changes its slot and nothing else.
LEMMA AbortLeaves ==
    ASSUME stream \in [Streams -> Request], controller \in Streams \cup {None},
           stream' = Aborted(controller)
    PROVE  /\ stream' \in [Streams -> Request]
           /\ \A j \in Streams : j # controller => stream'[j] = stream[j]
           /\ controller \in Streams => /\ stream'[controller].phase \in {"free", "abandoned"}
                                        /\ stream'[controller].left = <<>>
           /\ Live' = Live \ {controller}
<1>1. CASE controller = None
  BY <1>1, TabAssumption DEF Aborted, Live
<1>2. CASE controller # None
  <2> DEFINE r == Abandoned(stream[controller])
  <2>1. controller \in Streams /\ stream' = [stream EXCEPT ![controller] = r]
    BY <1>2 DEF Aborted
  <2>2. r \in Request /\ r.phase \in {"free", "abandoned"} /\ r.left = <<>>
    BY <2>1, AbandonedIsLeft
  <2> HIDE DEF r
  <2> QED
    BY <2>1, <2>2, SlotUpdate DEF Live
<1> QED
  BY <1>1, <1>2

\* Reading an event takes it from its stream, and only the first one of a
\* stream comes before the run has ended.
LEMMA ReadTakes ==
    ASSUME TypeOK, StreamsAreSound, NEW i \in Streams, NEW event, Read(i, event)
    PROVE  /\ i \in Live /\ Live' = Live
           /\ StreamsAreSound'
           /\ \A j \in Streams \ {i} : stream'[j] = stream[j]
           /\ stream'[i].of = stream[i].of /\ stream'[i].phase = stream[i].phase
           /\ event # "session" => stream[i].phase = "ended" /\ ~ NamesNext(stream[i])
           /\ stream[i].phase # "sent"
           /\ ~ mixed' => ~ mixed /\ i \notin loose
<1> DEFINE r == [stream[i] EXCEPT !.left = Tail(stream[i].left)]
<1>1. stream[i] \in Request /\ stream[i].left \in Seq(Event) /\ stream[i].left # <<>>
  BY DEF StreamsAreSound, Request, Read
<1>2. Tail(stream[i].left) \in Seq(Event)
  BY <1>1
<1>3. /\ r \in Request /\ r.of = stream[i].of /\ r.phase = stream[i].phase
      /\ r.left = Tail(stream[i].left)
  BY <1>1, <1>2 DEF Request
<1>4. stream' = [stream EXCEPT ![i] = r] /\ stream \in [Streams -> Request]
  BY DEF Read, StreamsAreSound
<1> HIDE DEF r
<1>5. /\ stream' \in [Streams -> Request] /\ stream'[i] = r
      /\ \A j \in Streams \ {i} : stream'[j] = stream[j]
  BY <1>3, <1>4, SlotUpdate
<1>6. stream[i].phase \in {"running", "ended"}
  BY <1>1, <1>4 DEF StreamsAreSound, Request, Phases
<1>7. Live' = Live /\ i \in Live
  BY <1>3, <1>5, <1>6 DEF Live
<1>8. stream[i].phase = "running" => stream[i].left = <<"session">>
  BY <1>1 DEF StreamsAreSound
<1>9. StreamsAreSound'
  <2>1. stream[i].phase = "running" => r.left = <<>>
    <3>1. Tail(<<"session">>) = <<>>
      OBVIOUS
    <3> QED
      BY <3>1, <1>3, <1>8
  <2>2. UNCHANGED deleting
    BY DEF Read, calls
  <2> QED
    BY <1>3, <1>5, <1>6, <1>7, <2>1, <2>2 DEF StreamsAreSound
<1>10. event # "session" => stream[i].phase = "ended" /\ ~ NamesNext(stream[i])
  BY <1>6, <1>8 DEF Read, NamesNext
<1> QED
  BY <1>3, <1>5, <1>6, <1>7, <1>9, <1>10 DEF Read, Strays

-----------------------------------------------------------------------------
(* Every step keeps the invariant.                                          *)

LEMMA TabInitial == Init => TabInv
<1> SUFFICES ASSUME Init PROVE TabInv
  OBVIOUS
<1>1. \A i \in Streams : stream[i] = Free
  BY DEF Init
<1>2. Live = {}
  BY <1>1, FreeIsRequest DEF Live
<1>3. StreamsAreSound
  BY <1>1, <1>2, FreeIsRequest DEF Init, StreamsAreSound
<1>4. TypeOK
  <2>1. \A i \in Streams : stream[i].phase = "free" /\ stream[i].of = None
    BY <1>1 DEF Free
  <2>2. thread \in [Sessions -> ThreadStates]
    BY DEF Init, ThreadStates
  <2>3. (streaming <=> controller # None) /\ (streaming => controller \in Live)
    BY DEF Init
  <2>4. streaming \in BOOLEAN /\ mixed \in BOOLEAN /\ crossed \in BOOLEAN
    BY DEF Init
  <2>5. clicks \in 0..MaxClicks
    BY TabAssumption DEF Init
  <2>6. /\ IsConversation(session) /\ IsConversation(view)
        /\ IsConversation(gate) /\ IsConversation(resuming)
        /\ controller \in Streams \cup {None}
        /\ text \subseteq Sessions /\ shown \subseteq Sessions /\ opening \subseteq Sessions
        /\ deleting = None /\ loose = {}
    BY DEF Init, IsConversation
  <2>7. \A i \in Streams : IsConversation(stream[i].of)
    BY <2>1 DEF IsConversation
  <2> QED
    BY <2>1, <2>2, <2>3, <2>4, <2>5, <2>6, <2>7 DEF TypeOK, Phases
<1>5. OneConversation /\ CallsFollowView /\ OneStream
  BY <1>2 DEF Init, OneConversation, CallsFollowView, OneStream
<1> QED
  BY <1>3, <1>4, <1>5 DEF TabInv

\* A message goes to the conversation shown, or to a fresh one; the composer was
\* free, so that nothing else of the present view waits for its name.
LEMMA SendKeeps ==
    ASSUME TabInv, NEW i \in Streams, Send(i)
    PROVE  TabInv'
<1> DEFINE s == IF session # None THEN session ELSE CHOOSE fresh \in Unused : TRUE
           r == [Free EXCEPT !.of = s, !.phase = "sent"]
<1>1. s \in Sessions /\ (session # None => s = session)
  BY DEF Send, Unused, TabInv, TypeOK, IsConversation
<1>0. i \in Slots
  <2>1. \E j \in Streams : j \in Slots
    BY DEF Send, Slots
  <2>2. i = CHOOSE j \in Streams : j \in Slots
    BY DEF Send
  <2> QED
    BY <2>1, <2>2
<1>2. stream' = [stream EXCEPT ![i] = r] /\ i \in Slots
  BY <1>0 DEF Send
<1> HIDE DEF s
<1>3. r \in Request /\ r.of = s /\ r.phase = "sent" /\ r.left = <<>>
  <2>2. r.of = s /\ r.phase = "sent" /\ r.left = <<>>
    BY DEF Free
  <2> QED
    BY <1>1, <2>2, FreeIsRequest DEF Request, Conversation, Phases
<1> HIDE DEF r
<1>4. /\ stream' \in [Streams -> Request] /\ stream'[i] = r
      /\ \A j \in Streams \ {i} : stream'[j] = stream[j]
  BY <1>2, <1>3, SlotUpdate DEF TabInv, StreamsAreSound
<1>5. Live' = Live \cup {i}
  BY <1>3, <1>4 DEF Live
<1>6. /\ ~ streaming /\ streaming' = TRUE /\ controller' = i /\ controller = None
      /\ text' = {} /\ gate' = None /\ Crosses
      /\ UNCHANGED <<session, shown, view, opening, resuming, deleting, thread, loose, mixed>>
      /\ clicks < MaxClicks /\ clicks' = clicks + 1
  BY DEF Send, TabInv, TypeOK, calls, Click
<1>7. TypeOK'
  <2>1. clicks' \in 0..MaxClicks
    BY <1>6, TabAssumption DEF TabInv, TypeOK
  <2>2. i # None
    BY TabAssumption
  <2>3. crossed' \in BOOLEAN
    BY <1>6 DEF Crosses
  <2>4. \A j \in Streams : stream'[j].phase \in Phases
                          /\ stream'[j].of \in Sessions \cup {None}
    BY <1>4 DEF Request, Conversation
  <2> QED
    BY <1>5, <1>6, <2>1, <2>2, <2>3, <2>4 DEF TabInv, TypeOK, IsConversation
<1>8. StreamsAreSound'
  BY <1>1, <1>3, <1>4, <1>5, <1>6 DEF TabInv, StreamsAreSound
<1>9. OneConversation'
  BY <1>6 DEF TabInv, OneConversation
<1>10. CallsFollowView'
  BY <1>1, <1>3, <1>4, <1>5, <1>6, TabAssumption DEF TabInv, CallsFollowView, Live, NamesNext
<1>11. OneStream'
  BY <1>3, <1>4, <1>5, <1>6 DEF TabInv, OneStream, Crosses
<1> QED
  BY <1>7, <1>8, <1>9, <1>10, <1>11 DEF TabInv

\* The server starts a run, or ends it: no event is added before the one that
\* names the conversation.
LEMMA RunKeeps ==
    ASSUME TabInv, NEW i \in Streams, Run(i)
    PROVE  TabInv'
<1> DEFINE r == [stream[i] EXCEPT !.phase = "running", !.left = <<"session">>]
<1>1. stream[i] \in Request /\ stream[i].phase = "sent" /\ i \in Live
  BY DEF Run, TabInv, StreamsAreSound, Live
<1>2. stream' = [stream EXCEPT ![i] = r]
  BY DEF Run, TabInv, StreamsAreSound
<1>3. r \in Request /\ r.of = stream[i].of /\ r.phase = "running" /\ r.left = <<"session">>
  <2>1. <<"session">> \in Seq(Event)
    BY DEF Event
  <2> QED
    BY <1>1, <2>1 DEF Request, Phases
<1> HIDE DEF r
<1>4. /\ stream' \in [Streams -> Request] /\ stream'[i] = r
      /\ \A j \in Streams \ {i} : stream'[j] = stream[j]
  BY <1>2, <1>3, SlotUpdate DEF TabInv, StreamsAreSound
<1>5. Live' = Live
  BY <1>1, <1>3, <1>4 DEF Live
<1>6. /\ UNCHANGED <<session, streaming, controller, text, shown, view, gate>>
      /\ UNCHANGED <<opening, resuming, deleting, clicks, loose, mixed, crossed>>
  BY DEF Run, store, calls, history
<1>7. TypeOK'
  <2>1. thread' \in [Sessions -> ThreadStates]
    BY DEF Run, TabInv, TypeOK, ThreadStates
  <2>2. \A j \in Streams : stream'[j].phase \in Phases
                          /\ stream'[j].of \in Sessions \cup {None}
    BY <1>4 DEF Request, Conversation
  <2> QED
    BY <1>5, <1>6, <2>1, <2>2 DEF TabInv, TypeOK, IsConversation
<1>8. StreamsAreSound'
  BY <1>1, <1>3, <1>4, <1>5, <1>6 DEF TabInv, StreamsAreSound
<1>9. OneConversation'
  BY <1>6 DEF TabInv, OneConversation
<1>10. CallsFollowView'
  <2>1. NamesNext(r)
    BY <1>3 DEF NamesNext
  <2>2. ASSUME ~ mixed', NEW j \in (Live \ loose)'
        PROVE  (\/ stream[j].of = session
                \/ /\ session = None /\ controller = j
                   /\ stream[j].phase = "sent" \/ NamesNext(stream[j]))'
    <3>1. \/ stream[j].of = session
          \/ /\ session = None /\ controller = j
             /\ stream[j].phase = "sent" \/ NamesNext(stream[j])
      BY <1>5, <1>6, <2>2 DEF TabInv, CallsFollowView
    <3>2. j \in Streams
      BY <2>2 DEF Live
    <3> QED
      BY <1>3, <1>4, <1>6, <2>1, <3>1, <3>2 DEF NamesNext
  <2> QED
    BY <1>6, <2>2 DEF TabInv, CallsFollowView
<1>11. OneStream'
  BY <1>1, <1>3, <1>4, <1>5, <1>6 DEF TabInv, OneStream
<1> QED
  BY <1>7, <1>8, <1>9, <1>10, <1>11 DEF TabInv

LEMMA EndRunKeeps ==
    ASSUME TabInv, NEW i \in Streams, EndRun(i)
    PROVE  TabInv'
<1>0. PICK ending \in Endings :
         /\ stream' = [stream EXCEPT ![i].phase = "ended",
                                     ![i].left = @ \o ending.events]
         /\ thread' = [thread EXCEPT ![stream[i].of] = ending.state]
  BY DEF EndRun
<1> DEFINE r == [stream[i] EXCEPT !.phase = "ended", !.left = stream[i].left \o ending.events]
<1>e. ending.events \in Seq(Event) /\ ending.state \in ThreadStates
  <2>1. /\ <<"token", "done">> \in Seq(Event)
        /\ <<"error", "pause", "token", "paused">> \in Seq(Event)
        /\ <<"error", "interrupt", "token", "waits">> \in Seq(Event)
    BY DEF Event
  <2>2. CASE ending = [state |-> "idle", events |-> <<"token", "done">>]
    BY <2>1, <2>2 DEF ThreadStates
  <2>3. CASE ending = [state |-> "idle",
                       events |-> <<"error", "pause", "token", "paused">>]
    BY <2>1, <2>3 DEF ThreadStates
  <2>4. CASE ending = [state |-> "waiting",
                       events |-> <<"error", "interrupt", "token", "waits">>]
    BY <2>1, <2>4 DEF ThreadStates
  <2> QED
    BY <2>2, <2>3, <2>4 DEF Endings
<1>1. /\ stream[i] \in Request /\ stream[i].phase = "running" /\ i \in Live
      /\ stream[i].left \in Seq(Event) /\ stream[i].left \in {<<>>, <<"session">>}
  BY DEF EndRun, TabInv, StreamsAreSound, Live, Request
<1>2. stream' = [stream EXCEPT ![i] = r]
  BY <1>0 DEF TabInv, StreamsAreSound
<1>n. NamesNext(stream[i]) => Head(stream[i].left \o ending.events) = "session"
                              /\ stream[i].left \o ending.events # <<>>
  <2>1. SUFFICES ASSUME NamesNext(stream[i]) PROVE
               /\ Head(stream[i].left \o ending.events) = "session"
               /\ stream[i].left \o ending.events # <<>>
    OBVIOUS
  <2> DEFINE l == stream[i].left
             e == ending.events
  <2>2. l \in Seq(Event) /\ e \in Seq(Event) /\ Len(l) > 0 /\ l[1] = "session"
    BY <1>1, <1>e, <2>1 DEF NamesNext
  <2> HIDE DEF l, e
  <2>3. Len(l \o e) > 0 /\ (l \o e)[1] = "session" /\ l \o e \in Seq(Event)
    BY <2>2
  <2>4. Head(l \o e) = "session" /\ l \o e # <<>>
    BY <2>3
  <2> QED
    BY <2>4 DEF l, e
<1>3. /\ r \in Request /\ r.of = stream[i].of /\ r.phase = "ended"
      /\ NamesNext(stream[i]) => NamesNext(r)
  <2>1. stream[i].left \o ending.events \in Seq(Event)
    BY <1>1, <1>e
  <2> QED
    BY <1>1, <1>n, <2>1 DEF Request, NamesNext, Phases
<1> HIDE DEF r
<1>4. /\ stream' \in [Streams -> Request] /\ stream'[i] = r
      /\ \A j \in Streams \ {i} : stream'[j] = stream[j]
  BY <1>2, <1>3, SlotUpdate DEF TabInv, StreamsAreSound
<1>5. Live' = Live
  BY <1>1, <1>3, <1>4 DEF Live
<1>6. /\ UNCHANGED <<session, streaming, controller, text, shown, view, gate>>
      /\ UNCHANGED <<opening, resuming, deleting, clicks, loose, mixed, crossed>>
  BY DEF EndRun, store, calls, history
<1>7. TypeOK'
  <2>1. thread' \in [Sessions -> ThreadStates]
    BY <1>0, <1>e DEF TabInv, TypeOK
  <2>2. \A j \in Streams : stream'[j].phase \in Phases
                          /\ stream'[j].of \in Sessions \cup {None}
    BY <1>4 DEF Request, Conversation
  <2> QED
    BY <1>5, <1>6, <2>1, <2>2 DEF TabInv, TypeOK, IsConversation
<1>8. StreamsAreSound'
  BY <1>1, <1>3, <1>4, <1>5, <1>6 DEF TabInv, StreamsAreSound
<1>9. OneConversation'
  BY <1>6 DEF TabInv, OneConversation
<1>10. CallsFollowView'
  <2>1. ASSUME ~ mixed', NEW j \in (Live \ loose)'
        PROVE  (\/ stream[j].of = session
                \/ /\ session = None /\ controller = j
                   /\ stream[j].phase = "sent" \/ NamesNext(stream[j]))'
    <3>1. \/ stream[j].of = session
          \/ /\ session = None /\ controller = j
             /\ stream[j].phase = "sent" \/ NamesNext(stream[j])
      BY <1>5, <1>6, <2>1 DEF TabInv, CallsFollowView
    <3>2. j \in Streams
      BY <2>1 DEF Live
    <3>3. CASE j = i
      BY <1>1, <1>3, <1>4, <1>6, <3>1, <3>3 DEF NamesNext
    <3>4. CASE j # i
      BY <1>4, <1>6, <3>1, <3>2, <3>4 DEF NamesNext
    <3> QED
      BY <3>3, <3>4
  <2> QED
    BY <1>6, <2>1 DEF TabInv, CallsFollowView
<1>11. OneStream'
  <2>1. ASSUME ~ crossed', NEW j \in Live', NEW k \in Live'
        PROVE  j = k /\ (controller' = j \/ stream'[j].phase = "ended")
    <3>1. j = k /\ (controller = j \/ stream[j].phase = "ended") /\ j \in Streams
      BY <1>5, <1>6, <2>1 DEF TabInv, OneStream, Live
    <3> QED
      BY <1>3, <1>4, <1>6, <3>1
  <2> QED
    BY <2>1 DEF OneStream
<1> QED
  BY <1>7, <1>8, <1>9, <1>10, <1>11 DEF TabInv

-----------------------------------------------------------------------------
(* The callbacks.                                                           *)

\* An event of a stream that was left is not for this view, and any other one is
\* of its conversation, unless it is the first.
LEMMA EventIsOfView ==
    ASSUME TabInv, NEW i \in Streams, NEW event, Read(i, event), ~ mixed',
           event # "session"
    PROVE  stream[i].of = session /\ ~ mixed /\ stream[i].of \in Sessions
<1>1. i \in Live \ loose /\ ~ mixed /\ stream[i].phase = "ended" /\ ~ NamesNext(stream[i])
  BY ReadTakes DEF TabInv
<1> QED
  BY <1>1 DEF TabInv, CallsFollowView, StreamsAreSound

\* What reading an event keeps when the store shows the same conversation after
\* it and follows the same stream, or, with the run ended, none.
LEMMA EventKeeps ==
    ASSUME TabInv, NEW i \in Streams, NEW event, Read(i, event), event # "session",
           UNCHANGED <<session, loose>>,
           \/ UNCHANGED <<streaming, controller>>
           \/ streaming' = FALSE /\ controller' = None,
           text' \subseteq Sessions, shown' \subseteq Sessions,
           view' \in Conversation, gate' \in Conversation,
           ~ mixed' => OneConversation'
    PROVE  TabInv'
<1>1. /\ i \in Live /\ Live' = Live /\ StreamsAreSound'
      /\ \A j \in Streams \ {i} : stream'[j] = stream[j]
      /\ stream'[i].of = stream[i].of /\ stream'[i].phase = stream[i].phase
      /\ stream[i].phase = "ended" /\ ~ NamesNext(stream[i])
      /\ ~ mixed' => ~ mixed /\ i \notin loose
  BY ReadTakes DEF TabInv
<1>2. /\ UNCHANGED <<opening, resuming, deleting, thread, clicks, crossed>>
      /\ mixed' \in BOOLEAN
  BY DEF Read, calls, Strays, TabInv, TypeOK
<1>3. TypeOK'
  <2>1. \A j \in Streams : stream'[j].phase \in Phases
                          /\ stream'[j].of \in Sessions \cup {None}
    BY <1>1 DEF StreamsAreSound, Request, Conversation
  <2>2. (streaming <=> controller # None)' /\ (streaming => controller \in Live)'
        /\ streaming' \in BOOLEAN /\ controller' \in Streams \cup {None}
    <3>1. CASE UNCHANGED <<streaming, controller>>
      BY <1>1, <3>1 DEF TabInv, TypeOK
    <3>2. CASE streaming' = FALSE /\ controller' = None
      BY <3>2
    <3> QED
      BY <3>1, <3>2
  <2> QED
    BY <1>2, <2>1, <2>2 DEF TabInv, TypeOK, IsConversation, Conversation
<1>4. CallsFollowView'
  <2>1. ASSUME ~ mixed', NEW j \in (Live \ loose)'
        PROVE  (\/ stream[j].of = session
                \/ /\ session = None /\ controller = j
                   /\ stream[j].phase = "sent" \/ NamesNext(stream[j]))'
    <3>0. j \in Live \ loose /\ i \in Live \ loose /\ j \in Streams
      BY <1>1, <2>1 DEF Live
    <3>1. stream[i].of = session /\ session \in Sessions
      BY <2>1, EventIsOfView
    <3>2. stream[j].of = session
      BY <1>1, <2>1, <3>0, <3>1, TabAssumption DEF TabInv, CallsFollowView
    <3> QED
      BY <1>1, <3>0, <3>2
  <2> QED
    BY <1>1, <1>2, <2>1 DEF TabInv, CallsFollowView
<1>5. OneStream'
  <2>1. ASSUME ~ crossed', NEW j \in Live', NEW k \in Live'
        PROVE  j = k /\ (controller' = j \/ stream'[j].phase = "ended")
    <3>1. j = k /\ j = i
      BY <1>1, <1>2, <2>1 DEF TabInv, OneStream
    <3> QED
      BY <1>1, <3>1
  <2> QED
    BY <2>1 DEF OneStream
<1>6. OneConversation'
  BY DEF OneConversation
<1> QED
  BY <1>1, <1>3, <1>4, <1>5, <1>6 DEF TabInv

LEMMA CallbacksKeep ==
    ASSUME TabInv, NEW i \in Streams, OnToken(i) \/ OnInterrupt(i) \/ OnError(i)
    PROVE  TabInv'
<1>0. /\ text \subseteq Sessions /\ shown \subseteq Sessions
      /\ view \in Conversation /\ gate \in Conversation
      /\ stream[i].of \in Conversation /\ None \in Conversation
  BY DEF TabInv, TypeOK, IsConversation, Conversation
<1>1. CASE OnToken(i)
  <2>1. /\ Read(i, "token") /\ text' = text \cup {stream[i].of}
        /\ UNCHANGED <<loose, session, streaming, controller, shown, view, gate>>
    BY <1>1 DEF OnToken
  <2>2. i \in Live
    BY <2>1, ReadTakes DEF TabInv
  <2>3. ~ mixed' => OneConversation'
    BY <2>1, EventIsOfView DEF OneConversation, TabInv
  <2>4. text' \subseteq Sessions
    BY <1>0, <2>1, <2>2 DEF TabInv, StreamsAreSound
  <2> QED
    BY <1>0, <2>1, <2>3, <2>4, EventKeeps
<1>2. CASE OnInterrupt(i)
  <2>0. PICK event \in {"interrupt", "pause"} :
           /\ Read(i, event) /\ gate' \in {stream[i].of, None}
    BY <1>2 DEF OnInterrupt
  <2>1. /\ shown' = shown \cup text /\ text' = {}
        /\ streaming' = FALSE /\ controller' = None
        /\ UNCHANGED <<loose, session, view>>
    BY <1>2 DEF OnInterrupt, Settle
  <2>2. event # "session"
    OBVIOUS
  <2>3. ~ mixed' => OneConversation'
    BY <2>0, <2>1, <2>2, EventIsOfView DEF OneConversation, TabInv
  <2> QED
    BY <1>0, <2>0, <2>1, <2>2, <2>3, EventKeeps
<1>3. CASE OnError(i)
  <2>1. /\ Read(i, "error") /\ text' = {}
        /\ streaming' = FALSE /\ controller' = None
        /\ UNCHANGED <<loose, session, shown, view, gate>>
    BY <1>3 DEF OnError, Fails
  <2>3. ~ mixed' => OneConversation'
    BY <2>1, EventIsOfView DEF OneConversation, TabInv
  <2> QED
    BY <1>0, <2>1, <2>3, EventKeeps
<1> QED
  BY <1>1, <1>2, <1>3

\* The first event gives the tab its conversation, which only a new one lacks.
LEMMA OnSessionKeeps ==
    ASSUME TabInv, NEW i \in Streams, OnSession(i)
    PROVE  TabInv'
<1>1. /\ Read(i, "session") /\ session' = stream[i].of
      /\ loose' = loose \cup (IF deleting = None \/ session' = session THEN {} ELSE {"delete"})
      /\ UNCHANGED <<streaming, controller, text, shown, view, gate>>
  BY DEF OnSession
<1>2. /\ i \in Live /\ Live' = Live /\ StreamsAreSound'
      /\ \A j \in Streams \ {i} : stream'[j] = stream[j]
      /\ stream'[i].of = stream[i].of /\ stream'[i].phase = stream[i].phase
      /\ stream[i].phase # "sent"
      /\ ~ mixed' => ~ mixed /\ i \notin loose
  BY <1>1, ReadTakes DEF TabInv
<1>3. /\ UNCHANGED <<opening, resuming, deleting, thread, clicks, crossed>>
      /\ mixed' \in BOOLEAN /\ stream[i].of \in Sessions
  BY <1>1, <1>2 DEF Read, calls, Strays, TabInv, TypeOK, StreamsAreSound
<1>4. TypeOK'
  <2>1. \A j \in Streams : stream'[j].phase \in Phases
                          /\ stream'[j].of \in Sessions \cup {None}
    BY <1>2 DEF StreamsAreSound, Request, Conversation
  <2>2. (streaming <=> controller # None)' /\ (streaming => controller \in Live)'
    BY <1>1, <1>2 DEF TabInv, TypeOK
  <2>3. loose' \subseteq Streams \cup {"resume", "delete"}
    BY <1>1 DEF TabInv, TypeOK
  <2> QED
    BY <1>1, <1>3, <2>1, <2>2, <2>3 DEF TabInv, TypeOK, IsConversation
<1>5. ~ mixed' => session' = session \/ session = None
  BY <1>1, <1>2 DEF TabInv, CallsFollowView
<1>6. OneConversation'
  BY <1>1, <1>2, <1>5, TabAssumption DEF TabInv, OneConversation, TypeOK
<1>7. CallsFollowView'
  <2>1. ASSUME ~ mixed', NEW j \in (Live \ loose)'
        PROVE  stream'[j].of = session'
    <3>0. j \in Live \ loose /\ i \in Live \ loose /\ j \in Streams
      BY <1>1, <1>2, <2>1 DEF Live
    <3>1. stream[j].of = stream[i].of
      BY <1>2, <1>3, <2>1, <3>0, TabAssumption DEF TabInv, CallsFollowView, StreamsAreSound
    <3> QED
      BY <1>1, <1>2, <3>0, <3>1
  <2>2. ASSUME ~ mixed', resuming' # None, "resume" \notin loose'
        PROVE  resuming' = session'
    BY <1>1, <1>2, <1>3, <1>5, <2>2 DEF TabInv, CallsFollowView
  <2>3. ASSUME ~ mixed', deleting' # None, "delete" \notin loose'
        PROVE  deleting'.current = session'
    BY <1>1, <1>2, <1>3, <2>3 DEF TabInv, CallsFollowView
  <2> QED
    BY <2>1, <2>2, <2>3 DEF CallsFollowView
<1>8. OneStream'
  <2>1. ASSUME ~ crossed', NEW j \in Live', NEW k \in Live'
        PROVE  j = k /\ (controller' = j \/ stream'[j].phase = "ended")
    <3>1. j = k /\ j = i /\ (controller = j \/ stream[j].phase = "ended")
      BY <1>2, <1>3, <2>1 DEF TabInv, OneStream
    <3> QED
      BY <1>1, <1>2, <3>1
  <2> QED
    BY <2>1 DEF OneStream
<1> QED
  BY <1>2, <1>4, <1>6, <1>7, <1>8 DEF TabInv

\* After the last event, or the loss of the connection, the slot is not read; the composer
\* is free, and the view is as before or of the conversation of the stream.
LEMMA EndKeeps ==
    ASSUME TabInv, NEW i \in Streams, i \in Live, Ends(i),
           streaming' = FALSE, controller' = None, text' = {},
           UNCHANGED <<session, opening, resuming, deleting, clicks>>,
           thread' \in [Sessions -> ThreadStates],
           shown' \subseteq Sessions, view' \in Conversation, gate' \in Conversation,
           ~ mixed /\ i \notin loose => OneConversation'
    PROVE  TabInv'
<1> DEFINE r == Abandoned(stream[i])
<1>0. /\ r \in Request /\ r.phase \in {"free", "abandoned"} /\ r.left = <<>>
      /\ stream' = [stream EXCEPT ![i] = r]
  BY AbandonedIsLeft DEF Ends, TabInv, StreamsAreSound
<1> HIDE DEF r
<1>1. /\ stream' \in [Streams -> Request]
      /\ stream'[i].phase \in {"free", "abandoned"} /\ stream'[i].left = <<>>
      /\ \A j \in Streams \ {i} : stream'[j] = stream[j]
  BY <1>0, SlotUpdate DEF TabInv, StreamsAreSound
<1>2. Live' = Live \ {i}
  BY <1>1 DEF Live
<1>3. /\ loose' = loose \ {i} /\ mixed' \in BOOLEAN /\ crossed' \in BOOLEAN
      /\ ~ mixed' => ~ mixed /\ i \notin loose
      /\ crossed' <=> crossed /\ Live' # {}
  BY DEF Ends, Strays, KeepsCrossed, TabInv, TypeOK
<1>4. TypeOK'
  <2>1. \A j \in Streams : stream'[j].phase \in Phases
                          /\ stream'[j].of \in Sessions \cup {None}
    BY <1>1 DEF Request, Conversation
  <2>2. (streaming <=> controller # None)' /\ (streaming => controller \in Live)'
    OBVIOUS
  <2>3. loose' \subseteq Streams \cup {"resume", "delete"}
    BY <1>3 DEF TabInv, TypeOK
  <2> QED
    BY <1>3, <2>1, <2>2, <2>3 DEF TabInv, TypeOK, IsConversation, Conversation
<1>5. StreamsAreSound'
  BY <1>1, <1>2, FreeIsRequest DEF TabInv, StreamsAreSound
<1>6. OneConversation'
  BY <1>3 DEF OneConversation
<1>7. CallsFollowView'
  <2>1. ASSUME ~ mixed', NEW j \in (Live \ loose)'
        PROVE  stream'[j].of = session'
    <3>0. j \in Live \ loose /\ i \in Live \ loose /\ j \in Streams /\ j # i
      BY <1>2, <1>3, <2>1 DEF Live
    <3>1. stream[j].of = session
      BY <1>3, <2>1, <3>0, TabAssumption DEF TabInv, CallsFollowView, StreamsAreSound
    <3> QED
      BY <1>1, <3>0, <3>1
  <2>2. i # "resume" /\ i # "delete"
    BY TabAssumption
  <2>3. ASSUME ~ mixed', resuming' # None, "resume" \notin loose'
        PROVE  resuming' = session'
    BY <1>3, <2>2, <2>3 DEF TabInv, CallsFollowView
  <2>4. ASSUME ~ mixed', deleting' # None, "delete" \notin loose'
        PROVE  deleting'.current = session'
    BY <1>3, <2>2, <2>4 DEF TabInv, CallsFollowView
  <2> QED
    BY <2>1, <2>3, <2>4 DEF CallsFollowView
<1>8. OneStream'
  BY <1>2, <1>3 DEF TabInv, OneStream
<1> QED
  BY <1>4, <1>5, <1>6, <1>7, <1>8 DEF TabInv

LEMMA OnDoneKeeps ==
    ASSUME TabInv, NEW i \in Streams, OnDone(i)
    PROVE  TabInv'
<1>1. PICK event \in {"waits", "paused", "done"} :
         LastEvent(i, event) /\ gate' \in {stream[i].of, gate, None}
  BY DEF OnDone
<1>2. /\ shown' = shown \cup text /\ text' = {}
      /\ streaming' = FALSE /\ controller' = None
      /\ view' = stream[i].of /\ UNCHANGED session
  BY DEF OnDone, Settle
<1>3. /\ Ends(i) /\ UNCHANGED <<opening, resuming, deleting, thread, clicks>>
      /\ stream[i].left # <<>> /\ Head(stream[i].left) = event /\ event # "session"
  BY <1>1 DEF LastEvent, calls
<1>4. i \in Live /\ stream[i].phase # "sent" /\ ~ NamesNext(stream[i])
  BY <1>3 DEF TabInv, StreamsAreSound, Live, NamesNext, Request, Phases
<1>5. /\ stream[i].of \in Sessions /\ shown' \subseteq Sessions /\ text \subseteq Sessions
      /\ view' \in Conversation /\ gate' \in Conversation
      /\ thread' \in [Sessions -> ThreadStates]
  BY <1>1, <1>2, <1>3, <1>4
     DEF TabInv, StreamsAreSound, TypeOK, IsConversation, Conversation
<1>6. ASSUME ~ mixed, i \notin loose
      PROVE  OneConversation'
  <2>1. stream[i].of = session
    BY <1>4, <1>6 DEF TabInv, CallsFollowView
  <2> QED
    BY <1>1, <1>2, <1>6, <2>1 DEF TabInv, OneConversation
<1> QED
  BY <1>2, <1>3, <1>4, <1>5, <1>6, EndKeeps

LEMMA LostKeeps ==
    ASSUME TabInv, NEW i \in Streams, Lost(i)
    PROVE  TabInv'
<1>1. /\ i \in Live /\ Ends(i)
      /\ UNCHANGED <<session, view, gate, opening, resuming, deleting, thread, clicks>>
  BY DEF Lost, calls
<1>2. /\ streaming' = FALSE /\ controller' = None /\ text' = {}
      /\ shown' \in {shown, shown \cup text}
  BY DEF Lost, Fails, Settle
<1>3. /\ shown' \subseteq Sessions /\ view' \in Conversation /\ gate' \in Conversation
      /\ thread' \in [Sessions -> ThreadStates]
  BY <1>1, <1>2 DEF TabInv, TypeOK, IsConversation, Conversation
<1>4. ~ mixed => OneConversation'
  BY <1>1, <1>2 DEF TabInv, OneConversation
<1> QED
  BY <1>1, <1>2, <1>3, <1>4, EndKeeps

-----------------------------------------------------------------------------
(* The user.                                                                *)

\* The stream the composer follows is given up, and with it, or with what is
\* known of the rest, the present view.
LEMMA AbortKeeps ==
    ASSUME TabInv, stream' = Aborted(controller), thread' = thread,
           streaming' = FALSE, controller' = None, text' = {},
           IsConversation(session'), IsConversation(view'), IsConversation(gate'),
           IsConversation(resuming'), shown' \subseteq Sessions,
           clicks' \in 0..MaxClicks, opening' = opening, deleting' \in {deleting, None},
           loose' \subseteq Streams \cup {"resume", "delete"}, mixed' \in BOOLEAN,
           KeepsCrossed, OneConversation', CallsFollowView'
    PROVE  TabInv'
<1>1. /\ stream' \in [Streams -> Request]
      /\ \A j \in Streams : j # controller => stream'[j] = stream[j]
      /\ controller \in Streams => /\ stream'[controller].phase \in {"free", "abandoned"}
                                   /\ stream'[controller].left = <<>>
      /\ Live' = Live \ {controller}
  BY AbortLeaves DEF TabInv, TypeOK, StreamsAreSound
<1>2. TypeOK'
  <2>1. \A j \in Streams : stream'[j].phase \in Phases
                          /\ stream'[j].of \in Sessions \cup {None}
    BY <1>1 DEF Request, Conversation
  <2>2. (streaming <=> controller # None)' /\ (streaming => controller \in Live)'
    OBVIOUS
  <2>3. crossed' \in BOOLEAN
    BY DEF KeepsCrossed
  <2>4. thread' \in [Sessions -> ThreadStates]
    BY DEF TabInv, TypeOK
  <2>5. deleting' # None => deleting'.of \in Sessions
    BY DEF TabInv, TypeOK
  <2> QED
    BY <2>1, <2>2, <2>3, <2>4, <2>5 DEF TabInv, TypeOK, IsConversation
<1>3. StreamsAreSound'
  <2>1. ASSUME NEW j \in Streams
        PROVE  /\ j \in Live' => stream'[j].of \in Sessions
               /\ stream'[j].phase \in {"free", "sent", "abandoned"} => stream'[j].left = <<>>
               /\ stream'[j].phase = "running" => stream'[j].left \in {<<>>, <<"session">>}
    <3>1. CASE j = controller
      BY <1>1, <3>1
    <3>2. CASE j # controller
      BY <1>1, <3>2 DEF TabInv, StreamsAreSound
    <3> QED
      BY <3>1, <3>2
  <2> QED
    BY <1>1, <2>1 DEF TabInv, StreamsAreSound
<1>4. OneStream'
  <2>1. ASSUME ~ crossed', NEW j \in Live', NEW k \in Live'
        PROVE  j = k /\ (controller' = j \/ stream'[j].phase = "ended")
    <3>1. ~ crossed
      BY <2>1 DEF KeepsCrossed
    <3>2. j \in Live /\ j # controller /\ j \in Streams /\ k \in Live
      BY <1>1, <2>1 DEF Live
    <3> QED
      BY <1>1, <3>1, <3>2 DEF TabInv, OneStream
  <2> QED
    BY <2>1 DEF OneStream
<1> QED
  BY <1>2, <1>3, <1>4 DEF TabInv

LEMMA StopKeeps ==
    ASSUME TabInv, Stop
    PROVE  TabInv'
<1>1. /\ streaming /\ stream' = Aborted(controller) /\ thread' = thread
      /\ shown' = shown \cup text /\ streaming' = FALSE /\ text' = {} /\ controller' = None
      /\ KeepsCrossed
      /\ UNCHANGED <<session, view, gate, opening, resuming, deleting, loose, mixed>>
      /\ clicks < MaxClicks /\ clicks' = clicks + 1
  BY DEF Stop, Click, calls
<1>2. /\ stream' \in [Streams -> Request]
      /\ \A j \in Streams : j # controller => stream'[j] = stream[j]
      /\ Live' = Live \ {controller}
  BY <1>1, AbortLeaves DEF TabInv, TypeOK, StreamsAreSound
<1>3. /\ IsConversation(session') /\ IsConversation(view') /\ IsConversation(gate')
      /\ IsConversation(resuming') /\ shown' \subseteq Sessions
      /\ clicks' \in 0..MaxClicks /\ mixed' \in BOOLEAN
      /\ loose' \subseteq Streams \cup {"resume", "delete"}
  BY <1>1, TabAssumption DEF TabInv, TypeOK, IsConversation
<1>4. OneConversation'
  BY <1>1 DEF TabInv, OneConversation
<1>5. CallsFollowView'
  <2>1. ASSUME ~ mixed', NEW j \in (Live \ loose)'
        PROVE  stream'[j].of = session'
    <3>0. j \in Live \ loose /\ j \in Streams /\ j # controller
      BY <1>1, <1>2, <2>1 DEF Live
    <3> QED
      BY <1>1, <1>2, <2>1, <3>0 DEF TabInv, CallsFollowView
  <2> QED
    BY <1>1, <2>1 DEF TabInv, CallsFollowView
<1> QED
  BY <1>1, <1>3, <1>4, <1>5, AbortKeeps

\* After the store began anew everything under way is for a view it has left.
LEMMA ClearedKeeps ==
    ASSUME TabInv, Cleared, thread' = thread, opening' = opening, resuming' = resuming,
           clicks' \in 0..MaxClicks,
           \/ deleting' = deleting /\ loose' = Left(Live \ {controller})
           \/ deleting' = None /\ loose' = Left(Live \ {controller}) \ {"delete"}
    PROVE  TabInv'
<1>1. /\ stream' = Aborted(controller)
      /\ session' = None /\ streaming' = FALSE /\ controller' = None
      /\ text' = {} /\ shown' = {} /\ view' = None /\ gate' = None
      /\ mixed' = FALSE /\ KeepsCrossed
  BY DEF Cleared
<1>2. Live' = Live \ {controller} /\ Live \subseteq Streams
  BY <1>1, AbortLeaves DEF TabInv, TypeOK, StreamsAreSound, Live
<1>3. /\ loose' \subseteq Streams \cup {"resume", "delete"}
      /\ Live' \subseteq loose'
      /\ resuming' # None => "resume" \in loose'
      /\ deleting' # None => "delete" \in loose'
  BY <1>2, TabAssumption DEF Left, TabInv, TypeOK
<1>4. /\ IsConversation(session') /\ IsConversation(view') /\ IsConversation(gate')
      /\ IsConversation(resuming') /\ shown' \subseteq Sessions /\ mixed' \in BOOLEAN
      /\ deleting' \in {deleting, None}
  BY <1>1 DEF TabInv, TypeOK, IsConversation
<1>5. OneConversation'
  BY <1>1 DEF OneConversation
<1>6. CallsFollowView'
  BY <1>3 DEF CallsFollowView
<1> QED
  BY <1>1, <1>3, <1>4, <1>5, <1>6, AbortKeeps

\* Calls that begin, fail or answer without a change of the store.
LEMMA CallKeeps ==
    ASSUME TabInv, UNCHANGED <<store, stream, mixed, crossed>>,
           opening' \subseteq Sessions, IsConversation(resuming'),
           deleting' # None => deleting' \in Deletion,
           thread' \in [Sessions -> ThreadStates], clicks' \in 0..MaxClicks,
           loose' \subseteq loose, loose \subseteq loose' \cup {"resume", "delete"},
           ~ mixed /\ resuming' # None /\ "resume" \notin loose' => resuming' = session,
           ~ mixed /\ deleting' # None /\ "delete" \notin loose'
             => deleting'.current = session
    PROVE  TabInv'
<1>1. /\ UNCHANGED <<session, streaming, controller, text, shown, view, gate>>
      /\ Live' = Live /\ stream' = stream /\ mixed' = mixed /\ crossed' = crossed
  BY DEF store, Live
<1>2. TypeOK'
  BY <1>1 DEF TabInv, TypeOK, IsConversation, Deletion
<1>3. StreamsAreSound'
  BY <1>1 DEF TabInv, StreamsAreSound
<1>4. OneConversation' /\ OneStream'
  BY <1>1 DEF TabInv, OneConversation, OneStream
<1>5. CallsFollowView'
  <2>1. ASSUME ~ mixed', NEW j \in (Live \ loose)'
        PROVE  (\/ stream[j].of = session
                \/ /\ session = None /\ controller = j
                   /\ stream[j].phase = "sent" \/ NamesNext(stream[j]))'
    <3>1. j \in Live \ loose
      BY <1>1, <2>1, TabAssumption DEF Live
    <3>2. \/ stream[j].of = session
          \/ /\ session = None /\ controller = j
             /\ stream[j].phase = "sent" \/ NamesNext(stream[j])
      BY <1>1, <2>1, <3>1 DEF TabInv, CallsFollowView
    <3> QED
      BY <1>1, <3>2 DEF NamesNext
  <2> QED
    BY <1>1, <2>1 DEF CallsFollowView
<1> QED
  BY <1>2, <1>3, <1>4, <1>5 DEF TabInv

LEMMA CallsKeep ==
    ASSUME TabInv,
           \/ \E s \in Sessions : Open(s) \/ OpenFails(s) \/ Delete(s)
           \/ Gone \/ Submit \/ ResumeFails
    PROVE  TabInv'
<1>1. /\ UNCHANGED <<store, stream, mixed, crossed>>
      /\ loose' \subseteq loose /\ loose \subseteq loose' \cup {"resume", "delete"}
  BY DEF Open, OpenFails, Delete, Gone, Submit, ResumeFails, Decided, history
<1>2. clicks' \in 0..MaxClicks
  BY TabAssumption
     DEF TabInv, TypeOK, Open, OpenFails, Delete, Gone, Submit, ResumeFails, Click
<1>3. opening' \subseteq Sessions /\ thread' \in [Sessions -> ThreadStates]
  <2>1. opening' \subseteq Sessions
    BY DEF TabInv, TypeOK, Open, OpenFails, Delete, Gone, Submit, ResumeFails
  <2>2. CASE Gone
    BY <2>2 DEF Gone, TabInv, TypeOK, ThreadStates
  <2>3. CASE ~ Gone
    BY <2>3 DEF TabInv, TypeOK, Open, OpenFails, Delete, Submit, ResumeFails
  <2> QED
    BY <2>1, <2>2, <2>3
<1>4. /\ IsConversation(resuming')
      /\ ~ mixed /\ resuming' # None /\ "resume" \notin loose' => resuming' = session
  <2>1. CASE Submit
    BY <2>1 DEF Submit, TabInv, TypeOK, IsConversation
  <2>2. CASE ResumeFails
    BY <2>2 DEF ResumeFails, Decided, IsConversation
  <2>3. CASE ~ Submit /\ ~ ResumeFails
    <3>1. UNCHANGED <<resuming, loose>>
      BY <2>3 DEF Open, OpenFails, Delete, Gone, history
    <3> QED
      BY <3>1 DEF TabInv, TypeOK, CallsFollowView
  <2> QED
    BY <2>1, <2>2, <2>3
<1>5. /\ deleting' # None => deleting' \in Deletion
      /\ ~ mixed /\ deleting' # None /\ "delete" \notin loose'
           => deleting'.current = session
  <2>1. ASSUME NEW s \in Sessions, Delete(s)
        PROVE  deleting' \in Deletion /\ deleting'.current = session
    BY <2>1 DEF Delete, TabInv, TypeOK, IsConversation, Deletion, Conversation
  <2>2. CASE Gone
    <3>1. deleting # None /\ deleting \in Deletion /\ loose' = loose
      BY <2>2 DEF Gone, TabInv, StreamsAreSound, history
    <3>2. deleting' \in Deletion /\ deleting'.current = deleting.current
      BY <2>2, <3>1 DEF Gone, Deletion
    <3> QED
      BY <3>1, <3>2 DEF TabInv, CallsFollowView
  <2>3. CASE ~ Gone /\ ~ \E s \in Sessions : Delete(s)
    <3>1. deleting' = deleting /\ loose \subseteq loose' \cup {"resume"}
      BY <2>3 DEF Open, OpenFails, Submit, ResumeFails, Decided, history
    <3> QED
      BY <3>1 DEF TabInv, StreamsAreSound, CallsFollowView
  <2> QED
    BY <2>1, <2>2, <2>3
<1> QED
  BY <1>1, <1>2, <1>3, <1>4, <1>5, CallKeeps

LEMMA ClearKeeps ==
    ASSUME TabInv, Clear
    PROVE  TabInv'
<1>1. clicks' \in 0..MaxClicks
  BY TabAssumption DEF TabInv, TypeOK, Clear, Click
<1> QED
  BY <1>1, ClearedKeeps DEF Clear, calls

LEMMA DeleteAnswersKeeps ==
    ASSUME TabInv, DeleteAnswers
    PROVE  TabInv'
<1>1. /\ deleting' = None /\ UNCHANGED <<opening, resuming, clicks>>
  BY DEF DeleteAnswers
<1>2. /\ clicks' \in 0..MaxClicks /\ opening' \subseteq Sessions
      /\ IsConversation(resuming')
  BY <1>1 DEF TabInv, TypeOK, IsConversation
<1>3. CASE deleting.done /\ ClearsView
  BY <1>1, <1>2, <1>3, ClearedKeeps DEF DeleteAnswers
<1>4. CASE ~ (deleting.done /\ ClearsView)
  <2>1. /\ loose' = loose \ {"delete"}
        /\ UNCHANGED <<store, stream, thread, mixed, crossed>>
    BY <1>4 DEF DeleteAnswers
  <2>2. ~ mixed /\ resuming' # None /\ "resume" \notin loose' => resuming' = session
    BY <1>1, <2>1 DEF TabInv, CallsFollowView
  <2>3. thread' \in [Sessions -> ThreadStates]
    BY <2>1 DEF TabInv, TypeOK
  <2> QED
    BY <1>1, <1>2, <2>1, <2>2, <2>3, CallKeeps
<1> QED
  BY <1>3, <1>4

\* The requests of a page end with it, and with them what they could mix up.
LEMMA ReloadKeeps ==
    ASSUME TabInv, Reload
    PROVE  TabInv'
<1>1. /\ stream' = [i \in Streams |-> Abandoned(stream[i])]
      /\ streaming' = FALSE /\ controller' = None
      /\ text' = {} /\ view' = None /\ gate' = None
      /\ opening' = {} /\ resuming' = None /\ deleting' = None
      /\ loose' = {} /\ crossed' = FALSE
      /\ UNCHANGED <<session, shown, mixed>>
  BY DEF Reload
<1>r. \A i \in Streams : /\ stream'[i] \in Request /\ stream'[i].left = <<>>
                         /\ stream'[i].phase \in {"free", "abandoned"}
  BY <1>1, AbandonedIsLeft DEF TabInv, StreamsAreSound
<1>2. Live' = {}
  BY <1>r DEF Live
<1>3. TypeOK'
  <2>1. clicks' \in 0..MaxClicks
    BY TabAssumption DEF TabInv, TypeOK, Reload, Click
  <2>2. thread' \in [Sessions -> ThreadStates]
    BY DEF TabInv, TypeOK, Reload, ThreadStates
  <2>3. \A i \in Streams : stream'[i].phase \in Phases /\ stream'[i].of \in Conversation
    BY <1>r DEF Request
  <2>4. (streaming <=> controller # None)' /\ (streaming => controller \in Live)'
    BY <1>1
  <2>5. streaming' \in BOOLEAN /\ mixed' \in BOOLEAN /\ crossed' \in BOOLEAN
    BY <1>1 DEF TabInv, TypeOK
  <2>6. /\ IsConversation(session') /\ IsConversation(view')
        /\ IsConversation(gate') /\ IsConversation(resuming')
        /\ text' \subseteq Sessions /\ shown' \subseteq Sessions /\ opening' \subseteq Sessions
        /\ controller' \in Streams \cup {None}
        /\ loose' \subseteq Streams \cup {"resume", "delete"}
    BY <1>1 DEF TabInv, TypeOK, IsConversation
  <2>7. \A i \in Streams : IsConversation(stream'[i].of)
    BY <2>3 DEF IsConversation, Conversation
  <2> QED
    BY <1>1, <2>1, <2>2, <2>3, <2>4, <2>5, <2>6, <2>7 DEF TypeOK, IsConversation
<1>4. StreamsAreSound'
  BY <1>1, <1>2, <1>r DEF StreamsAreSound
<1>5. OneConversation' /\ CallsFollowView' /\ OneStream'
  BY <1>1, <1>2 DEF TabInv, OneConversation, CallsFollowView, OneStream
<1> QED
  BY <1>3, <1>4, <1>5 DEF TabInv

\* A snapshot replaces the view; the streams it does not abort are not of it.
LEMMA RestoreKeeps ==
    ASSUME TabInv, NEW s \in Sessions, Restore(s)
    PROVE  TabInv'
<1>1. /\ opening' = opening \ {s}
      /\ session' = s /\ streaming' = FALSE /\ controller' = None
      /\ text' = {} /\ shown' = {s} /\ view' = s /\ gate' \in {s, None}
      /\ loose' = Left(Live) /\ mixed' = FALSE /\ Crosses
      /\ UNCHANGED <<stream, resuming, deleting, thread, clicks>>
  BY DEF Restore
<1>2. Live' = Live /\ Live \subseteq Streams
  BY <1>1 DEF Live
<1>3. /\ loose' \subseteq Streams \cup {"resume", "delete"}
      /\ Live' \subseteq loose'
      /\ resuming' # None => "resume" \in loose'
      /\ deleting' # None => "delete" \in loose'
  BY <1>1, <1>2 DEF Left, TabInv, TypeOK
<1>4. TypeOK'
  <2>1. (streaming <=> controller # None)' /\ (streaming => controller \in Live)'
    BY <1>1
  <2>2. crossed' \in BOOLEAN /\ mixed' \in BOOLEAN /\ streaming' \in BOOLEAN
    BY <1>1 DEF Crosses
  <2>3. /\ IsConversation(session') /\ IsConversation(view')
        /\ IsConversation(gate') /\ IsConversation(resuming')
        /\ controller' \in Streams \cup {None}
        /\ text' \subseteq Sessions /\ shown' \subseteq Sessions /\ opening' \subseteq Sessions
    BY <1>1 DEF TabInv, TypeOK, IsConversation
  <2> QED
    BY <1>1, <1>3, <2>1, <2>2, <2>3 DEF TabInv, TypeOK, IsConversation
<1>5. StreamsAreSound'
  BY <1>1, <1>2 DEF TabInv, StreamsAreSound
<1>6. OneConversation'
  BY <1>1 DEF OneConversation
<1>7. CallsFollowView'
  BY <1>3 DEF CallsFollowView
<1>8. OneStream'
  BY <1>1, <1>2 DEF OneStream, Crosses
<1> QED
  BY <1>4, <1>5, <1>6, <1>7, <1>8 DEF TabInv

\* The answer to a decision is shown in the conversation it was sent from.
LEMMA ResumeAnswersKeeps ==
    ASSUME TabInv, ResumeAnswers
    PROVE  TabInv'
<1>1. /\ resuming # None /\ resuming' = None /\ loose' = loose \ {"resume"}
      /\ mixed' = (mixed \/ "resume" \in loose)
      /\ shown' = shown \cup {resuming} /\ view' = resuming
      /\ gate' \in {resuming, None}
      /\ UNCHANGED <<session, streaming, controller, text, stream, opening, deleting,
                     clicks, crossed>>
  BY DEF ResumeAnswers, Decided, Strays
<1>2. resuming \in Sessions /\ Live' = Live
  BY <1>1 DEF TabInv, TypeOK, IsConversation, Live
<1>3. TypeOK'
  <2>1. thread' \in [Sessions -> ThreadStates]
    BY DEF TabInv, TypeOK, ResumeAnswers, ThreadStates
  <2>2. mixed' \in BOOLEAN
    BY <1>1 DEF TabInv, TypeOK
  <2> QED
    BY <1>1, <1>2, <2>1, <2>2 DEF TabInv, TypeOK, IsConversation
<1>4. StreamsAreSound' /\ OneStream'
  BY <1>1, <1>2 DEF TabInv, StreamsAreSound, OneStream
<1>5. OneConversation'
  BY <1>1, <1>2, TabAssumption DEF TabInv, OneConversation, CallsFollowView
<1>6. CallsFollowView'
  <2>1. ASSUME ~ mixed', NEW j \in (Live \ loose)'
        PROVE  (\/ stream[j].of = session
                \/ /\ session = None /\ controller = j
                   /\ stream[j].phase = "sent" \/ NamesNext(stream[j]))'
    <3>1. j \in Live \ loose
      BY <1>1, <1>2, <2>1, TabAssumption DEF Live
    <3>2. \/ stream[j].of = session
          \/ /\ session = None /\ controller = j
             /\ stream[j].phase = "sent" \/ NamesNext(stream[j])
      BY <1>1, <2>1, <3>1 DEF TabInv, CallsFollowView
    <3> QED
      BY <1>1, <3>2 DEF NamesNext
  <2> QED
    BY <1>1, <2>1 DEF TabInv, CallsFollowView
<1> QED
  BY <1>3, <1>4, <1>5, <1>6 DEF TabInv

-----------------------------------------------------------------------------
(* The theorems.                                                            *)

\* What the server does for requests that nobody reads reaches no view.
LEMMA LeftKeeps ==
    ASSUME TabInv, NEW i \in Streams, LeftSaves(i) \/ LeftEnds(i) \/ LeftCancelled(i)
    PROVE  TabInv'
<1>1. /\ stream[i].phase = "abandoned" /\ stream' \in {stream, [stream EXCEPT ![i] = Free]}
      /\ UNCHANGED <<session, streaming, controller, text, shown, view, gate>>
      /\ UNCHANGED <<opening, resuming, deleting, clicks, loose, mixed, crossed>>
  BY DEF LeftSaves, LeftEnds, LeftCancelled, store, calls, history
<1>2. /\ stream' \in [Streams -> Request]
      /\ \A j \in Streams \ {i} : stream'[j] = stream[j]
      /\ stream'[i].phase \in {"free", "abandoned"} /\ stream'[i].left = <<>>
  <2>1. stream \in [Streams -> Request] /\ stream[i].left = <<>>
    BY <1>1 DEF TabInv, StreamsAreSound
  <2>2. CASE stream' = stream
    BY <1>1, <2>1, <2>2
  <2>3. CASE stream' = [stream EXCEPT ![i] = Free]
    BY <2>1, <2>3, FreeIsRequest, SlotUpdate
  <2> QED
    BY <1>1, <2>2, <2>3
<1>3. Live' = Live /\ i \notin Live
  BY <1>1, <1>2 DEF Live
<1>4. \A j \in Live : j # i /\ j \in Streams /\ stream'[j] = stream[j]
  BY <1>2, <1>3 DEF Live
<1>5. TypeOK'
  <2>1. thread' \in [Sessions -> ThreadStates]
    <3>1. \A ending \in Endings : ending.state \in ThreadStates
      BY DEF Endings, ThreadStates
    <3> QED
      BY <3>1 DEF LeftSaves, LeftEnds, LeftCancelled, TabInv, TypeOK, ThreadStates
  <2>2. \A j \in Streams : stream'[j].phase \in Phases
                          /\ stream'[j].of \in Sessions \cup {None}
    BY <1>2 DEF Request, Conversation
  <2> QED
    BY <1>1, <1>3, <2>1, <2>2 DEF TabInv, TypeOK, IsConversation
<1>6. StreamsAreSound'
  BY <1>1, <1>2, <1>3, <1>4 DEF TabInv, StreamsAreSound
<1>7. OneConversation' /\ OneStream'
  BY <1>1, <1>3, <1>4 DEF TabInv, OneConversation, OneStream
<1>8. CallsFollowView'
  BY <1>1, <1>3, <1>4 DEF TabInv, CallsFollowView, NamesNext
<1> QED
  BY <1>5, <1>6, <1>7, <1>8 DEF TabInv

LEMMA TabStep == TabInv /\ [Next]_vars => TabInv'
<1> SUFFICES ASSUME TabInv, [Next]_vars PROVE TabInv'
  OBVIOUS
<1>1. CASE \E i \in Streams : Send(i) \/ Progress(i)
  BY <1>1, SendKeeps, RunKeeps, EndRunKeeps, LostKeeps, OnSessionKeeps, CallbacksKeep,
     OnDoneKeeps DEF Progress
<1>0. CASE \E i \in Streams : LeftSaves(i) \/ LeftEnds(i) \/ LeftCancelled(i)
  BY <1>0, LeftKeeps
<1>2. CASE Stop \/ Clear \/ Reload
  BY <1>2, StopKeeps, ClearKeeps, ReloadKeeps
<1>3. CASE \/ \E s \in Sessions : Open(s) \/ OpenFails(s) \/ Delete(s)
           \/ Gone \/ Submit \/ ResumeFails
  BY <1>3, CallsKeep
<1>4. CASE \E s \in Sessions : Restore(s)
  BY <1>4, RestoreKeeps
<1>5. CASE DeleteAnswers \/ ResumeAnswers
  BY <1>5, DeleteAnswersKeeps, ResumeAnswersKeeps
<1>6. CASE UNCHANGED vars
  <2>1. /\ UNCHANGED <<store, stream, mixed, crossed>>
        /\ UNCHANGED <<opening, resuming, deleting, thread, clicks, loose>>
    BY <1>6 DEF vars, calls, history
  <2>2. /\ opening' \subseteq Sessions /\ IsConversation(resuming')
        /\ thread' \in [Sessions -> ThreadStates] /\ clicks' \in 0..MaxClicks
        /\ deleting' # None => deleting' \in Deletion
    BY <2>1 DEF TabInv, TypeOK, IsConversation, StreamsAreSound
  <2> QED
    BY <2>1, <2>2, CallKeeps DEF TabInv, CallsFollowView
<1> QED
  BY <1>0, <1>1, <1>2, <1>3, <1>4, <1>5, <1>6 DEF Next

LEMMA TabIsSound == Spec => []TabInv
<1> QED
  BY TabInitial, TabStep, PTL DEF Spec

\* The tab shows one conversation, and its composer follows the turn that is not over
\* on the only connection it has kept open, in whatever order streams, snapshots,
\* decisions and deletions answer and whatever the server still does for requests the
\* tab has left (chat-store.ts, history-panel.tsx, stream.ts): until a call is applied
\* that was made for a view the tab has left, or a stream was left open.
THEOREM TabShowsOneConversation == Spec => []ViewIsConsistent
<1>1. TabInv => ViewIsConsistent
  <2>1. TabInv => FollowsItsTurn
    BY TabAssumption DEF TabInv, OneStream, FollowsItsTurn, TypeOK, Live
  <2> QED
    BY <2>1 DEF TabInv, ViewIsConsistent
<1> QED
  BY <1>1, TabIsSound, PTL

\* Deleting a conversation empties the tab exactly when it shows that one
\* (history-panel.tsx, remove): what it showed when the deletion was asked for
\* is what it shows now, unless the tab has moved on in between.
THEOREM DeletionEmptiesItsView == Spec => DeletionFollowsView
<1>1. TabInv /\ [Next]_vars =>
        [(DeleteAnswers /\ deleting.done /\ "delete" \notin loose /\ ~mixed)
            => (session = deleting.of <=> session # session')]_vars
  <2>1. SUFFICES ASSUME TabInv, DeleteAnswers, deleting.done, "delete" \notin loose, ~mixed
                 PROVE  session = deleting.of <=> session # session'
    OBVIOUS
  <2>2. deleting # None /\ deleting \in Deletion /\ deleting.current = session
    BY <2>1 DEF DeleteAnswers, TabInv, StreamsAreSound, CallsFollowView
  <2>3. CASE ClearsView
    <3>1. session = deleting.of /\ session' = None
      BY <2>1, <2>2, <2>3 DEF ClearsView, DeleteAnswers, Cleared
    <3> QED
      BY <2>2, <3>1, TabAssumption DEF Deletion
  <2>4. CASE ~ ClearsView
    <3>1. session # deleting.of /\ session' = session
      BY <2>1, <2>2, <2>4 DEF ClearsView, DeleteAnswers, store
    <3> QED
      BY <3>1
  <2> QED
    BY <2>3, <2>4
<1> QED
  BY <1>1, TabIsSound, PTL DEF Spec, DeletionFollowsView
=============================================================================
