---------------------------- MODULE RequestPolicy -----------------------------
(***************************************************************************)
(* How a trip request is agreed on over several messages:                  *)
(* src/models/trip_request.py (the request, its patches and validators),   *)
(* src/agent/policies/requirements.py (service offers, decisions, required *)
(* fields) and src/agent/nodes/intake.py, which applies a decision or a    *)
(* patch to the request of a thread.  The clients are browser tabs that    *)
(* each show the offer of the last answer they received.                   *)
(***************************************************************************)
EXTENDS Integers, FiniteSets

CONSTANTS
    Capabilities,  \* RequestedCapability
    Defaults,      \* _DEFAULT_PLANNING_CAPABILITIES
    Cities,        \* the places a traveller may name
    Broad,         \* those whose name a broad marker ("coast", "sea") matches
    Patches,       \* what the model may extract from a message
    Replies,       \* what a message may say of an offer in words
    Tabs,          \* browser tabs on the thread
    MaxTurns,      \* bound on the messages sent
    None           \* no turn, offer or decision

Scopes == {"unknown", "focused", "full_itinerary", "refinement"}

\* The fields that decide what is planned; an absent date, count or duration is 0.
Blank ==
    [scope |-> "unknown", requested |-> {}, declined |-> {},
     confirmed |-> FALSE, exclusive |-> FALSE, drive |-> FALSE,
     destinations |-> {}, goal |-> FALSE, overnight |-> {},
     routeConfirmed |-> FALSE, delegated |-> FALSE,
     start |-> 0, end |-> 0, days |-> 0, flexible |-> FALSE,
     adults |-> 0, children |-> 0, ages |-> 0,
     origin |-> FALSE, passport |-> FALSE, entry |-> FALSE]

Fields == DOMAIN Blank

\* The types of the fields, in a request and in a patch.
Values ==
    [scope |-> Scopes, requested |-> SUBSET Capabilities, declined |-> SUBSET Capabilities,
     confirmed |-> BOOLEAN, exclusive |-> BOOLEAN, drive |-> BOOLEAN,
     destinations |-> SUBSET Cities, goal |-> BOOLEAN, overnight |-> SUBSET Cities,
     routeConfirmed |-> BOOLEAN, delegated |-> BOOLEAN,
     start |-> Nat, end |-> Nat, days |-> Nat, flexible |-> BOOLEAN,
     adults |-> Nat, children |-> Nat, ages |-> Nat,
     origin |-> BOOLEAN, passport |-> BOOLEAN, entry |-> BOOLEAN]

ASSUME PolicyAssumption ==
    /\ Defaults \subseteq Capabilities
    /\ Broad \subseteq Cities
    /\ \A patch \in Patches : \A f \in Fields \cap DOMAIN patch : patch[f] \in Values[f]
    /\ MaxTurns \in Nat

VARIABLES
    request,   \* trip_request as stored
    pending,   \* pending_questions
    offer,     \* service_scope_offer, None when it is empty
    decision,  \* service_scope_decision, None when it is empty
    turn,      \* the message under way, None between turns
    turns,     \* how many were sent
    card,      \* the offer each tab shows
    sent,      \* the last decision each tab sent, to be sent again by a retry
    agreed,    \* history: services the traveller asked for or accepted
    refused    \* history: services refused and not asked for again

thread == <<request, pending, offer, decision>>
vars == <<thread, turn, turns, card, sent, agreed, refused>>

-----------------------------------------------------------------------------
(* The request: reading a stored one, merging a patch.                      *)

RouteResolved(r) == r.routeConfirmed \/ (r.delegated /\ r.overnight # {})

\* The validator of TripRequest: broad destinations become a route goal whose
\* cities are not confirmed; confirmed overnight cities become destinations.
Promoted(r) ==
    LET broad == r.destinations \cap Broad # {}
        confirmed == ~broad /\ r.routeConfirmed
        narrowed == [r EXCEPT
            !.destinations = @ \ Broad,
            !.goal = @ \/ broad,
            !.routeConfirmed = confirmed,
            !.delegated = @ /\ ~broad /\ ~confirmed /\ r.overnight # {}]
    IN  IF RouteResolved(narrowed)
        THEN [narrowed EXCEPT !.destinations = @ \cup r.overnight] ELSE narrowed

IsValid(r) == r.start = 0 \/ r.end = 0 \/ r.start <= r.end

Mentions(patch, fields) == fields \cap DOMAIN patch # {}

Declined(base, patch) ==
    (base.declined \ (IF Mentions(patch, {"requested"}) THEN patch.requested ELSE {}))
        \cup (IF Mentions(patch, {"declined"}) THEN patch.declined ELSE {})

\* Mutant: the patch replaces what was requested before.
RequestedAnew(base, patch) ==
    (IF Mentions(patch, {"requested"}) THEN patch.requested ELSE base.requested)
        \ (IF Mentions(patch, {"declined"}) THEN patch.declined ELSE {})

Requested(base, patch) ==
    (base.requested \cup (IF Mentions(patch, {"requested"}) THEN patch.requested ELSE {}))
        \ (IF Mentions(patch, {"declined"}) THEN patch.declined ELSE {})

\* merge_trip_request before validation: a route named anew is not confirmed
\* any more, nor is a service scope.
Merged(base, patch) ==
    LET route == /\ Mentions(patch, {"destinations", "goal", "overnight"})
                 /\ ~Mentions(patch, {"routeConfirmed", "delegated"})
        services == Mentions(patch, {"requested", "declined"})
        Kept(f) == IF f \in DOMAIN patch THEN patch[f] ELSE base[f]
    IN  [f \in Fields |->
            CASE f = "requested" -> Requested(base, patch)
              [] f = "declined" -> Declined(base, patch)
              [] f \in {"routeConfirmed", "delegated"} -> ~route /\ Kept(f)
              [] f = "confirmed" -> IF services /\ f \notin DOMAIN patch THEN FALSE ELSE Kept(f)
              [] OTHER -> Kept(f)]

-----------------------------------------------------------------------------
(* Service scope: what is planned, offered and decided.                     *)

Effective(r) ==
    (r.requested \cup (IF r.scope = "full_itinerary" /\ ~r.exclusive THEN Defaults ELSE {}))
        \ r.declined

DayTrip(r) == r.days = 1 \/ (r.start # 0 /\ r.start = r.end)

Offered(r) ==
    IF \/ r.confirmed \/ r.scope = "unknown"
       \/ r.scope = "focused" /\ r.requested = {}
    THEN {}
    ELSE ((Capabilities \ Effective(r)) \ r.declined)
            \ ((IF r.drive THEN {"flights"} ELSE {}) \cup (IF DayTrip(r) THEN {"hotels"} ELSE {}))

\* Everything but whether the scope is confirmed.
Fingerprint(r) == [f \in Fields \ {"confirmed"} |-> r[f]]

Offer(r) ==
    IF Offered(r) = {} THEN None
    ELSE [offered |-> Offered(r), of |-> Fingerprint(r)]

\* A decision names the offer it answers by its fingerprint only; shown is what
\* the traveller saw in it, for the properties.
Decide(action, selected, seen) ==
    [action |-> action, selected |-> selected, of |-> seen.of, shown |-> seen.offered]

Actions == {"include_all", "include_selected", "selected_only"}

\* The services of an offer that a decision takes.
Taken(d, offered) ==
    CASE d.action = "include_all" -> offered
      [] d.action = "selected_only" -> {}
      [] OTHER -> d.selected

\* Mutant: the fingerprint of a decision is not compared.
AcceptsAny(r, d) == Offered(r) # {} /\ d.selected \subseteq Offered(r)

Accepts(r, d) ==
    Offer(r) # None /\ d.of = Offer(r).of /\ d.selected \subseteq Offered(r)

DecisionPatch(r, d) ==
    [requested |-> Effective(r) \cup Taken(d, Offered(r)),
     declined |-> Offered(r) \ Taken(d, Offered(r)),
     confirmed |-> TRUE, exclusive |-> TRUE]

Apply(r, d) == Promoted(Merged(r, DecisionPatch(r, d)))

\* resolve_service_scope_reply: what words decide about the present offer.
ReplyDecision(r, words) ==
    LET seen == Offer(r)
        one == Cardinality(Offered(r)) = 1
        named == words.names \cap Offered(r)
    IN  IF seen = None THEN None
        ELSE IF words.kind = "only" \/ (one /\ words.kind = "decline")
             THEN Decide("selected_only", {}, seen)
        ELSE IF words.kind = "all" \/ (one /\ words.kind = "yes")
             THEN Decide("include_all", {}, seen)
        ELSE IF words.kind = "name" /\ named # {}
             THEN Decide("include_selected", named, seen)
        ELSE None

-----------------------------------------------------------------------------
(* The fields a request still misses.                                       *)

Usable(r) ==
    (r.start # 0 /\ (r.end # 0 \/ r.days # 0)) \/ (r.flexible /\ r.days # 0)

RouteMissing(r) == r.goal /\ ~RouteResolved(r)

Missing(r) ==
    LET caps == Effective(r)
        Has(c) == c \in caps
        Ask(field, condition) == IF condition THEN {field} ELSE {}
    IN  IF r.scope = "unknown" THEN {"request_scope"}
        ELSE IF r.scope = "focused" /\ caps = {} THEN {"requested_capability"}
        ELSE UNION
           {Ask("service_scope_confirmation", Offered(r) # {}),
            Ask("route_scope_confirmation", RouteMissing(r)),
            Ask("destinations", /\ caps \ {"transportation"} # {} /\ r.destinations = {}
                                /\ ~RouteMissing(r)),
            Ask("passport_country", /\ Has("travel_readiness") /\ ~r.passport
                                    /\ r.scope = "full_itinerary" \/ r.entry),
            Ask("origin_city", Has("flights") /\ ~r.origin),
            Ask("adults", caps \cap {"flights", "hotels", "budget"} # {} /\ r.adults = 0),
            Ask("child_ages", Has("hotels") /\ r.children > 0 /\ r.ages # r.children),
            Ask("exact_stay_dates", /\ Has("hotels") /\ r.scope = "focused"
                                    /\ r.start = 0 \/ r.end = 0),
            Ask("date_window", /\ ~Usable(r)
                               /\ \/ caps \cap {"flights", "budget", "itinerary"} # {}
                                  \/ Has("hotels") /\ r.scope # "focused")}

-----------------------------------------------------------------------------
Silence == [kind |-> "none", names |-> {}]

Init ==
    /\ request = Blank /\ pending = {} /\ offer = None /\ decision = None
    /\ turn = None /\ turns = 0
    /\ card = [t \in Tabs |-> None]
    /\ sent = [t \in Tabs |-> None]
    /\ agreed = {} /\ refused = {}

\* A message starts a run; a decision that comes with it is stored, and so is
\* one that an earlier message left if this one has none.
Send(tab, words, d) ==
    /\ turn = None /\ turns < MaxTurns
    /\ turns' = turns + 1
    /\ turn' = [tab |-> tab, words |-> words]
    /\ decision' = IF d = None THEN decision ELSE d
    /\ sent' = [sent EXCEPT ![tab] = IF d = None THEN @ ELSE d]
    /\ UNCHANGED <<request, pending, offer, card, agreed, refused>>

Write(tab) == \E words \in Replies : Send(tab, words, None)

\* The buttons of the service card, and a client that names other services.
Choose(tab) ==
    /\ card[tab] # None
    /\ \E action \in Actions, selected \in SUBSET Capabilities :
          /\ (selected # {}) = (action = "include_selected")
          /\ Send(tab, Silence, Decide(action, selected, card[tab]))

Retry(tab) == sent[tab] # None /\ Send(tab, Silence, sent[tab])

\* A tab shows what the thread holds when its answer, or a snapshot, arrives.
Shows(tab) == card' = [card EXCEPT ![tab] = offer']

Refresh(tab) ==
    /\ turn = None
    /\ card' = [card EXCEPT ![tab] = offer]
    /\ card' # card
    /\ UNCHANGED <<thread, turn, turns, sent, agreed, refused>>

\* The request times out or the process stops before intake is saved.
Cut == turn # None /\ turn' = None /\ UNCHANGED <<thread, turns, card, sent, agreed, refused>>

\* triage answers a message itself when nothing is pending.
AnswerShallowly ==
    /\ turn # None /\ pending = {}
    /\ turn' = None
    /\ UNCHANGED <<thread, turns, sent, agreed, refused>>
    /\ Shows(turn.tab)

\* Intake could not read the message or apply the decision.
IntakeFails ==
    /\ pending' = {"request_details"}
    /\ decision' = None
    /\ UNCHANGED <<request, offer, agreed, refused>>

\* Intake stores what it agreed on with the message.
Store(r) ==
    /\ request' = r
    /\ pending' = Missing(r)
    /\ offer' = Offer(r)
    /\ decision' = None

\* What the traveller agreed to or refused by a decision, as it was shown.
Consent(d) ==
    /\ agreed' = agreed \cup Taken(d, d.shown)
    /\ refused' = (refused \ Taken(d, d.shown)) \cup (d.shown \ Taken(d, d.shown))

\* What a message asks for or refuses by itself; planning a whole trip is
\* consent to the default services.
Words(patch, agreed0, refused0) ==
    LET asked == IF Mentions(patch, {"requested"}) THEN patch.requested ELSE {}
        no == IF Mentions(patch, {"declined"}) THEN patch.declined ELSE {}
        whole == Mentions(patch, {"scope"}) /\ patch.scope = "full_itinerary"
    IN  /\ agreed' = agreed0 \cup asked \cup (IF whole THEN Defaults ELSE {})
        /\ refused' = (refused0 \ asked) \cup no

\* Mutant: the merged request is stored without running its validators again.
ExtractedUnvalidated(base, patch, agreed0, refused0) ==
    /\ Store(Merged(base, patch))
    /\ Words(patch, agreed0, refused0)

\* The patch the model extracts from the message, beside a decision or not.
Extracted(base, patch, agreed0, refused0) ==
    IF IsValid(Merged(base, patch))
    THEN /\ Store(Promoted(Merged(base, patch)))
         /\ Words(patch, agreed0, refused0)
    ELSE IntakeFails

\* The permission fields of a message that decides in words are the decision's.
WithoutServices(patch) ==
    [f \in DOMAIN patch \ {"requested", "declined", "confirmed", "exclusive"} |-> patch[f]]

\* intake_node with a stored decision: the words of the message are not read.
IntakeDecides ==
    /\ decision # None
    /\ LET current == Promoted(request) IN
       IF Accepts(current, decision)
       THEN Store(Apply(current, decision)) /\ Consent(decision)
       ELSE IntakeFails

\* intake_node with words: they may decide about the offer, and the model may
\* extract a patch or fail.
IntakeReads ==
    /\ decision = None
    /\ LET current == Promoted(request)
           d == IF "service_scope_confirmation" \in pending
                THEN ReplyDecision(current, turn.words) ELSE None
       IN  \/ d = None /\ \E patch \in Patches : Extracted(current, patch, agreed, refused)
           \/ /\ d # None /\ pending = {"service_scope_confirmation"}
              /\ Store(Apply(current, d)) /\ Consent(d)
           \/ /\ d # None /\ pending # {"service_scope_confirmation"}
              /\ \E patch \in Patches :
                    Extracted(Apply(current, d), WithoutServices(patch),
                              agreed \cup Taken(d, d.shown),
                              (refused \ Taken(d, d.shown)) \cup (d.shown \ Taken(d, d.shown)))
           \/ (d = None \/ pending # {"service_scope_confirmation"}) /\ IntakeFails

Intake ==
    /\ turn # None
    /\ IntakeDecides \/ IntakeReads
    /\ turn' = None
    /\ UNCHANGED <<turns, sent>>
    /\ Shows(turn.tab)

Next ==
    \/ \E tab \in Tabs : Write(tab) \/ Choose(tab) \/ Retry(tab) \/ Refresh(tab)
    \/ Cut \/ AnswerShallowly \/ Intake

Spec == Init /\ [][Next]_vars

-----------------------------------------------------------------------------
IsRequest(r) == r = [f \in Fields |-> r[f]] /\ \A f \in Fields : r[f] \in Values[f]

IsOffer(o) == o = None \/ (o.offered \subseteq Capabilities /\ o.offered # {})
IsDecision(d) == d = None \/ (d.action \in Actions /\ d.shown \subseteq Capabilities)

\* The shapes of the variables; a service is never both requested and declined.
TypeOK ==
    /\ IsRequest(request)
    /\ request.requested \cap request.declined = {}
    /\ IsValid(request)
    /\ IsOffer(offer) /\ IsDecision(decision)
    /\ \A t \in Tabs : IsOffer(card[t]) /\ IsDecision(sent[t])
    /\ turns \in 0..MaxTurns
    /\ turn = None \/ (turn.tab \in Tabs /\ turn.words \in Replies \cup {Silence})
    /\ agreed \subseteq Capabilities /\ refused \subseteq Capabilities

\* BR-INT-004: only services the traveller asked for, or accepted in an offer
\* that showed them, are planned, and none that were refused since; a whole
\* trip is consent to the default ones.  Decisions may be late, repeated, from
\* another tab or left over by a message that was cut.
OnlyAgreedServices ==
    Effective(request) \subseteq agreed \ refused

Settled(r) == r.requested \cup r.declined

\* No step forgets a service the traveller took a position on, and an accepted
\* decision settles at least one more: a decision can take effect only once,
\* however often it is repeated, and the dialogue about services ends.
DecisionsSettle ==
    [][/\ Settled(request) \subseteq Settled(request')
       /\ (turn # None /\ decision # None /\ request' # request)
             => Settled(request) # Settled(request')]_vars

\* An offer that the thread holds can be answered: the request read back from
\* the checkpoint is still the one it was made for.  A confirmed overnight city
\* with a broad name is promoted to a destination and demoted by the next
\* reading, which is the exception.
OfferCanBeAnswered ==
    offer # None =>
        offer.of = Fingerprint(Promoted(request)) \/ request.overnight \cap Broad # {}

\* BR-INT-002: a request that needs no answers any more is complete for every
\* node that reads it back from the checkpoint, with the same exception.
ReadyStaysReady ==
    Missing(request) = {} /\ request.overnight \cap Broad = {} =>
        Missing(Promoted(request)) = {}

\* The stored request is never stuck: it has its shape, an offer that is shown
\* can be answered, and a request that was ready is not asked about again.
OfferIsUsable == TypeOK /\ OfferCanBeAnswered /\ ReadyStaysReady

=============================================================================
