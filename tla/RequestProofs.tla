----------------------------- MODULE RequestProofs -----------------------------
(***************************************************************************)
(* Proofs about a trip request: how it is agreed on, and what is found out *)
(* for it.                                                                 *)
(*                                                                         *)
(* For any services, places, tabs and number of messages and whatever is   *)
(* extracted from them, only services that were agreed to are planned, a   *)
(* decision settles something and takes effect once, and an offer can      *)
(* always be answered.  For any requests, answers of the searches, budget  *)
(* and writing of the model, the readiness report is grounded in what was  *)
(* found, the safety topics come first, and an advisory is for the trip.   *)
(***************************************************************************)
EXTENDS RequestPolicy, ReadinessRun, Sums

-----------------------------------------------------------------------------
(* The inductive invariant. *)

\* What the traveller took a position on, in words or by a decision, is what
\* the request says: planned services were agreed to, refused ones are declined.
IsConsented(r, yes, no) ==
    /\ r.requested \subseteq yes
    /\ r.scope = "full_itinerary" => Defaults \subseteq yes
    /\ no \subseteq r.declined
    /\ r.requested \cap r.declined = {}

\* An offer, and a decision on it, shows what a request that has its fingerprint
\* and is still open offers.
Reopened(of) == [f \in Fields |-> IF f = "confirmed" THEN FALSE ELSE of[f]]
IsShown(services, of) == services = Offered(Reopened(of))

OffersAreShown(o) ==
    o # None => o.offered \subseteq Capabilities /\ o.offered # {} /\ IsShown(o.offered, o.of)

DecisionIsOfOffer(d) ==
    d # None =>
      /\ d.action \in Actions
      /\ d.selected \subseteq Capabilities /\ d.shown \subseteq Capabilities
      /\ IsShown(d.shown, d.of)

Shapes ==
    /\ IsRequest(request) /\ IsValid(request)
    /\ turns \in 0..MaxTurns
    /\ turn = None \/ (turn.tab \in Tabs /\ turn.words \in Replies \cup {Silence})
    /\ agreed \subseteq Capabilities /\ refused \subseteq Capabilities
    /\ DOMAIN card = Tabs /\ DOMAIN sent = Tabs

OffersAreKnown ==
    /\ OffersAreShown(offer) /\ DecisionIsOfOffer(decision)
    /\ \A t \in Tabs : OffersAreShown(card[t]) /\ DecisionIsOfOffer(sent[t])

\* The offer of the thread is that of its request, which was read back once.
RequestIsRead ==
    /\ request.overnight \cap Broad = {} => Promoted(request) = request
    /\ offer # None => offer = Offer(request)

PolicyInv ==
    /\ Shapes /\ OffersAreKnown /\ RequestIsRead
    /\ IsConsented(request, agreed, refused)

-----------------------------------------------------------------------------
(* Requests: what a reading and a merge change. *)

IsPatch(patch) == \A f \in Fields \cap DOMAIN patch : patch[f] \in Values[f]

\* The fields of a request.
LEMMA FieldsAre ==
    Fields = {"scope", "requested", "declined", "confirmed", "exclusive", "drive",
              "destinations", "goal", "overnight", "routeConfirmed", "delegated",
              "start", "end", "days", "flexible", "adults", "children", "ages",
              "origin", "passport", "entry"}
BY DEF Fields, Blank

\* Each field has its type.
LEMMA RequestIsTyped ==
    ASSUME NEW r, IsRequest(r)
    PROVE  /\ r.scope \in Scopes /\ r.requested \subseteq Capabilities
           /\ r.declined \subseteq Capabilities
           /\ r.destinations \subseteq Cities /\ r.overnight \subseteq Cities
           /\ {r.confirmed, r.exclusive, r.drive, r.goal, r.routeConfirmed,
               r.delegated} \subseteq BOOLEAN
           /\ r.start \in Nat /\ r.end \in Nat /\ r.days \in Nat
BY FieldsAre DEF IsRequest, Values

\* Reading a request again: only where it goes may change.
LEMMA PromotedIs ==
    ASSUME NEW r, IsRequest(r)
    PROVE  /\ IsRequest(Promoted(r))
           /\ \A f \in Fields \ {"destinations", "goal", "routeConfirmed", "delegated"} :
                Promoted(r)[f] = r[f]
           /\ Promoted(r).goal = (r.goal \/ r.destinations \cap Broad # {})
           /\ Promoted(r).routeConfirmed = (r.routeConfirmed /\ r.destinations \cap Broad = {})
           /\ Promoted(r).delegated =
                (/\ r.delegated /\ r.destinations \cap Broad = {}
                 /\ ~r.routeConfirmed /\ r.overnight # {})
           /\ Promoted(r).destinations =
                IF RouteResolved(Promoted(r)) THEN (r.destinations \ Broad) \cup r.overnight
                ELSE r.destinations \ Broad
<1> DEFINE broad == r.destinations \cap Broad # {}
           confirmed == ~broad /\ r.routeConfirmed
           delegated == r.delegated /\ ~broad /\ ~confirmed /\ r.overnight # {}
           goal == r.goal \/ broad
           narrowed == [r EXCEPT !.destinations = @ \ Broad, !.goal = goal,
                                 !.routeConfirmed = confirmed, !.delegated = delegated]
           towns == IF RouteResolved(narrowed)
                    THEN (r.destinations \ Broad) \cup r.overnight ELSE r.destinations \ Broad
<1>1. goal \in BOOLEAN /\ confirmed \in BOOLEAN /\ delegated \in BOOLEAN
  BY RequestIsTyped
<1>2. towns \subseteq Cities /\ r.destinations \ Broad \subseteq Cities
  BY RequestIsTyped
<1>3. Promoted(r) = [narrowed EXCEPT !.destinations = towns]
  BY FieldsAre DEF Promoted, IsRequest
<1> HIDE DEF goal, confirmed, delegated, towns
<1> DEFINE read == [f \in Fields |->
              CASE f = "destinations" -> towns [] f = "goal" -> goal
                [] f = "routeConfirmed" -> confirmed [] f = "delegated" -> delegated
                [] OTHER -> r[f]]
<1>4. Promoted(r) = read
  <2>1. r = [f \in Fields |-> r[f]]
    BY DEF IsRequest
  <2>2. {"destinations", "goal", "routeConfirmed", "delegated"} \subseteq Fields
    BY FieldsAre
  <2> QED
    BY <1>3, <2>1, <2>2
<1>5. \A f \in Fields : read[f] \in Values[f]
  <2> SUFFICES ASSUME NEW f \in Fields PROVE read[f] \in Values[f]
    OBVIOUS
  <2>1. CASE f = "destinations"
    BY <2>1, <1>2 DEF Values
  <2>2. CASE f = "goal"
    BY <2>2, <1>1 DEF Values
  <2>3. CASE f = "routeConfirmed"
    BY <2>3, <1>1 DEF Values
  <2>4. CASE f = "delegated"
    BY <2>4, <1>1 DEF Values
  <2>5. CASE f \notin {"destinations", "goal", "routeConfirmed", "delegated"}
    BY <2>5 DEF IsRequest
  <2> QED
    BY <2>1, <2>2, <2>3, <2>4, <2>5
<1>6. IsRequest(read)
  BY <1>5 DEF IsRequest
<1>7. /\ read.goal = goal /\ read.routeConfirmed = confirmed /\ read.delegated = delegated
      /\ read.destinations = towns
      /\ \A f \in Fields \ {"destinations", "goal", "routeConfirmed", "delegated"} :
           read[f] = r[f]
  BY FieldsAre
<1>8. RouteResolved(narrowed) = RouteResolved(read)
  BY <1>7, FieldsAre DEF RouteResolved, IsRequest
<1> HIDE DEF read
<1> QED
  BY <1>4, <1>6, <1>7, <1>8 DEF goal, confirmed, delegated, towns


\* A request that was read is read the same, unless an overnight city is broad.
LEMMA PromotedOnce ==
    ASSUME NEW r, IsRequest(r), r.overnight \cap Broad = {}
    PROVE  Promoted(Promoted(r)) = Promoted(r)
<1> DEFINE p == Promoted(r)
<1>1. IsRequest(p) /\ IsRequest(Promoted(p)) /\ p.overnight = r.overnight
  BY PromotedIs, FieldsAre
<1>2. p.destinations \cap Broad = {}
  BY PromotedIs
<1>3. /\ \A f \in Fields \ {"destinations", "goal", "routeConfirmed", "delegated"} :
           Promoted(p)[f] = p[f]
      /\ Promoted(p).goal = p.goal
      /\ Promoted(p).routeConfirmed = p.routeConfirmed
      /\ Promoted(p).delegated = p.delegated
  <2>1. {p.goal, p.routeConfirmed, p.delegated} \subseteq BOOLEAN
    BY <1>1, RequestIsTyped
  <2>2. p.delegated => ~p.routeConfirmed /\ p.overnight # {}
    BY <1>1, PromotedIs
  <2> HIDE DEF p
  <2> QED
    BY <1>1, <1>2, <2>1, <2>2, PromotedIs
<1>4. Promoted(p).destinations = p.destinations
  <2>1. RouteResolved(Promoted(p)) = RouteResolved(p)
    BY <1>3, FieldsAre DEF RouteResolved
  <2>2. p.destinations = IF RouteResolved(p) THEN (r.destinations \ Broad) \cup r.overnight
                         ELSE r.destinations \ Broad
    BY PromotedIs
  <2>3. Promoted(p).destinations = IF RouteResolved(p) THEN p.destinations \cup p.overnight
                                   ELSE p.destinations
    <3>1. p.destinations \ Broad = p.destinations
      BY <1>2
    <3> HIDE DEF p
    <3> QED
      BY <1>1, <2>1, <3>1, PromotedIs
  <2> QED
    BY <1>1, <2>2, <2>3
<1>5. \A f \in Fields : Promoted(p)[f] = p[f]
  BY <1>3, <1>4
<1> QED
  BY <1>1, <1>5 DEF IsRequest

\* A merge keeps every field that the patch does not name or take away.
LEMMA MergedIs ==
    ASSUME NEW base, IsRequest(base), NEW patch, IsPatch(patch)
    PROVE  /\ IsRequest(Merged(base, patch))
           /\ Merged(base, patch).requested = Requested(base, patch)
           /\ Merged(base, patch).declined = Declined(base, patch)
           /\ Merged(base, patch).scope =
                IF "scope" \in DOMAIN patch THEN patch.scope ELSE base.scope
           /\ \A f \in {"start", "end"} \ DOMAIN patch : Merged(base, patch)[f] = base[f]
<1>1. /\ Requested(base, patch) \subseteq Capabilities
      /\ Declined(base, patch) \subseteq Capabilities
  <2>1. base.requested \subseteq Capabilities /\ base.declined \subseteq Capabilities
    BY RequestIsTyped
  <2>2. /\ Mentions(patch, {"requested"}) => patch.requested \subseteq Capabilities
        /\ Mentions(patch, {"declined"}) => patch.declined \subseteq Capabilities
    BY FieldsAre DEF IsPatch, Mentions, Values
  <2> QED
    BY <2>1, <2>2 DEF Requested, Declined
<1> DEFINE route == /\ Mentions(patch, {"destinations", "goal", "overnight"})
                    /\ ~Mentions(patch, {"routeConfirmed", "delegated"})
           services == Mentions(patch, {"requested", "declined"})
           Kept(f) == IF f \in DOMAIN patch THEN patch[f] ELSE base[f]
           merged == [f \in Fields |->
            CASE f = "requested" -> Requested(base, patch)
              [] f = "declined" -> Declined(base, patch)
              [] f \in {"routeConfirmed", "delegated"} -> ~route /\ Kept(f)
              [] f = "confirmed" -> IF services /\ f \notin DOMAIN patch THEN FALSE ELSE Kept(f)
              [] OTHER -> Kept(f)]
<1>2. Merged(base, patch) = merged
  BY DEF Merged
<1>3. \A f \in Fields : Kept(f) \in Values[f]
  BY DEF IsPatch, IsRequest
<1> HIDE DEF Kept, route, services
<1>4. \A f \in Fields : merged[f] \in Values[f]
  <2> SUFFICES ASSUME NEW f \in Fields PROVE merged[f] \in Values[f]
    OBVIOUS
  <2>1. CASE f \in {"requested", "declined"}
    <3>1. Values["requested"] = SUBSET Capabilities /\ Values["declined"] = SUBSET Capabilities
      BY DEF Values
    <3>2. CASE f = "requested"
      BY <3>1, <3>2, <1>1
    <3>3. CASE f = "declined"
      BY <3>1, <3>3, <1>1
    <3> QED
      BY <2>1, <3>2, <3>3
  <2>2. CASE f \in {"routeConfirmed", "delegated"}
    <3>1. Values["routeConfirmed"] = BOOLEAN /\ Values["delegated"] = BOOLEAN
      BY DEF Values
    <3>2. (~route /\ Kept(f)) \in BOOLEAN
      OBVIOUS
    <3>3. merged[f] = (~route /\ Kept(f))
      BY <2>2
    <3> QED
      BY <2>2, <3>1, <3>2, <3>3
  <2>3. CASE f = "confirmed"
    BY <2>3, <1>3 DEF Values
  <2>4. CASE f \notin {"requested", "declined", "routeConfirmed", "delegated", "confirmed"}
    BY <2>4, <1>3
  <2> QED
    BY <2>1, <2>2, <2>3, <2>4
<1>5. IsRequest(merged)
  BY <1>4 DEF IsRequest
<1>6. /\ merged.requested = Requested(base, patch) /\ merged.declined = Declined(base, patch)
      /\ merged.scope = Kept("scope")
      /\ merged.start = Kept("start") /\ merged.end = Kept("end")
  BY FieldsAre
<1> QED
  BY <1>2, <1>5, <1>6 DEF Kept

(* Offers and decisions. *)

\* An offer is a function of the fingerprint while the scope is not confirmed.
LEMMA OfferedIs ==
    ASSUME NEW r, IsRequest(r)
    PROVE  /\ Offered(r) \subseteq Capabilities
           /\ Offered(r) \cap (r.requested \cup r.declined) = {}
           /\ Offered(r) # {} => IsShown(Offered(r), Fingerprint(r))
<1>1. Offered(r) \subseteq Capabilities /\ Offered(r) \cap (r.requested \cup r.declined) = {}
  BY DEF Offered, Effective
<1>2. ASSUME Offered(r) # {}
      PROVE  Offered(r) = Offered(Reopened(Fingerprint(r)))
  <2>1. ~r.confirmed
    BY <1>2 DEF Offered
  <2>2. \A f \in Fields \ {"confirmed"} : Reopened(Fingerprint(r))[f] = r[f]
    BY DEF Reopened, Fingerprint
  <2>3. ~ Reopened(Fingerprint(r)).confirmed
    BY FieldsAre DEF Reopened
  <2>4. Effective(r) = Effective(Reopened(Fingerprint(r)))
    BY <2>2, FieldsAre DEF Effective
  <2> QED
    BY <2>1, <2>2, <2>3, <2>4, FieldsAre DEF Offered, DayTrip
<1> QED
  BY <1>1, <1>2 DEF IsShown

\* So what is offered is what a decision on it will name.
LEMMA OfferIsShown ==
    ASSUME NEW r, IsRequest(r)
    PROVE  OffersAreShown(Offer(r))
BY OfferedIs DEF OffersAreShown, Offer

\* A decision that is accepted was made on the services that are offered now.
LEMMA AcceptedIs ==
    ASSUME NEW r, IsRequest(r), NEW d, DecisionIsOfOffer(d), d # None, Accepts(r, d)
    PROVE  d.shown = Offered(r) /\ Offered(r) # {} /\ Taken(d, Offered(r)) \subseteq Offered(r)
<1>1. Offered(r) # {} /\ d.of = Fingerprint(r) /\ d.selected \subseteq Offered(r)
  BY DEF Accepts, Offer
<1>2. d.shown = Offered(r)
  BY <1>1, OfferedIs DEF DecisionIsOfOffer, IsShown
<1> QED
  BY <1>1, <1>2 DEF Taken

(* Consent survives what intake does to a request. *)

\* What is planned is of the capabilities and was not declined.
LEMMA EffectiveIs ==
    ASSUME NEW r, IsRequest(r)
    PROVE  /\ Effective(r) \subseteq Capabilities /\ Effective(r) \cap r.declined = {}
           /\ r.requested \subseteq Effective(r) \cup r.declined
BY RequestIsTyped, PolicyAssumption DEF Effective

\* Reading a request again changes nothing about services and dates.
LEMMA ReadingKeepsConsent ==
    ASSUME NEW r, IsRequest(r), IsValid(r), NEW yes, NEW no, IsConsented(r, yes, no)
    PROVE  /\ IsRequest(Promoted(r)) /\ IsValid(Promoted(r))
           /\ IsConsented(Promoted(r), yes, no)
           /\ Settled(Promoted(r)) = Settled(r)
<1>1. IsRequest(Promoted(r))
  BY PromotedIs
<1>2. /\ Promoted(r).requested = r.requested /\ Promoted(r).declined = r.declined
      /\ Promoted(r).scope = r.scope
      /\ Promoted(r).start = r.start /\ Promoted(r).end = r.end
  BY PromotedIs, FieldsAre
<1> QED
  BY <1>1, <1>2 DEF IsConsented, IsValid, Settled

\* A decision on what is offered now is consent to what it takes, and settles
\* every service that is offered.
LEMMA DecisionIsConsent ==
    ASSUME NEW r, IsRequest(r), IsValid(r), NEW yes, NEW no, IsConsented(r, yes, no),
           yes \subseteq Capabilities, no \subseteq Capabilities,
           NEW d, DecisionIsOfOffer(d), d # None, Accepts(r, d)
    PROVE  LET x == Merged(r, DecisionPatch(r, d))
               taken == Taken(d, d.shown) IN
           /\ IsRequest(x) /\ IsValid(x)
           /\ IsConsented(x, yes \cup taken, (no \ taken) \cup (d.shown \ taken))
           /\ taken \subseteq Capabilities /\ d.shown \subseteq Capabilities
           /\ Settled(r) \subseteq Settled(x) /\ Settled(x) # Settled(r)
<1> DEFINE patch == DecisionPatch(r, d)
           x == Merged(r, patch)
           taken == Taken(d, d.shown)
<1>1. /\ d.shown = Offered(r) /\ Offered(r) # {} /\ taken \subseteq Offered(r)
      /\ Offered(r) \subseteq Capabilities
      /\ Offered(r) \cap (r.requested \cup r.declined) = {}
  BY AcceptedIs, OfferedIs
<1>2. /\ DOMAIN patch = {"requested", "declined", "confirmed", "exclusive"}
      /\ patch.requested = Effective(r) \cup taken
      /\ patch.declined = Offered(r) \ taken
      /\ patch.confirmed = TRUE /\ patch.exclusive = TRUE
  BY <1>1 DEF DecisionPatch
<1> HIDE DEF patch, taken
<1>3. IsPatch(patch)
  <2>1. /\ Values["requested"] = SUBSET Capabilities /\ Values["declined"] = SUBSET Capabilities
        /\ Values["confirmed"] = BOOLEAN /\ Values["exclusive"] = BOOLEAN
    BY DEF Values
  <2>2. patch.requested \subseteq Capabilities /\ patch.declined \subseteq Capabilities
    BY <1>1, <1>2, EffectiveIs
  <2> QED
    BY <1>2, <2>1, <2>2 DEF IsPatch
<1>4. /\ IsRequest(x) /\ x.requested = Requested(r, patch) /\ x.declined = Declined(r, patch)
      /\ x.scope = r.scope /\ x.start = r.start /\ x.end = r.end
  BY <1>2, <1>3, MergedIs
<1>5. /\ x.requested = (r.requested \cup patch.requested) \ patch.declined
      /\ x.declined = (r.declined \ patch.requested) \cup patch.declined
  BY <1>2, <1>4 DEF Requested, Declined, Mentions
<1> HIDE DEF x
<1>6. IsConsented(x, yes \cup taken, (no \ taken) \cup (d.shown \ taken))
  <2>1. Effective(r) \subseteq yes
    BY DEF IsConsented, Effective
  <2>2. x.requested \cap x.declined = {}
    BY <1>5 DEF IsConsented
  <2>3. x.requested \subseteq yes \cup taken
    BY <1>2, <1>5, <2>1 DEF IsConsented
  <2>4. (no \ taken) \cup (d.shown \ taken) \subseteq x.declined
    BY <1>1, <1>2, <1>5, EffectiveIs DEF IsConsented
  <2> QED
    BY <1>4, <2>2, <2>3, <2>4 DEF IsConsented
<1>7. Settled(r) \subseteq Settled(x) /\ Offered(r) \subseteq Settled(x)
  BY <1>2, <1>5 DEF Settled
<1> QED
  BY <1>1, <1>4, <1>6, <1>7 DEF Settled, IsValid, x, patch, taken

\* So are the words of a message, for what they ask for and refuse.
LEMMA WordsAreConsent ==
    ASSUME NEW base, IsRequest(base), NEW yes, NEW no, IsConsented(base, yes, no),
           yes \subseteq Capabilities, no \subseteq Capabilities,
           NEW patch, IsPatch(patch), Words(patch, yes, no)
    PROVE  /\ IsRequest(Merged(base, patch))
           /\ IsConsented(Merged(base, patch), agreed', refused')
           /\ agreed' \subseteq Capabilities /\ refused' \subseteq Capabilities
           /\ Settled(base) \subseteq Settled(Merged(base, patch))
<1> DEFINE x == Merged(base, patch)
           asked == IF Mentions(patch, {"requested"}) THEN patch.requested ELSE {}
           denied == IF Mentions(patch, {"declined"}) THEN patch.declined ELSE {}
<1>1. asked \subseteq Capabilities /\ denied \subseteq Capabilities
  BY FieldsAre DEF IsPatch, Mentions, Values
<1>2. /\ IsRequest(x) /\ x.requested = (base.requested \cup asked) \ denied
      /\ x.declined = (base.declined \ asked) \cup denied
      /\ x.scope = IF "scope" \in DOMAIN patch THEN patch.scope ELSE base.scope
  BY MergedIs DEF Requested, Declined
<1>3. /\ yes \cup asked \subseteq agreed' /\ refused' = (no \ asked) \cup denied
      /\ agreed' \subseteq yes \cup asked \cup Defaults
      /\ "scope" \in DOMAIN patch /\ patch.scope = "full_itinerary" => Defaults \subseteq agreed'
  BY DEF Words, Mentions
<1> HIDE DEF x, asked, denied
<1>4. IsConsented(x, agreed', refused')
  BY <1>2, <1>3 DEF IsConsented
<1>5. Settled(base) \subseteq Settled(x)
  BY <1>2 DEF Settled
<1> QED
  BY <1>1, <1>2, <1>3, <1>4, <1>5, PolicyAssumption DEF x

-----------------------------------------------------------------------------
(* Every step keeps the invariant. *)

\* A message, with a decision that was shown to its tab or with none.
LEMMA SendKeeps ==
    ASSUME PolicyInv, NEW tab \in Tabs, NEW words \in Replies \cup {Silence},
           NEW d, DecisionIsOfOffer(d), Send(tab, words, d)
    PROVE  PolicyInv'
<1>1. Shapes'
  BY PolicyAssumption DEF PolicyInv, Shapes, Send, IsRequest, IsValid
<1>2. OffersAreKnown'
  BY DEF PolicyInv, Shapes, OffersAreKnown, OffersAreShown, DecisionIsOfOffer, Send
<1>3. RequestIsRead' /\ IsConsented(request, agreed, refused)'
  BY DEF PolicyInv, RequestIsRead, Send
<1> QED
  BY <1>1, <1>2, <1>3 DEF PolicyInv

\* What a tab sends names its card, which shows an offer.
LEMMA TabsKeep ==
    ASSUME PolicyInv, NEW tab \in Tabs, Write(tab) \/ Choose(tab) \/ Retry(tab)
    PROVE  PolicyInv'
<1>1. CASE Write(tab)
  <2>1. DecisionIsOfOffer(None)
    BY DEF DecisionIsOfOffer
  <2> QED
    BY <1>1, <2>1, SendKeeps DEF Write
<1>2. CASE Choose(tab)
  <2>1. PICK action \in Actions, selected \in SUBSET Capabilities :
          Send(tab, Silence, Decide(action, selected, card[tab]))
    BY <1>2 DEF Choose
  <2>2. DecisionIsOfOffer(Decide(action, selected, card[tab]))
    BY <1>2 DEF Choose, PolicyInv, OffersAreKnown, OffersAreShown, DecisionIsOfOffer, Decide
  <2> QED
    BY <2>1, <2>2, SendKeeps
<1>3. CASE Retry(tab)
  BY <1>3, SendKeeps DEF Retry, PolicyInv, OffersAreKnown
<1> QED
  BY <1>1, <1>2, <1>3

\* A message that is cut or answered without intake, and a tab that refreshes.
LEMMA RestKeeps ==
    ASSUME PolicyInv,
           UNCHANGED vars \/ Cut \/ AnswerShallowly \/ \E tab \in Tabs : Refresh(tab)
    PROVE  PolicyInv'
<1>1. /\ UNCHANGED <<request, offer, decision, turns, sent, agreed, refused>>
      /\ turn' = turn \/ turn' = None
      /\ card' = card \/ \E tab \in Tabs : card' = [card EXCEPT ![tab] = offer]
  BY DEF PolicyInv, Shapes, vars, thread, Cut, AnswerShallowly, Refresh, Shows
<1>2. Shapes'
  BY <1>1 DEF PolicyInv, Shapes
<1>3. OffersAreKnown'
  BY <1>1 DEF PolicyInv, Shapes, OffersAreKnown
<1>4. RequestIsRead' /\ IsConsented(request, agreed, refused)'
  BY <1>1 DEF PolicyInv, RequestIsRead
<1> QED
  BY <1>2, <1>3, <1>4 DEF PolicyInv

\* What intake may store beside a message: a request read back, that nobody's
\* position was lost in and that only plans what was agreed to.
IsAgreedOn(x) ==
    /\ IsRequest(x) /\ IsValid(x)
    /\ IsConsented(x, agreed', refused')
    /\ agreed' \subseteq Capabilities /\ refused' \subseteq Capabilities
    /\ Settled(request) \subseteq Settled(x)

\* What the model extracts, with or without its permission fields.
LEMMA PatchesAre ==
    ASSUME NEW patch \in Patches
    PROVE  IsPatch(patch) /\ IsPatch(WithoutServices(patch))
BY PolicyAssumption DEF IsPatch, WithoutServices

\* What a reply in words decides is a decision on the present offer.
LEMMA ReplyIsAccepted ==
    ASSUME NEW r, IsRequest(r), NEW words, NEW d, d = ReplyDecision(r, words), d # None
    PROVE  DecisionIsOfOffer(d) /\ Accepts(r, d)
<1>1. Offer(r) # None
  BY DEF ReplyDecision
<1>2. /\ Offered(r) # {} /\ Offer(r).of = Fingerprint(r) /\ Offer(r).offered = Offered(r)
      /\ Offered(r) \subseteq Capabilities /\ IsShown(Offered(r), Fingerprint(r))
  BY <1>1, OfferedIs DEF Offer
<1>3. \E action \in Actions, selected \in SUBSET Offered(r) :
        d = Decide(action, selected, Offer(r))
  BY <1>1 DEF ReplyDecision, Actions
<1>4. PICK action \in Actions, selected \in SUBSET Offered(r) :
        d = Decide(action, selected, Offer(r))
  BY <1>3
<1> QED
  BY <1>1, <1>2, <1>4 DEF Decide, DecisionIsOfOffer, Accepts

\* Intake fails and keeps the request, or stores one that is agreed on; with a
\* decision that it accepts, something is settled that was not.
LEMMA IntakeStores ==
    ASSUME PolicyInv, Intake
    PROVE  \/ IntakeFails
           \/ \E x : /\ IsAgreedOn(x) /\ Store(Promoted(x))
                     /\ decision # None => Settled(x) # Settled(request)
<1> DEFINE r == Promoted(request)
           Stores == \E x : /\ IsAgreedOn(x) /\ Store(Promoted(x))
                            /\ decision # None => Settled(x) # Settled(request)
<1>1. /\ IsRequest(r) /\ IsValid(r) /\ IsConsented(r, agreed, refused)
      /\ Settled(r) = Settled(request)
      /\ agreed \subseteq Capabilities /\ refused \subseteq Capabilities
  BY ReadingKeepsConsent DEF PolicyInv, Shapes
<1> HIDE DEF r
<1>2. ASSUME decision # None, Accepts(r, decision), Store(Apply(r, decision)), Consent(decision)
      PROVE  Stores
  <2> DEFINE x == Merged(r, DecisionPatch(r, decision))
  <2>1. DecisionIsOfOffer(decision)
    BY DEF PolicyInv, OffersAreKnown
  <2>2. IsAgreedOn(x) /\ Settled(x) # Settled(request)
    BY <1>1, <1>2, <2>1, DecisionIsConsent DEF IsAgreedOn, Consent
  <2>3. Store(Promoted(x))
    BY <1>2 DEF Apply
  <2> QED
    BY <2>2, <2>3
<1>3. ASSUME NEW base, IsRequest(base), NEW yes, NEW no, IsConsented(base, yes, no),
             yes \subseteq Capabilities, no \subseteq Capabilities,
             Settled(request) \subseteq Settled(base), decision = None,
             NEW patch, IsPatch(patch), Extracted(base, patch, yes, no)
      PROVE  IntakeFails \/ Stores
  <2>1. CASE IsValid(Merged(base, patch))
    <3>1. Words(patch, yes, no) /\ Store(Promoted(Merged(base, patch)))
      BY <1>3, <2>1 DEF Extracted
    <3>2. IsAgreedOn(Merged(base, patch))
      BY <1>3, <2>1, <3>1, WordsAreConsent DEF IsAgreedOn
    <3> QED
      BY <1>3, <3>1, <3>2
  <2>2. CASE ~IsValid(Merged(base, patch))
    BY <1>3, <2>2 DEF Extracted
  <2> QED
    BY <2>1, <2>2
<1>4. CASE IntakeDecides
  BY <1>2, <1>4 DEF IntakeDecides, r
<1>5. CASE IntakeReads
  <2> DEFINE d == IF "service_scope_confirmation" \in pending
                  THEN ReplyDecision(r, turn.words) ELSE None
             taken == Taken(d, d.shown)
             yes == agreed \cup taken
             no == (refused \ taken) \cup (d.shown \ taken)
  <2>1. decision = None
    BY <1>5 DEF IntakeReads
  <2>2. CASE d = None /\ \E patch \in Patches : Extracted(r, patch, agreed, refused)
    BY <1>1, <1>3, <2>1, <2>2, PatchesAre
  <2>3. CASE d # None
    <3>1. DecisionIsOfOffer(d) /\ Accepts(r, d)
      BY <1>1, <2>3, ReplyIsAccepted
    <3> DEFINE x == Merged(r, DecisionPatch(r, d))
    <3>2. /\ IsRequest(x) /\ IsValid(x) /\ IsConsented(x, yes, no)
          /\ yes \subseteq Capabilities /\ no \subseteq Capabilities
          /\ Settled(request) \subseteq Settled(x)
      BY <1>1, <2>3, <3>1, DecisionIsConsent
    <3>3. Apply(r, d) = Promoted(x)
      BY DEF Apply
    <3> HIDE DEF x, d
    <3>4. CASE Store(Apply(r, d)) /\ Consent(d)
      BY <2>1, <3>2, <3>3, <3>4 DEF IsAgreedOn, Consent
    <3>5. CASE \E patch \in Patches :
                 Extracted(Apply(r, d), WithoutServices(patch), yes, no)
      <4>1. /\ IsRequest(Apply(r, d)) /\ IsConsented(Apply(r, d), yes, no)
            /\ Settled(request) \subseteq Settled(Apply(r, d))
        BY <3>2, <3>3, ReadingKeepsConsent
      <4> HIDE DEF yes, no
      <4> QED
        BY <1>3, <2>1, <3>2, <3>5, <4>1, PatchesAre
    <3> QED
      BY <1>5, <2>3, <3>4, <3>5 DEF IntakeReads, r, d
  <2> QED
    BY <1>5, <2>2, <2>3 DEF IntakeReads, r
<1> QED
  BY <1>4, <1>5 DEF Intake

\* Intake as a whole.
LEMMA IntakeKeeps ==
    ASSUME PolicyInv, Intake
    PROVE  PolicyInv'
<1>1. /\ turn # None /\ turn.tab \in Tabs /\ turn' = None /\ UNCHANGED <<turns, sent>>
      /\ card' = [card EXCEPT ![turn.tab] = offer']
  BY DEF PolicyInv, Shapes, Intake, Shows
<1>2. CASE IntakeFails
  <2>1. UNCHANGED <<request, offer, agreed, refused>> /\ decision' = None
    BY <1>2 DEF IntakeFails
  <2> QED
    BY <1>1, <2>1 DEF PolicyInv, Shapes, OffersAreKnown, RequestIsRead, DecisionIsOfOffer
<1>3. ASSUME NEW x, IsAgreedOn(x), Store(Promoted(x))
      PROVE  PolicyInv'
  <2>1. /\ request' = Promoted(x) /\ offer' = Offer(Promoted(x)) /\ decision' = None
    BY <1>3 DEF Store
  <2>2. /\ IsRequest(Promoted(x)) /\ IsValid(Promoted(x))
        /\ IsConsented(Promoted(x), agreed', refused')
        /\ agreed' \subseteq Capabilities /\ refused' \subseteq Capabilities
    BY <1>3, ReadingKeepsConsent DEF IsAgreedOn
  <2>3. Shapes'
    BY <1>1, <2>1, <2>2 DEF PolicyInv, Shapes
  <2>4. OffersAreKnown'
    <3>1. OffersAreShown(Offer(Promoted(x))) /\ DecisionIsOfOffer(None)
      BY <2>2, OfferIsShown DEF DecisionIsOfOffer
    <3> QED
      BY <1>1, <2>1, <3>1 DEF PolicyInv, Shapes, OffersAreKnown
  <2>5. RequestIsRead'
    <3>1. Promoted(x).overnight = x.overnight
      BY <1>3, PromotedIs, FieldsAre DEF IsAgreedOn
    <3> QED
      BY <1>3, <2>1, <3>1, PromotedOnce DEF RequestIsRead, IsAgreedOn
  <2> QED
    BY <2>1, <2>2, <2>3, <2>4, <2>5 DEF PolicyInv
<1> QED
  BY <1>2, <1>3, IntakeStores

\* An empty request.
LEMMA PolicyInit ==
    ASSUME Init
    PROVE  PolicyInv
<1>1. IsRequest(Blank)
  BY FieldsAre DEF IsRequest, Values, Blank, Scopes
<1>2. Promoted(Blank) = Blank
  <2> DEFINE p == Promoted(Blank)
  <2>b. /\ Blank.destinations = {} /\ Blank.overnight = {} /\ Blank.goal = FALSE
        /\ Blank.routeConfirmed = FALSE /\ Blank.delegated = FALSE
    BY DEF Blank
  <2>p. /\ p.goal = (Blank.goal \/ Blank.destinations \cap Broad # {})
        /\ p.routeConfirmed = (Blank.routeConfirmed /\ Blank.destinations \cap Broad = {})
        /\ p.delegated = (/\ Blank.delegated /\ Blank.destinations \cap Broad = {}
                          /\ ~Blank.routeConfirmed /\ Blank.overnight # {})
        /\ p.destinations = IF RouteResolved(p) THEN (Blank.destinations \ Broad) \cup Blank.overnight
                            ELSE Blank.destinations \ Broad
        /\ \A f \in Fields \ {"destinations", "goal", "routeConfirmed", "delegated"} : p[f] = Blank[f]
    BY <1>1, PromotedIs
  <2> HIDE DEF p
  <2>1. /\ p.goal = Blank.goal /\ p.routeConfirmed = Blank.routeConfirmed
        /\ p.delegated = Blank.delegated /\ p.destinations = Blank.destinations
        /\ \A f \in Fields \ {"destinations", "goal", "routeConfirmed", "delegated"} : p[f] = Blank[f]
    BY <2>b, <2>p
  <2>2. \A f \in Fields : p[f] = Blank[f]
    BY <2>1
  <2> QED
    BY <1>1, <2>2, PromotedIs DEF IsRequest, p
<1>3. IsConsented(Blank, {}, {}) /\ IsValid(Blank)
  BY DEF IsConsented, Blank, IsValid
<1> QED
  BY <1>1, <1>2, <1>3, PolicyAssumption DEF Init, PolicyInv, Shapes, OffersAreKnown,
     OffersAreShown, DecisionIsOfOffer, RequestIsRead

\* Every step.
LEMMA PolicyNext ==
    ASSUME PolicyInv, [Next]_vars
    PROVE  PolicyInv'
BY TabsKeep, RestKeeps, IntakeKeeps DEF Next

\* The invariant of every run.
LEMMA PolicyInvHolds == Spec => []PolicyInv
<1>1. Init => PolicyInv
  BY PolicyInit
<1>2. PolicyInv /\ [Next]_vars => PolicyInv'
  BY PolicyNext
<1> QED
  BY <1>1, <1>2, PTL DEF Spec

\* BR-INT-004: what effective_capabilities plans was asked for, accepted in an
\* offer that showed it or is a default of a whole trip, and was not refused
\* since: whichever of the offers a decision answers, from whichever tab, late,
\* repeated or beside a message of its own.
THEOREM OnlyAgreedServicesHolds == Spec => []OnlyAgreedServices
<1>1. PolicyInv => OnlyAgreedServices
  BY DEF PolicyInv, IsConsented, OnlyAgreedServices, Effective
<1> QED
  BY <1>1, PolicyInvHolds, PTL

\* The stored request keeps its shape, its offer is the one that
\* apply_service_scope_decision computes when it is answered, and a request with
\* no missing field has none for the node that reads it back.
THEOREM OfferIsUsableHolds == Spec => []OfferIsUsable
<1>1. PolicyInv => TypeOK
  BY DEF PolicyInv, Shapes, OffersAreKnown, OffersAreShown, DecisionIsOfOffer,
     IsConsented, TypeOK, IsOffer, IsDecision
<1>2. PolicyInv => OfferCanBeAnswered /\ ReadyStaysReady
  BY DEF PolicyInv, RequestIsRead, OfferCanBeAnswered, ReadyStaysReady, Offer
<1>3. PolicyInv => OfferIsUsable
  BY <1>1, <1>2 DEF OfferIsUsable
<1> QED
  BY <1>3, PolicyInvHolds, PTL

\* merge_trip_request forgets no service that was asked for or refused, and a
\* decision that is applied settles one more: repeated, it changes nothing.
THEOREM DecisionsSettleHolds == Spec => DecisionsSettle
<1> DEFINE Settles == /\ Settled(request) \subseteq Settled(request')
                      /\ turn # None /\ decision # None /\ request' # request
                           => Settled(request) # Settled(request')
<1>1. ASSUME PolicyInv, Next
      PROVE  Settles
  <2>1. CASE UNCHANGED request
    BY <2>1 DEF Settled
  <2>2. CASE Intake
    <3>1. CASE IntakeFails
      BY <2>1, <3>1 DEF IntakeFails
    <3>2. ASSUME NEW x, IsAgreedOn(x), Store(Promoted(x)),
                 decision # None => Settled(x) # Settled(request)
          PROVE  Settles
      <4>1. Settled(Promoted(x)) = Settled(x) /\ request' = Promoted(x)
        BY <3>2, ReadingKeepsConsent DEF IsAgreedOn, Store
      <4> QED
        BY <3>2, <4>1 DEF IsAgreedOn
    <3> QED
      BY <1>1, <2>2, <3>1, <3>2, IntakeStores
  <2> QED
    BY <1>1, <2>1, <2>2 DEF Next, Write, Choose, Retry, Send, Refresh, Cut,
       AnswerShallowly, thread
<1>2. PolicyInv /\ [Next]_vars => [Settles]_vars
  BY <1>1
<1> QED
  BY <1>2, PolicyInvHolds, PTL DEF Spec, DecisionsSettle

-----------------------------------------------------------------------------
(* EvidenceSearch: the searches and the cache. *)

IsCall(c) ==
    c = [query |-> c.query, phase |-> c.phase, tries |-> c.tries, failed |-> c.failed,
         pages |-> c.pages]

\* A search that has not ended has an attempt left.
SoundCall(c) ==
    /\ IsCall(c)
    /\ c.phase \in Phases /\ c.tries \in 0..MaxAttempts
    /\ c.phase # "ended" => c.tries < MaxAttempts
    /\ c.query.topic \in ToSet(TopicOrder) /\ IsList(c.pages)

\* The searches of a gather; what is on its way has a permit.
SoundCalls(cs) ==
    /\ IsList(cs) /\ \A i \in 1..Len(cs) : SoundCall(cs[i])
    /\ Len(cs) <= MaxQueries
    /\ Cardinality({i \in 1..Len(cs) : cs[i].phase = "posted"}) <= Concurrency

SoundAnswer(a) ==
    a = [age |-> a.age, pages |-> a.pages] /\ a.age \in 0..(TTL + 1) /\ IsList(a.pages)

SoundCache(c) ==
    /\ c = [k \in DOMAIN c |-> c[k]] /\ \A k \in DOMAIN c : SoundAnswer(c[k])
    /\ IsFiniteSet(DOMAIN c) /\ Cardinality(DOMAIN c) <= CacheSize

\* A step of search i leaves the others as they are, and the question it asks.
Moves(i, c) ==
    /\ calls' = [calls EXCEPT ![i] = c]
    /\ SoundCall(c) /\ c.query = calls[i].query
    /\ c.phase = "posted" => Cardinality(Posted) < Concurrency

LEMMA Bounds ==
    /\ Concurrency \in Nat \ {0} /\ MaxAttempts \in Nat \ {0} /\ CacheSize \in Nat \ {0}
    /\ TTL \in Nat /\ MaxQueries \in Nat /\ MaxRuns \in Nat
  BY TransportAssumption, ReadinessAssumption

\* The number of calls on their way stays within the permits, and what a step
\* does not change stays what it is.
LEMMA MovesKeep ==
    ASSUME SoundCalls(calls), NEW i \in 1..Len(calls), NEW c, Moves(i, c)
    PROVE  /\ SoundCalls(calls') /\ Len(calls') = Len(calls)
           /\ \A k \in 1..Len(calls) : calls'[k].query = calls[k].query
<1> DEFINE n == Len(calls)
           out(cs) == {k \in 1..n : cs[k].phase = "posted"}
<1>1. n \in Nat /\ DOMAIN calls = 1..n /\ calls = [k \in 1..n |-> calls[k]]
  BY ListIs DEF SoundCalls
<1>2. /\ calls' = [k \in 1..n |-> calls'[k]]
      /\ \A k \in 1..n : calls'[k] = IF k = i THEN c ELSE calls[k]
  BY <1>1 DEF Moves
<1> HIDE DEF n
<1>3. IsList(calls') /\ Len(calls') = n
  BY <1>1, <1>2, ListMade
<1>4. \A k \in 1..n : SoundCall(calls'[k]) /\ calls'[k].query = calls[k].query
  BY <1>2 DEF Moves, SoundCalls, n
<1>5. IsFiniteSet(1..n) /\ out(calls) \in SUBSET (1..n) /\ Posted = out(calls)
  BY <1>1, FS_Interval DEF Posted
<1>6. IsFiniteSet(out(calls)) /\ Cardinality(out(calls)) \in Nat
  BY <1>5, FS_Subset, FS_CardinalityType
<1>7. Cardinality(out(calls)) <= Concurrency
  BY DEF SoundCalls, n
<1>8. Cardinality(out(calls')) <= Concurrency
  <2>1. CASE c.phase = "posted"
    <3>1. out(calls') \in SUBSET (out(calls) \cup {i})
      BY <1>2
    <3>2. Cardinality(out(calls)) < Concurrency
      BY <1>5, <2>1 DEF Moves
    <3> HIDE DEF out
    <3>3. /\ IsFiniteSet(out(calls) \cup {i})
          /\ Cardinality(out(calls) \cup {i}) \in Nat
          /\ Cardinality(out(calls) \cup {i}) <= Cardinality(out(calls)) + 1
      <4> DEFINE S == out(calls)
      <4> HIDE DEF S
      <4>1. IsFiniteSet(S) /\ Cardinality(S) \in Nat
        BY <1>6 DEF S
      <4>2. IsFiniteSet(S \cup {i})
            /\ Cardinality(S \cup {i}) = IF i \in S THEN Cardinality(S) ELSE Cardinality(S) + 1
        BY <4>1, FS_AddElement
      <4> QED
        BY <4>1, <4>2 DEF S
    <3>4. Cardinality(out(calls')) <= Cardinality(out(calls) \cup {i})
          /\ Cardinality(out(calls')) \in Nat
      BY <3>1, <3>3, FS_Subset, FS_CardinalityType
    <3> QED
      BY <1>6, <3>2, <3>3, <3>4, Bounds
  <2>2. CASE c.phase # "posted"
    <3>1. out(calls') \in SUBSET out(calls)
      BY <1>2, <2>2
    <3> HIDE DEF out
    <3>2. Cardinality(out(calls')) <= Cardinality(out(calls)) /\ Cardinality(out(calls')) \in Nat
      BY <1>6, <3>1, FS_Subset, FS_CardinalityType
    <3> QED
      BY <1>6, <1>7, <3>2, Bounds
  <2> QED
    BY <2>1, <2>2
<1> QED
  BY <1>3, <1>4, <1>8 DEF SoundCalls, n

\* Room is made for an answer by the oldest there is.
LEMMA StoredSound ==
    ASSUME SoundCache(cache), NEW q, NEW pages, IsList(pages)
    PROVE  SoundCache(Stored(q, pages))
<1> DEFINE D == DOMAIN cache
           Oldest(k) == \A j \in D : cache[k].age >= cache[j].age
           oldest == CHOOSE k \in D : Oldest(k)
           kept == IF Cardinality(D) >= CacheSize THEN D \ {oldest} ELSE D
           new == [k \in kept \cup {q} |-> IF k = q THEN [age |-> 0, pages |-> pages]
                                           ELSE cache[k]]
<1>1. Stored(q, pages) = new
  BY DEF Stored
<1>2. /\ \A k \in D : SoundAnswer(cache[k])
      /\ IsFiniteSet(D) /\ Cardinality(D) \in Nat /\ Cardinality(D) <= CacheSize
  BY FS_CardinalityType DEF SoundCache
<1>3. SoundAnswer([age |-> 0, pages |-> pages])
  BY Bounds DEF SoundAnswer
<1>4. kept \in SUBSET D
  OBVIOUS
<1>5. \A k \in DOMAIN new : SoundAnswer(new[k])
  BY <1>2, <1>3, <1>4
<1>6. IsFiniteSet(kept) /\ Cardinality(kept) \in Nat /\ Cardinality(kept) + 1 <= CacheSize
  <2>1. CASE Cardinality(D) >= CacheSize
    <3>1. D # {}
      BY <1>2, <2>1, Bounds, FS_EmptySet
    <3>2. \E k \in D : Oldest(k)
      <4> DEFINE left == {TTL + 1 - cache[k].age : k \in D}
      <4>1. \A k \in D : cache[k].age \in 0..(TTL + 1)
        BY <1>2 DEF SoundAnswer
      <4>2. left \in SUBSET Nat /\ left # {}
        BY <3>1, <4>1, Bounds
      <4>3. PICK x \in left : \A y \in left : x <= y
        BY <4>2, NatMinimum
      <4>4. PICK k \in D : x = TTL + 1 - cache[k].age
        BY <4>3
      <4>5. ASSUME NEW j \in D PROVE cache[k].age >= cache[j].age
        <5>1. x <= TTL + 1 - cache[j].age
          BY <4>3
        <5> QED
          BY <4>1, <4>4, <5>1, Bounds
      <4> QED
        BY <4>5
    <3>3. oldest \in D
      <4> HIDE DEF Oldest
      <4> QED
        BY <3>2
    <3>4. kept = D \ {oldest}
      BY <2>1
    <3> HIDE DEF kept, oldest, D
    <3> QED
      <4>1. IsFiniteSet(D \ {oldest}) /\ Cardinality(D \ {oldest}) = Cardinality(D) - 1
        BY <1>2, <3>3, FS_RemoveElement
      <4>2. Cardinality(kept) = Cardinality(D) - 1 /\ Cardinality(kept) \in Nat
        BY <3>4, <4>1, FS_CardinalityType
      <4> QED
        BY <1>2, <3>4, <4>1, <4>2
  <2>2. CASE ~(Cardinality(D) >= CacheSize)
    BY <1>2, <2>2, Bounds
  <2> QED
    BY <2>1, <2>2
<1> HIDE DEF kept
<1>7. IsFiniteSet(kept \cup {q}) /\ Cardinality(kept \cup {q}) <= CacheSize
  <2>1. /\ IsFiniteSet(kept \cup {q})
        /\ Cardinality(kept \cup {q}) = Cardinality(kept) \/ Cardinality(kept \cup {q}) = Cardinality(kept) + 1
    BY <1>6, FS_AddElement
  <2> QED
    BY <1>6, <2>1, Bounds
<1> QED
  BY <1>1, <1>5, <1>7 DEF SoundCache

LEMMA DroppedSound ==
    ASSUME NEW c, SoundCache(c), NEW S \in SUBSET DOMAIN c
    PROVE  SoundCache(Restrict(c, S))
<1> DEFINE new == [k \in S |-> c[k]]
<1>1. Restrict(c, S) = new
  BY DEF Restrict
<1>2. \A k \in S : SoundAnswer(new[k])
  BY DEF SoundCache
<1>3. IsFiniteSet(DOMAIN c) /\ Cardinality(DOMAIN c) <= CacheSize
  BY DEF SoundCache
<1>4. /\ IsFiniteSet(S) /\ Cardinality(S) \in Nat /\ Cardinality(DOMAIN c) \in Nat
      /\ Cardinality(S) <= Cardinality(DOMAIN c)
  BY <1>3, FS_Subset, FS_CardinalityType
<1>5. Cardinality(S) <= CacheSize
  BY <1>3, <1>4, Bounds
<1> QED
  BY <1>1, <1>2, <1>4, <1>5 DEF SoundCache

LEMMA AgedSound ==
    ASSUME SoundCache(cache), Age
    PROVE  SoundCache(cache')
<1>1. cache' = [k \in DOMAIN cache |-> [cache[k] EXCEPT !.age = Min({@ + 1, TTL + 1})]]
  BY DEF Age
<1>2. ASSUME NEW k \in DOMAIN cache PROVE SoundAnswer(cache'[k])
  <2> DEFINE a == cache[k]
             two == {a.age + 1, TTL + 1}
  <2>1. a = [age |-> a.age, pages |-> a.pages] /\ a.age \in 0..(TTL + 1) /\ IsList(a.pages)
    BY DEF SoundCache, SoundAnswer
  <2>2. Min(two) \in two /\ \A y \in two : Min(two) <= y
    BY <2>1, Bounds, MinIsLeast
  <2>3. Min(two) \in 0..(TTL + 1)
    <3>1. two \subseteq Nat /\ TTL + 1 \in two
      BY <2>1, Bounds
    <3> HIDE DEF two
    <3> QED
      <4>1. Min(two) \in Nat /\ Min(two) <= TTL + 1 /\ TTL + 1 \in Nat
        BY <2>2, <3>1, Bounds
      <4> QED
        BY <4>1
  <2>4. cache'[k] = [a EXCEPT !.age = Min(two)]
    BY <1>1
  <2> HIDE DEF a, two
  <2>5. cache'[k] = [age |-> Min(two), pages |-> a.pages]
    BY <2>1, <2>4
  <2> QED
    BY <2>1, <2>3, <2>5 DEF SoundAnswer
<1>3. DOMAIN cache' = DOMAIN cache /\ cache' = [k \in DOMAIN cache' |-> cache'[k]]
  BY <1>1
<1> QED
  BY <1>2, <1>3 DEF SoundCache

\* Fields changed one after the other.
LEMMA Ending ==
    ASSUME NEW c, IsCall(c), NEW x, NEW y
    PROVE  [c EXCEPT !.phase = x, !.pages = y]
             = [query |-> c.query, phase |-> x, tries |-> c.tries, failed |-> c.failed, pages |-> y]
<1> DEFINE d1 == [c EXCEPT !.phase = x]
           d2 == [d1 EXCEPT !.pages = y]
<1>1. [c EXCEPT !.phase = x, !.pages = y] = d2
  OBVIOUS
<1>2. d1 = [query |-> c.query, phase |-> x, tries |-> c.tries, failed |-> c.failed, pages |-> c.pages]
  BY DEF IsCall
<1> HIDE DEF d1
<1>3. d2 = [query |-> c.query, phase |-> x, tries |-> c.tries, failed |-> c.failed, pages |-> y]
  BY <1>2
<1> QED
  BY <1>1, <1>3

LEMMA Refusing ==
    ASSUME NEW c, IsCall(c), NEW x, NEW y
    PROVE  [c EXCEPT !.phase = x, !.failed = y]
             = [query |-> c.query, phase |-> x, tries |-> c.tries, failed |-> y, pages |-> c.pages]
<1> DEFINE d1 == [c EXCEPT !.phase = x]
           d2 == [d1 EXCEPT !.failed = y]
<1>1. [c EXCEPT !.phase = x, !.failed = y] = d2
  OBVIOUS
<1>2. d1 = [query |-> c.query, phase |-> x, tries |-> c.tries, failed |-> c.failed, pages |-> c.pages]
  BY DEF IsCall
<1> HIDE DEF d1
<1>3. d2 = [query |-> c.query, phase |-> x, tries |-> c.tries, failed |-> y, pages |-> c.pages]
  BY <1>2
<1> QED
  BY <1>1, <1>3

LEMMA Failing ==
    ASSUME NEW c, IsCall(c), NEW t, NEW f, NEW x
    PROVE  [c EXCEPT !.tries = t, !.failed = f, !.phase = x]
             = [query |-> c.query, phase |-> x, tries |-> t, failed |-> f, pages |-> c.pages]
<1> DEFINE d1 == [c EXCEPT !.tries = t]
           d2 == [d1 EXCEPT !.failed = f]
           d3 == [d2 EXCEPT !.phase = x]
<1>1. [c EXCEPT !.tries = t, !.failed = f, !.phase = x] = d3
  OBVIOUS
<1>2. d1 = [query |-> c.query, phase |-> c.phase, tries |-> t, failed |-> c.failed, pages |-> c.pages]
  BY DEF IsCall
<1> HIDE DEF d1
<1>3. d2 = [query |-> c.query, phase |-> c.phase, tries |-> t, failed |-> f, pages |-> c.pages]
  BY <1>2
<1> HIDE DEF d2
<1>4. d3 = [query |-> c.query, phase |-> x, tries |-> t, failed |-> f, pages |-> c.pages]
  BY <1>3
<1> QED
  BY <1>1, <1>4

\* What one search does to the searches and the cache.
LEMMA StepsAreMoves ==
    ASSUME SoundCalls(calls), SoundCache(cache), NEW i \in 1..Len(calls), Step(i)
    PROVE  (\E c : Moves(i, c)) /\ SoundCache(cache')
<1> DEFINE c == calls[i]
           n == Len(calls)
<1>1. SoundCall(c) /\ DOMAIN calls = 1..n
  BY ListIs DEF SoundCalls
<1> HIDE DEF n
<1>2. CASE Hit(i)
  <2>1. c.query \in DOMAIN cache /\ IsList(cache[c.query].pages)
    BY <1>2 DEF Hit, Fresh, SoundCache, SoundAnswer
  <2> DEFINE new == [query |-> c.query, phase |-> "ended", tries |-> c.tries, failed |-> c.failed, pages |-> cache[c.query].pages]
  <2>3. SoundCall(new)
    BY <1>1, <2>1 DEF SoundCall, IsCall, Phases
  <2>4. [c EXCEPT !.phase = "ended", !.pages = cache[calls[i].query].pages] = new
    BY <1>1, Ending DEF SoundCall
  <2>5. calls' = [calls EXCEPT ![i] = [c EXCEPT !.phase = "ended", !.pages = cache[calls[i].query].pages]]
    BY <1>2 DEF Hit
  <2>6. new.query = c.query /\ (new.phase = "posted" => Cardinality(Posted) < Concurrency)
    BY <1>2 DEF Hit
  <2>7. SoundCache(cache')
    BY <1>2 DEF Hit
  <2> HIDE DEF new, c
  <2>8. calls' = [calls EXCEPT ![i] = new] /\ c = calls[i]
    BY <2>4, <2>5 DEF c
  <2> QED
    BY <2>3, <2>6, <2>7, <2>8 DEF Moves
<1>3. CASE Miss(i)
  <2>1. c.phase = "new"
    BY <1>3 DEF Miss
  <2> DEFINE new == [query |-> c.query, phase |-> "waiting", tries |-> c.tries, failed |-> c.failed, pages |-> c.pages]
  <2>3. SoundCall(new)
    BY <1>1, <2>1 DEF SoundCall, IsCall, Phases
  <2>4. [c EXCEPT !.phase = "waiting"] = new
    BY <1>1 DEF SoundCall, IsCall
  <2>5. calls' = [calls EXCEPT ![i] = [c EXCEPT !.phase = "waiting"]]
    BY <1>3 DEF Miss
  <2>6. new.query = c.query /\ (new.phase = "posted" => Cardinality(Posted) < Concurrency)
    BY <1>3 DEF Miss
  <2>7. SoundCache(cache')
    BY <1>3, DroppedSound DEF Miss
  <2> HIDE DEF new, c
  <2>8. calls' = [calls EXCEPT ![i] = new] /\ c = calls[i]
    BY <2>4, <2>5 DEF c
  <2> QED
    BY <2>3, <2>6, <2>7, <2>8 DEF Moves
<1>4. CASE Post(i)
  <2>1. c.phase = "waiting"
    BY <1>4 DEF Post
  <2> DEFINE new == [query |-> c.query, phase |-> "posted", tries |-> c.tries, failed |-> c.failed, pages |-> c.pages]
  <2>3. SoundCall(new)
    BY <1>1, <2>1 DEF SoundCall, IsCall, Phases
  <2>4. [c EXCEPT !.phase = "posted"] = new
    BY <1>1 DEF SoundCall, IsCall
  <2>5. calls' = [calls EXCEPT ![i] = [c EXCEPT !.phase = "posted"]]
    BY <1>4 DEF Post
  <2>6. new.query = c.query /\ (new.phase = "posted" => Cardinality(Posted) < Concurrency)
    BY <1>4 DEF Post
  <2>7. SoundCache(cache')
    BY <1>4 DEF Post
  <2> HIDE DEF new, c
  <2>8. calls' = [calls EXCEPT ![i] = new] /\ c = calls[i]
    BY <2>4, <2>5 DEF c
  <2> QED
    BY <2>3, <2>6, <2>7, <2>8 DEF Moves
<1>5. CASE Answer(i)
  <2>1. PICK pages \in Answers[c.query.topic] :
           /\ calls' = [calls EXCEPT ![i] = [@ EXCEPT !.phase = "ended", !.pages = pages]]
           /\ cache' = Stored(c.query, pages)
    BY <1>5 DEF Answer
  <2>2. IsList(pages)
    BY <1>1, <2>1, ReadinessAssumption DEF SoundCall
  <2> DEFINE new == [query |-> c.query, phase |-> "ended", tries |-> c.tries, failed |-> c.failed, pages |-> pages]
  <2>3. SoundCall(new)
    BY <1>1, <2>2 DEF SoundCall, IsCall, Phases
  <2>4. [c EXCEPT !.phase = "ended", !.pages = pages] = new
    BY <1>1, Ending DEF SoundCall
  <2>5. calls' = [calls EXCEPT ![i] = [c EXCEPT !.phase = "ended", !.pages = pages]]
    BY <2>1 DEF Answer
  <2>6. new.query = c.query /\ (new.phase = "posted" => Cardinality(Posted) < Concurrency)
    BY <1>5 DEF Answer
  <2>7. SoundCache(cache')
    BY <2>1, <2>2, StoredSound
  <2> HIDE DEF new, c
  <2>8. calls' = [calls EXCEPT ![i] = new] /\ c = calls[i]
    BY <2>4, <2>5 DEF c
  <2> QED
    BY <2>3, <2>6, <2>7, <2>8 DEF Moves
<1>6. CASE Fail(i)
  <2> DEFINE more == c.tries + 1
             last == more = MaxAttempts
             next == IF last THEN "ended" ELSE "asleep"
             new == [query |-> c.query, phase |-> next, tries |-> more, failed |-> last, pages |-> c.pages]
  <2>1. c.tries \in Nat /\ c.tries < MaxAttempts
    BY <1>1, <1>6, Bounds DEF SoundCall, Fail
  <2>3. SoundCall(new)
    BY <1>1, <2>1, Bounds DEF SoundCall, IsCall, Phases
  <2>6. new.query = c.query /\ (new.phase = "posted" => Cardinality(Posted) < Concurrency)
    BY <1>6 DEF Fail
  <2>7. SoundCache(cache')
    BY <1>6 DEF Fail
  <2>5. calls' = [calls EXCEPT ![i] = [c EXCEPT !.tries = more, !.failed = last, !.phase = next]]
    BY <1>6 DEF Fail
  <2> HIDE DEF more, last, next, c
  <2>4. [c EXCEPT !.tries = more, !.failed = last, !.phase = next] = new
    BY <1>1, Failing DEF SoundCall
  <2> HIDE DEF new
  <2>8. calls' = [calls EXCEPT ![i] = new] /\ c = calls[i]
    BY <2>4, <2>5 DEF c
  <2> QED
    BY <2>3, <2>6, <2>7, <2>8 DEF Moves
<1>7. CASE Refuse(i)
  <2> DEFINE new == [query |-> c.query, phase |-> "ended", tries |-> c.tries, failed |-> TRUE, pages |-> c.pages]
  <2>3. SoundCall(new)
    BY <1>1, <1>7 DEF SoundCall, IsCall, Phases
  <2>4. [c EXCEPT !.phase = "ended", !.failed = TRUE] = new
    BY <1>1, Refusing DEF SoundCall
  <2>5. calls' = [calls EXCEPT ![i] = [c EXCEPT !.phase = "ended", !.failed = TRUE]]
    BY <1>7 DEF Refuse
  <2>6. new.query = c.query /\ (new.phase = "posted" => Cardinality(Posted) < Concurrency)
    BY <1>7 DEF Refuse
  <2>7. SoundCache(cache')
    BY <1>7 DEF Refuse
  <2> HIDE DEF new, c
  <2>8. calls' = [calls EXCEPT ![i] = new] /\ c = calls[i]
    BY <2>4, <2>5 DEF c
  <2> QED
    BY <2>3, <2>6, <2>7, <2>8 DEF Moves
<1>8. CASE Wake(i)
  <2>1. c.phase = "asleep"
    BY <1>8 DEF Wake
  <2> DEFINE new == [query |-> c.query, phase |-> "waiting", tries |-> c.tries, failed |-> c.failed, pages |-> c.pages]
  <2>3. SoundCall(new)
    BY <1>1, <2>1 DEF SoundCall, IsCall, Phases
  <2>4. [c EXCEPT !.phase = "waiting"] = new
    BY <1>1 DEF SoundCall, IsCall
  <2>5. calls' = [calls EXCEPT ![i] = [c EXCEPT !.phase = "waiting"]]
    BY <1>8 DEF Wake
  <2>6. new.query = c.query /\ (new.phase = "posted" => Cardinality(Posted) < Concurrency)
    BY <1>8 DEF Wake
  <2>7. SoundCache(cache')
    BY <1>8 DEF Wake
  <2> HIDE DEF new, c
  <2>8. calls' = [calls EXCEPT ![i] = new] /\ c = calls[i]
    BY <2>4, <2>5 DEF c
  <2> QED
    BY <2>3, <2>6, <2>7, <2>8 DEF Moves
<1> QED
  BY <1>2, <1>3, <1>4, <1>5, <1>6, <1>7, <1>8 DEF Step

-----------------------------------------------------------------------------
(* The plan: critical topics come first. *)

LEMMA LexicalIsOrder ==
    ASSUME NEW S \in SUBSET (Nat \X Nat)
    PROVE  IsOrder({p \in S \X S : Before(p[1], p[2])}, S)
<1> DEFINE before == {p \in S \X S : Before(p[1], p[2])}
<1>1. \A x, y \in S : <<x, y>> \in before <=> Before(x, y)
  OBVIOUS
<1>2. \A x \in S : x = <<x[1], x[2]>> /\ x[1] \in Nat /\ x[2] \in Nat
  OBVIOUS
<1> HIDE DEF before
<1>3. \A x \in S : ~Before(x, x)
  BY <1>2 DEF Before
<1>4. ASSUME NEW x \in S, NEW y \in S PROVE x = y \/ Before(x, y) \/ Before(y, x)
  <2>1. x[1] = y[1] /\ x[2] = y[2] => x = y
    BY <1>2
  <2> QED
    BY <1>2, <2>1 DEF Before
<1>5. \A x, y, z \in S : Before(x, y) /\ Before(y, z) => Before(x, z)
  BY <1>2 DEF Before
<1> QED
  BY <1>1, <1>3, <1>4, <1>5 DEF IsOrder, before

LEMMA WantedIsFixed ==
    ASSUME NEW t \in Critical, NEW d, NEW r, NEW topics, NEW seasonal, NEW other
    PROVE  Wanted(t, d, r, topics, seasonal) <=> Wanted(t, d, r, topics, other)
  BY DEF Wanted, Critical

TopicsKnown(qs) == \A i \in 1..Len(qs) : qs[i].topic \in ToSet(TopicOrder)

\* A critical search of every destination stands before any other search.
CriticalAhead(qs, r, topics) ==
    \A i \in 1..Len(qs) : qs[i].topic \notin Critical =>
      \A d \in ToSet(r.dests), t \in Critical :
        Wanted(t, d, r, topics, {}) => \E k \in 1..i : qs[k] = Query(d, t, r)

LEMMA IntervalFinite == \A n \in Nat : IsFiniteSet(1..n)
<1> TAKE n \in Nat
<1>1. 1 \in Int /\ n \in Int
  OBVIOUS
<1> QED
  BY <1>1, FS_Interval, Zenon

LEMMA CandidatesInOrder ==
    ASSUME NEW r, IsList(r.dests), NEW topics, NEW seasonal
    PROVE  LET qs == Candidates(r, topics, seasonal) IN
           IsList(qs) /\ TopicsKnown(qs) /\ CriticalAhead(qs, r, topics)
<1> DEFINE n == Len(r.dests)
           wanted == {p \in (DOMAIN TopicOrder) \X (DOMAIN r.dests) :
                        Wanted(TopicOrder[p[1]], r.dests[p[2]], r, topics, seasonal)}
           before == {p \in wanted \X wanted : Before(p[1], p[2])}
           places == InOrder(wanted, before)
           N == Cardinality(wanted)
           qs == [k \in DOMAIN places |-> Query(r.dests[places[k][2]], TopicOrder[places[k][1]], r)]
<1>1. Candidates(r, topics, seasonal) = qs
  BY Zenon DEF Candidates, Lexical
<1>2. n \in Nat /\ DOMAIN r.dests = 1..n /\ ToSet(r.dests) = {r.dests[j] : j \in 1..n}
      /\ DOMAIN TopicOrder = 1..5
  BY ListIs DEF TopicOrder
<1>3. IsFiniteSet(wanted) /\ wanted \in SUBSET (Nat \X Nat)
  <2>1. IsFiniteSet(1..5) /\ IsFiniteSet(1..n)
    <3> HIDE DEF n
    <3>1. IsFiniteSet(1..n)
      BY <1>2, FS_Interval
    <3>2. IsFiniteSet(1..5)
      BY IntervalFinite
    <3> QED
      BY <3>1, <3>2
  <2>2. IsFiniteSet((1..5) \X (1..n))
    BY <2>1, FS_Product
  <2>3. wanted \in SUBSET ((1..5) \X (1..n))
    BY <1>2
  <2> HIDE DEF wanted
  <2>4. IsFiniteSet(wanted)
    BY <2>2, <2>3, FS_Subset
  <2> QED
    BY <1>2, <2>3, <2>4
<1>4. ASSUME NEW p \in wanted
      PROVE  p[1] \in 1..5 /\ p[2] \in 1..n
             /\ Wanted(TopicOrder[p[1]], r.dests[p[2]], r, topics, seasonal)
  BY <1>2
<1>5. ASSUME NEW a \in 1..5, NEW j \in 1..n,
             Wanted(TopicOrder[a], r.dests[j], r, topics, seasonal)
      PROVE  <<a, j>> \in wanted
  BY <1>2, <1>5
<1>6. IsOrder(before, wanted)
  BY <1>3, LexicalIsOrder
<1>7. \A x, y \in wanted : <<x, y>> \in before <=> Before(x, y)
  OBVIOUS
<1> HIDE DEF wanted, before
<1>8. /\ N \in Nat /\ places \in Seq(wanted) /\ DOMAIN places = 1..N
      /\ \A i, j \in 1..N : <<places[i], places[j]>> \in before <=> i < j
      /\ \A x \in wanted : \E i \in 1..N : places[i] = x
  <2>1. N \in Nat /\ places \in Seq(wanted) /\ DOMAIN places = 1..N
    BY <1>3, <1>6, InOrderSorts
  <2>2. \A i, j \in 1..N : <<places[i], places[j]>> \in before <=> i < j
    BY <1>3, <1>6, InOrderSorts, Zenon
  <2>3. \A x \in wanted : \E i \in 1..N : places[i] = x
    <3> TAKE x \in wanted
    <3> QED
      BY <1>3, <1>6, InOrderFinds
  <2> QED
    BY <2>1, <2>2, <2>3
<1>9. \A k \in 1..N : places[k] \in wanted
  BY <1>8
<1> HIDE DEF N, places, n
<1>10. IsList(qs) /\ Len(qs) = N /\ qs = [k \in 1..N |-> qs[k]]
  <2>1. qs = [k \in 1..N |-> qs[k]]
    BY <1>8
  <2> HIDE DEF qs
  <2> QED
    BY <1>8, <2>1, ListMade
<1>11. \A k \in 1..N : qs[k] = Query(r.dests[places[k][2]], TopicOrder[places[k][1]], r)
                      /\ qs[k].topic = TopicOrder[places[k][1]]
  BY <1>8 DEF Query
<1>12. TopicsKnown(qs)
  <2>1. ASSUME NEW i \in 1..N PROVE qs[i].topic \in ToSet(TopicOrder)
    <3>1. qs[i].topic = TopicOrder[places[i][1]] /\ places[i][1] \in 1..5
      BY <1>4, <1>9, <1>11
    <3> HIDE DEF qs
    <3> QED
      BY <1>2, <3>1 DEF ToSet
  <2> QED
    BY <1>10, <2>1 DEF TopicsKnown
<1>13. \A a \in 1..5 : TopicOrder[a] \in Critical <=> a <= 3
  BY DEF TopicOrder, Critical
<1> HIDE DEF qs
<1>14. ASSUME NEW i \in 1..N, qs[i].topic \notin Critical,
              NEW d \in ToSet(r.dests), NEW t \in Critical, Wanted(t, d, r, topics, {})
       PROVE  \E k \in 1..i : qs[k] = Query(d, t, r)
  <2>1. PICK a \in 1..3 : TopicOrder[a] = t
    BY <1>14 DEF TopicOrder, Critical
  <2>2. PICK j \in 1..n : r.dests[j] = d
    BY <1>2
  <2>3. Wanted(t, d, r, topics, seasonal)
    BY <1>14, WantedIsFixed
  <2>4. a \in 1..5
    BY <2>1
  <2>5. <<a, j>> \in wanted
    BY <1>5, <2>1, <2>2, <2>3, <2>4
  <2>6. PICK k \in 1..N : places[k] = <<a, j>>
    BY <1>8, <2>5
  <2>7. places[i] \in wanted /\ places[i][1] \in 1..5 /\ ~(places[i][1] <= 3)
    BY <1>4, <1>9, <1>11, <1>13, <1>14
  <2>8. Before(places[k], places[i])
    BY <2>1, <2>6, <2>7 DEF Before
  <2>9. k < i
    BY <1>7, <1>8, <1>9, <2>8
  <2>10. qs[k] = Query(d, t, r)
    BY <1>11, <2>1, <2>2, <2>6
  <2>11. k \in 1..i
    BY <1>8, <2>9
  <2> QED
    BY <2>10, <2>11
<1>15. CriticalAhead(qs, r, topics)
  BY <1>10, <1>14 DEF CriticalAhead
<1> QED
  BY <1>1, <1>10, <1>12, <1>15

LEMMA PlanInOrder ==
    ASSUME NEW r, IsList(r.dests), NEW topics, NEW seasonal
    PROVE  LET qs == Plan(r, topics, seasonal) IN
           /\ IsList(qs) /\ Len(qs) <= MaxQueries
           /\ TopicsKnown(qs) /\ CriticalAhead(qs, r, topics)
<1> DEFINE all == Candidates(r, topics, seasonal)
           m == Min({MaxQueries, Len(all)})
           qs == SubSeq(all, 1, m)
<1>1. IsList(all) /\ TopicsKnown(all) /\ CriticalAhead(all, r, topics)
  BY CandidatesInOrder
<1>2. Plan(r, topics, seasonal) = qs
  BY DEF Plan, Budgeted
<1> HIDE DEF all
<1>3. Len(all) \in Nat /\ all \in Seq(ToSet(all))
  BY <1>1, ListIs DEF IsList
<1>4. m \in Nat /\ m <= MaxQueries /\ m <= Len(all)
  <2> DEFINE two == {MaxQueries, Len(all)}
  <2>1. two \subseteq Nat /\ two # {} /\ MaxQueries \in two /\ Len(all) \in two
    BY <1>3, Bounds
  <2> HIDE DEF two
  <2>2. Min(two) \in two /\ \A y \in two : Min(two) <= y
    BY <2>1, MinIsLeast
  <2>3. Min(two) \in Nat /\ Min(two) <= MaxQueries /\ Min(two) <= Len(all)
    BY <2>1, <2>2
  <2> QED
    BY <2>3 DEF two
<1> HIDE DEF m
<1>5. qs \in Seq(ToSet(all)) /\ Len(qs) = m /\ \A k \in 1..m : qs[k] = all[k]
  BY <1>3, <1>4
<1> HIDE DEF qs
<1>6. IsList(qs)
  BY <1>5, ListTyped
<1>7. \A k \in 1..m : k \in 1..Len(all)
  BY <1>3, <1>4
<1>8. TopicsKnown(qs)
  BY <1>1, <1>5, <1>7 DEF TopicsKnown
<1>9. CriticalAhead(qs, r, topics)
  <2>1. \A i \in 1..m : \A k \in 1..i : k \in 1..m
    BY <1>4
  <2> QED
    BY <1>1, <1>5, <1>7, <2>1 DEF CriticalAhead
<1> QED
  BY <1>2, <1>4, <1>5, <1>6, <1>8, <1>9

-----------------------------------------------------------------------------
(* The numbers of the sources. *)

AreNew(ids, letter, n, reserved) ==
    /\ \A k \in 1..n : ids[k] \notin reserved /\ ids[k][1] = letter
    /\ \A k, l \in 1..n : ids[k] = ids[l] => k = l

\* There are always enough numbers, each is given once and none is reserved.
LEMMA NumbersAreNew ==
    ASSUME NEW letter, NEW n \in Nat, NEW reserved, IsFiniteSet(reserved)
    PROVE  AreNew(Numbers(letter, n, reserved), letter, n, reserved)
<1> DEFINE c == Cardinality(reserved)
           all == 1..n + c
           free == {k \in all : <<letter, k>> \notin reserved}
           taken == {k \in all : <<letter, k>> \in reserved}
           numbers == Ascending(free)
           ids == [k \in 1..n |-> <<letter, numbers[k]>>]
<1>1. Numbers(letter, n, reserved) = ids
  BY Zenon DEF Numbers
<1>2. c \in Nat
  BY FS_CardinalityType
<1>3. IsFiniteSet(all) /\ Cardinality(all) = n + c
  <2> HIDE DEF c
  <2> DEFINE top == n + c
  <2>1. top \in Nat /\ n \in Nat
    BY <1>2
  <2> HIDE DEF top
  <2>2. IsFiniteSet(1..top) /\ Cardinality(1..top) = top
    BY <2>1, FS_Interval
  <2> QED
    BY <2>2 DEF top
<1>4. taken \in SUBSET all /\ free = all \ taken /\ free \subseteq Int
  BY <1>2
<1>5. IsFiniteSet(taken) /\ Cardinality(taken) \in Nat /\ Cardinality(taken) <= c
  <2> DEFINE f == [k \in taken |-> <<letter, k>>]
  <2>1. f \in [taken -> reserved]
    OBVIOUS
  <2>2. \A a, b \in taken : f[a] = f[b] => a = b
    OBVIOUS
  <2> HIDE DEF f
  <2>3. f \in Injection(taken, reserved)
    BY <2>1, <2>2 DEF Injection, IsInjective
  <2> HIDE DEF taken
  <2> QED
    BY <2>3, FS_Injection, FS_CardinalityType
<1> HIDE DEF c, all, taken
<1>6. IsFiniteSet(free) /\ Cardinality(free) = Cardinality(all) - Cardinality(taken)
  <2>1. all \cap taken = taken
    BY <1>4
  <2>2. free = all \ taken
    BY <1>4
  <2> HIDE DEF free
  <2>3. /\ IsFiniteSet(all \ taken)
        /\ Cardinality(all \ taken) = Cardinality(all) - Cardinality(all \cap taken)
    BY <1>3, FS_Difference
  <2> QED
    BY <2>1, <2>2, <2>3
<1>7. Cardinality(free) \in Nat /\ n <= Cardinality(free)
  BY <1>2, <1>3, <1>5, <1>6, FS_CardinalityType
<1>8. \A k \in free : <<letter, k>> \notin reserved
  OBVIOUS
<1> HIDE DEF free
<1>9. /\ numbers \in Seq(free) /\ DOMAIN numbers = 1..Cardinality(free)
      /\ \A i, j \in 1..Cardinality(free) : numbers[i] = numbers[j] => i = j
  BY <1>4, <1>6, AscendingSorts
<1>10. \A k \in 1..n : k \in 1..Cardinality(free)
  BY <1>7
<1>11. \A k \in 1..n : numbers[k] \in free
  <2> DEFINE N == Cardinality(free)
  <2>1. N \in Nat /\ DOMAIN numbers = 1..N /\ numbers \in Seq(free)
    BY <1>7, <1>9
  <2> HIDE DEF numbers
  <2>2. \A k \in 1..N : numbers[k] \in free
    BY <2>1
  <2> QED
    BY <1>10, <2>2
<1> HIDE DEF numbers
<1>12. \A k \in 1..n : ids[k] = <<letter, numbers[k]>> /\ ids[k][2] = numbers[k] /\ ids[k][1] = letter
  OBVIOUS
<1> HIDE DEF ids
<1>13. ASSUME NEW k \in 1..n, NEW l \in 1..n, ids[k] = ids[l] PROVE k = l
  <2>1. numbers[k] = numbers[l]
    BY <1>12, <1>13
  <2> QED
    BY <1>9, <1>10, <2>1
<1>14. \A k \in 1..n : ids[k] \notin reserved
  BY <1>8, <1>11, <1>12
<1> QED
  BY <1>1, <1>12, <1>13, <1>14 DEF AreNew

UniqueIds(S) == \A s, t \in S : s.id = t.id => s = t
Ids(S) == {s.id : s \in S}

LEMMA ImageFinite ==
    ASSUME NEW S, IsFiniteSet(S), NEW f, DOMAIN f = S, NEW T, T = {f[x] : x \in S}
    PROVE  IsFiniteSet(T)
<1> DEFINE g == [x \in S |-> f[x]]
<1>1. g \in [S -> T] /\ \A y \in T : \E x \in S : g[x] = y
  OBVIOUS
<1> HIDE DEF g
<1>2. g \in Surjection(S, T)
  BY <1>1 DEF Surjection
<1> QED
  BY <1>2, FS_Surjection

LEMMA IdsFinite ==
    ASSUME NEW S, IsFiniteSet(S)
    PROVE  IsFiniteSet(Ids(S))
<1> DEFINE f == [s \in S |-> s.id]
<1>1. DOMAIN f = S /\ Ids(S) = {f[s] : s \in S}
  BY DEF Ids
<1> HIDE DEF f
<1> QED
  BY <1>1, ImageFinite

SoundSources(S, reserved) == IsFiniteSet(S) /\ UniqueIds(S) /\ Ids(S) \cap reserved = {}

NumberedBy(f, ids, n, S) ==
    /\ DOMAIN f = 1..n /\ S = {f[k] : k \in 1..n}
    /\ \A k \in 1..n : f[k].id = ids[k]

LEMMA NumberedSources ==
    ASSUME NEW letter, NEW n \in Nat, NEW reserved, NEW ids, AreNew(ids, letter, n, reserved),
           NEW f, NEW S, NumberedBy(f, ids, n, S)
    PROVE  SoundSources(S, reserved)
<1>1. IsFiniteSet(1..n)
  BY IntervalFinite
<1>2. IsFiniteSet(S)
  BY <1>1, ImageFinite DEF NumberedBy
<1> QED
  BY <1>2 DEF AreNew, NumberedBy, SoundSources, UniqueIds, Ids

LEMMA PlacesFinite ==
    ASSUME SoundCalls(calls)
    PROVE  IsFiniteSet(UNION {{<<i, k>> : k \in DOMAIN calls[i].pages} : i \in Answered})
<1> DEFINE Of(i) == {<<i, k>> : k \in DOMAIN calls[i].pages}
           f == [i \in Answered |-> Of(i)]
           T == {f[i] : i \in Answered}
<1>1. IsList(calls) /\ DOMAIN calls = 1..Len(calls) /\ Len(calls) \in Nat
  BY ListIs DEF SoundCalls
<1>2. IsFiniteSet(Answered)
  <2>1. IsFiniteSet(1..Len(calls)) /\ Answered \in SUBSET (1..Len(calls))
    BY <1>1, IntervalFinite DEF Answered
  <2> QED
    BY <2>1, FS_Subset
<1>3. ASSUME NEW i \in Answered PROVE IsFiniteSet(Of(i))
  <2> DEFINE n == Len(calls[i].pages)
             g == [k \in 1..n |-> <<i, k>>]
             S == Of(i)
  <2>1. IsList(calls[i].pages)
    BY <1>1, <1>3 DEF SoundCalls, SoundCall, Answered
  <2>2. n \in Nat /\ DOMAIN calls[i].pages = 1..n
    BY <2>1, ListIs
  <2> HIDE DEF n
  <2>3. S = {g[k] : k \in 1..n} /\ DOMAIN g = 1..n
    BY <2>2
  <2>4. IsFiniteSet(1..n)
    BY <2>2, IntervalFinite
  <2> HIDE DEF g, S
  <2>5. IsFiniteSet(S)
    BY <2>3, <2>4, ImageFinite
  <2> QED
    BY <2>5 DEF S
<1>4. DOMAIN f = Answered /\ \A x \in T : IsFiniteSet(x)
  BY <1>3
<1>5. UNION T = UNION {Of(i) : i \in Answered}
  OBVIOUS
<1> HIDE DEF f
<1>6. IsFiniteSet(T)
  BY <1>2, <1>4, ImageFinite
<1> HIDE DEF T
<1>7. IsFiniteSet(UNION T)
  BY <1>4, <1>6, FS_UNION
<1> QED
  BY <1>5, <1>7

LEMMA UrlsListed ==
    ASSUME SoundCalls(calls)
    PROVE  Len(Urls) \in Nat /\ DOMAIN Urls = 1..Len(Urls)
<1> DEFINE At == UNION {{<<i, k>> : k \in DOMAIN calls[i].pages} : i \in Answered}
           First == {a \in At : \A b \in At : Before(b, a) =>
                       calls[b[1]].pages[b[2]].url # calls[a[1]].pages[a[2]].url}
           places == Lexical(First)
           urls == [n \in DOMAIN places |-> calls[places[n][1]].pages[places[n][2]].url]
           N == Cardinality(First)
<1>1. Urls = urls
  BY DEF Urls
<1>2. IsFiniteSet(At)
  BY PlacesFinite
<1>3. First \in SUBSET At
  OBVIOUS
<1> HIDE DEF At, First
<1>4. N \in Nat
  BY <1>2, <1>3, FS_Subset, FS_CardinalityType
<1>5. DOMAIN places = 1..N
  BY DEF Lexical, InOrder
<1> HIDE DEF places, N
<1>6. urls = [n \in 1..N |-> urls[n]]
  BY <1>5
<1> HIDE DEF urls
<1>7. Len(urls) = N /\ DOMAIN urls = 1..N
  BY <1>4, <1>6, ListMade
<1> QED
  BY <1>1, <1>4, <1>7

LEMMA RetrievedSound ==
    ASSUME SoundCalls(calls), NEW reserved, IsFiniteSet(reserved)
    PROVE  SoundSources(Retrieved(reserved), reserved)
<1> DEFINE N == Len(Urls)
           ids == Numbers("S", N, reserved)
           f == [n \in 1..N |-> SourceOf(Urls[n], ids[n])]
           S == {f[n] : n \in 1..N}
<1>1. N \in Nat /\ DOMAIN Urls = 1..N
  BY UrlsListed
<1>2. Retrieved(reserved) = S
  BY <1>1 DEF Retrieved
<1>3. \A n \in 1..N : f[n].id = ids[n]
  BY DEF SourceOf
<1>4. NumberedBy(f, ids, N, S)
  BY <1>3 DEF NumberedBy
<1>5. AreNew(ids, "S", N, reserved)
  BY <1>1, NumbersAreNew
<1> HIDE DEF N, ids, f, S
<1> QED
  BY <1>1, <1>2, <1>4, <1>5, NumberedSources

LEMMA WeatherSound ==
    ASSUME NEW r, IsList(r.dests), NEW forecasts, NEW reserved, IsFiniteSet(reserved)
    PROVE  SoundSources(WeatherSources(r, forecasts, reserved), reserved)
<1> DEFINE P == {k \in DOMAIN r.dests :
                   r.dests[k] \in Forecast(forecasts, {"days", "no_days"})}
           some == Picks(r.dests, P)
           N == Len(some)
           ids == Numbers("W", N, reserved)
           f == [k \in 1..N |->
                  [id |-> ids[k], url |-> <<"forecast", some[k]>>, domain |-> "open-meteo",
                   topic |-> "weather", official |-> FALSE]]
           S == {f[k] : k \in 1..N}
<1>1. P \subseteq 1..Len(r.dests)
  BY ListIs
<1> HIDE DEF P
<1>2. IsList(some)
  BY <1>1, PicksAre DEF PicksFrom
<1> HIDE DEF some
<1>3. N \in Nat /\ DOMAIN some = 1..N
  BY <1>2, ListIs
<1>4. WeatherSources(r, forecasts, reserved) = S
  BY <1>3 DEF WeatherSources, some, P
<1>5. \A k \in 1..N : f[k].id = ids[k]
  OBVIOUS
<1>6. NumberedBy(f, ids, N, S)
  BY <1>5 DEF NumberedBy
<1>7. AreNew(ids, "W", N, reserved)
  BY <1>3, NumbersAreNew
<1> HIDE DEF N, ids, f, S
<1> QED
  BY <1>3, <1>4, <1>6, <1>7, NumberedSources

\* Sources numbered one after the other have their numbers to themselves.
LEMMA NumberedApart ==
    ASSUME NEW A, NEW B, UniqueIds(A), UniqueIds(B), Ids(A) \cap Ids(B) = {}
    PROVE  UniqueIds(A \cup B) /\ Ids(A \cup B) = Ids(A) \cup Ids(B)
<1>1. ASSUME NEW s \in A, NEW t \in B PROVE s.id # t.id
  BY <1>1 DEF Ids
<1> QED
  BY <1>1 DEF UniqueIds, Ids

\* The sources of a run: those of the preflight, of its searches and of its
\* forecasts, numbered in turn.
LEMMA SourcesApart ==
    ASSUME SoundCalls(calls), NEW r, IsList(r.dests), NEW forecasts,
           NEW P, IsFiniteSet(P), UniqueIds(P)
    PROVE  LET S == Retrieved(Ids(P))
               W == WeatherSources(r, forecasts, Ids(P) \cup Ids(S))
           IN IsFiniteSet(P \cup (S \cup W)) /\ UniqueIds(P \cup (S \cup W))
<1> DEFINE S == Retrieved(Ids(P))
           W == WeatherSources(r, forecasts, Ids(P) \cup Ids(S))
<1>1. IsFiniteSet(Ids(P))
  BY IdsFinite
<1>2. SoundSources(S, Ids(P))
  BY <1>1, RetrievedSound
<1> HIDE DEF S
<1>3. IsFiniteSet(Ids(P) \cup Ids(S))
  <2>1. IsFiniteSet(Ids(S))
    BY <1>2, IdsFinite DEF SoundSources
  <2> QED
    BY <1>1, <2>1, FS_Union
<1>4. SoundSources(W, Ids(P) \cup Ids(S))
  BY <1>3, WeatherSound
<1> HIDE DEF W
<1>5. UniqueIds(S \cup W) /\ Ids(S \cup W) = Ids(S) \cup Ids(W)
  <2>1. Ids(S) \cap Ids(W) = {}
    BY <1>4 DEF SoundSources
  <2> QED
    BY <1>2, <1>4, <2>1, NumberedApart DEF SoundSources
<1>6. UniqueIds(P \cup (S \cup W))
  <2>1. Ids(P) \cap Ids(S \cup W) = {}
    BY <1>2, <1>4, <1>5 DEF SoundSources
  <2> QED
    BY <1>5, <2>1, NumberedApart
<1>7. IsFiniteSet(P \cup (S \cup W))
  <2>1. IsFiniteSet(S \cup W)
    BY <1>2, <1>4, FS_Union DEF SoundSources
  <2> QED
    BY <2>1, FS_Union
<1> QED
  BY <1>6, <1>7 DEF S, W

-----------------------------------------------------------------------------
(* Reports: what they cite is among their sources, whatever is done to them. *)

LEMMA GroundedLinks ==
    ASSUME NEW stage, NEW S, UniqueIds(S), NEW r, NEW g \in Grounded(stage, S, r)
    PROVE  g.dests = r.dests /\ g.sources = S /\ LinksHold(g)
<1> DEFINE mine == {f \in FieldNames : FieldRule[f].stage = stage}
           citable == UNION {kSubset(n, S) : n \in 1 .. MaxCited}
           supported == {w \in mine \X citable : Supported(w[1], w[2], r)}
           written == {c \in [mine -> {{}} \cup {w[2] : w \in supported}] :
                         \A f \in mine : c[f] = {} \/ <<f, c[f]>> \in supported}
           Made(c) == Report(r.dests, S, [f \in {f \in mine : c[f] # {}} |-> {s.id : s \in c[f]}])
<1>1. Grounded(stage, S, r) = {Made(c) : c \in written}
  BY Zenon DEF Grounded
<1>2. \A C \in citable : C \subseteq S
  BY DEF kSubset
<1> HIDE DEF mine, citable
<1>3. \A w \in supported : w[2] \in citable
  OBVIOUS
<1> HIDE DEF supported
<1>4. ASSUME NEW c \in written, NEW f \in mine PROVE c[f] \subseteq S
  BY <1>2, <1>3
<1> HIDE DEF written
<1>5. PICK c \in written : g = Made(c)
  BY <1>1
<1> DEFINE cites == [f \in {f \in mine : c[f] # {}} |-> {s.id : s \in c[f]}]
<1>6. g.dests = r.dests /\ g.sources = S /\ g.cites = cites
  BY <1>5 DEF Report
<1>7. ASSUME NEW f \in DOMAIN cites PROVE cites[f] \subseteq Ids(S)
  BY <1>4 DEF Ids
<1> HIDE DEF cites
<1>8. UNION Range(cites) \subseteq Ids(S)
  BY <1>7 DEF Range
<1> QED
  BY <1>6, <1>8 DEF LinksHold, UniqueIds, Ids

LEMMA AttachedLinks ==
    ASSUME NEW rep, LinksHold(rep), NEW forecasts, NEW W, UniqueIds(rep.sources \cup W)
    PROVE  /\ LinksHold(Attach(rep, forecasts, W))
           /\ Attach(rep, forecasts, W).sources = rep.sources \cup W
           /\ Attach(rep, forecasts, W).dests = rep.dests
<1> DEFINE days == [f \in {"weather"} |-> {s.id : s \in W}]
           cites == IF Forecast(forecasts, {"days"}) = {} THEN rep.cites ELSE Prevail(days, rep.cites)
           both == rep.sources \cup W
           a == Attach(rep, forecasts, W)
<1>1. a.sources = both /\ a.cites = cites /\ a.dests = rep.dests
  BY DEF Attach, Report
<1>2. \A f \in DOMAIN rep.cites : rep.cites[f] \subseteq Ids(rep.sources)
  BY DEF LinksHold, Ids, Range
<1>3. Ids(rep.sources) \subseteq Ids(both) /\ Ids(W) \subseteq Ids(both)
  BY DEF Ids
<1>4. ASSUME NEW f \in DOMAIN cites PROVE cites[f] \subseteq Ids(both)
  <2>1. CASE Forecast(forecasts, {"days"}) = {}
    BY <1>2, <1>3, <2>1
  <2>2. CASE Forecast(forecasts, {"days"}) # {}
    <3>1. cites = [x \in (DOMAIN days) \cup (DOMAIN rep.cites) |->
                     IF x \in DOMAIN days THEN days[x] ELSE rep.cites[x]]
      BY <2>2 DEF Prevail
    <3>2. DOMAIN days = {"weather"} /\ \A x \in DOMAIN days : days[x] = Ids(W)
      BY DEF Ids
    <3> HIDE DEF days, cites, both
    <3>3. CASE f \in DOMAIN days
      BY <1>3, <3>1, <3>2, <3>3
    <3>4. CASE f \notin DOMAIN days
      <4>1. f \in DOMAIN rep.cites /\ cites[f] = rep.cites[f]
        BY <1>4, <3>1, <3>4
      <4> QED
        BY <1>2, <1>3, <4>1
    <3> QED
      BY <3>3, <3>4
  <2> QED
    BY <2>1, <2>2
<1> HIDE DEF cites, both, a
<1>5. UNION Range(cites) \subseteq Ids(both)
  BY <1>4 DEF Range
<1>6. UniqueIds(both)
  BY DEF both
<1>7. LinksHold(a)
  BY <1>1, <1>5, <1>6 DEF LinksHold, UniqueIds, Ids
<1> QED
  BY <1>1, <1>7 DEF a, both

LEMMA FinalizedLinks ==
    ASSUME NEW rep, LinksHold(rep)
    PROVE  /\ LinksHold(Finalize(rep)) /\ Finalize(rep).sources \subseteq rep.sources
           /\ Finalize(rep).dests = rep.dests
<1> DEFINE all == UNION Range(rep.cites)
           a == Finalize(rep)
<1>1. a.sources = Cited(rep.sources, all) /\ a.cites = rep.cites /\ a.dests = rep.dests
  BY DEF Finalize, Report
<1>2. all \subseteq Ids(rep.sources) /\ UniqueIds(rep.sources)
  BY DEF LinksHold, Ids, UniqueIds
<1> HIDE DEF a
<1>3. a.sources \subseteq rep.sources
  BY <1>1 DEF Cited
<1>4. all \subseteq Ids(a.sources)
  BY <1>1, <1>2 DEF Ids, Cited
<1>5. UniqueIds(a.sources)
  BY <1>2, <1>3 DEF UniqueIds
<1>6. LinksHold(a)
  BY <1>1, <1>4, <1>5 DEF LinksHold, UniqueIds, Ids
<1> QED
  BY <1>1, <1>3, <1>6 DEF a

LEMMA WeatheredLinks ==
    ASSUME NEW rep, LinksHold(rep), NEW forecasts, NEW W, UniqueIds(rep.sources \cup W)
    PROVE  /\ LinksHold(Weathered(rep, forecasts, W))
           /\ Weathered(rep, forecasts, W).sources \subseteq rep.sources \cup W
           /\ Weathered(rep, forecasts, W).dests = rep.dests
<1> DEFINE a == Attach(rep, forecasts, W)
<1>1. LinksHold(a) /\ a.sources = rep.sources \cup W /\ a.dests = rep.dests
  BY AttachedLinks
<1> HIDE DEF a
<1>2. LinksHold(Finalize(a)) /\ Finalize(a).sources \subseteq a.sources /\ Finalize(a).dests = a.dests
  BY <1>1, FinalizedLinks
<1> QED
  BY <1>1, <1>2 DEF Weathered, a

\* A citation of a page that the preflight has too is given the preflight's number.
LEMMA AssembledLinks ==
    ASSUME NEW pre, LinksHold(pre), NEW det, LinksHold(det),
           UniqueIds(pre.sources \cup det.sources)
    PROVE  /\ LinksHold(Assemble(pre, det))
           /\ Assemble(pre, det).sources \subseteq pre.sources \cup det.sources
           /\ Assemble(pre, det).dests = det.dests
<1> DEFINE C(s) == Canonical(pre, s)
           mine == [f \in DOMAIN det.cites |-> {C(s) : s \in Cited(det.sources, det.cites[f])}]
           cites == Prevail(pre.cites, mine)
           kept == {s \in det.sources : C(s) = s.id}
           both == pre.sources \cup kept
           rep == Report(det.dests, both, cites)
<1>1. Assemble(pre, det) = Finalize(rep)
  BY DEF Assemble
<1>2. rep.sources = both /\ rep.cites = cites /\ rep.dests = det.dests
  BY DEF Report
<1>3. ASSUME NEW s \in det.sources PROVE C(s) \in Ids(both)
  <2>1. CASE \E p \in pre.sources : p.url = s.url
    <3> DEFINE q == CHOOSE p \in pre.sources : p.url = s.url
    <3>1. q \in pre.sources
      BY <2>1
    <3>2. C(s) = q.id
      BY <2>1 DEF Canonical
    <3> HIDE DEF q, C
    <3> QED
      BY <3>1, <3>2 DEF Ids
  <2>2. CASE ~\E p \in pre.sources : p.url = s.url
    <3>1. C(s) = s.id
      BY <2>2 DEF Canonical
    <3> HIDE DEF C
    <3> QED
      BY <3>1 DEF Ids
  <2> QED
    BY <2>1, <2>2
<1> HIDE DEF C
<1>4. \A f \in DOMAIN mine : mine[f] \subseteq Ids(both)
  <2>1. \A f \in DOMAIN mine : \A x \in mine[f] : \E s \in det.sources : x = C(s)
    BY DEF Cited
  <2> HIDE DEF mine, both
  <2> QED
    BY <1>3, <2>1
<1>5. \A f \in DOMAIN pre.cites : pre.cites[f] \subseteq Ids(both)
  <2>1. \A f \in DOMAIN pre.cites : pre.cites[f] \subseteq Ids(pre.sources)
    BY DEF LinksHold, Ids, Range
  <2>2. Ids(pre.sources) \subseteq Ids(both)
    BY DEF Ids
  <2> QED
    BY <2>1, <2>2
<1>6. UniqueIds(both) /\ both \subseteq pre.sources \cup det.sources
  BY DEF UniqueIds
<1> HIDE DEF mine, both
<1>7. ASSUME NEW f \in DOMAIN cites PROVE cites[f] \subseteq Ids(both)
  <2>1. cites = [x \in (DOMAIN pre.cites) \cup (DOMAIN mine) |->
                   IF x \in DOMAIN pre.cites THEN pre.cites[x] ELSE mine[x]]
    BY DEF Prevail
  <2> HIDE DEF cites
  <2>2. CASE f \in DOMAIN pre.cites
    BY <1>5, <2>1, <2>2
  <2>3. CASE f \notin DOMAIN pre.cites
    BY <1>4, <1>7, <2>1, <2>3
  <2> QED
    BY <2>2, <2>3
<1> HIDE DEF cites
<1>8. UNION Range(cites) \subseteq Ids(both)
  BY <1>7 DEF Range
<1> HIDE DEF rep
<1>9. LinksHold(rep)
  BY <1>2, <1>6, <1>8 DEF LinksHold, UniqueIds, Ids
<1>10. /\ LinksHold(Finalize(rep)) /\ Finalize(rep).sources \subseteq rep.sources
       /\ Finalize(rep).dests = rep.dests
  BY <1>9, FinalizedLinks
<1> QED
  BY <1>1, <1>2, <1>6, <1>10

\* Where the sources of a report come from.
Behind(kind, S, W) == (IF kind = "details" THEN saved.report.sources ELSE {}) \cup (S \cup W)

SavedLinks(kind) == kind = "details" => LinksHold(saved.report)

LEMMA JoinedLinks ==
    ASSUME NEW kind \in Kinds, NEW r, Asked(kind, r) # {}, NEW S, NEW W, NEW forecasts,
           NEW pre \in Preflights(kind, r, S), NEW part \in Parts(kind, r, S),
           UniqueIds(Behind(kind, S, W)), SavedLinks(kind)
    PROVE  /\ LinksHold(Joined(kind, r, pre, part, forecasts, W))
           /\ Joined(kind, r, pre, part, forecasts, W).sources \subseteq Behind(kind, S, W)
           /\ kind = "details" =>
                Weathered(part, forecasts, W).sources \subseteq S \cup W
<1> DEFINE st == Stages(kind, r)
           w == Weathered(part, forecasts, W)
           j == Joined(kind, r, pre, part, forecasts, W)
           A == Behind(kind, S, W)
<1>1. UniqueIds(S \cup W) /\ UniqueIds(S) /\ S \cup W \subseteq A
  BY DEF Behind, UniqueIds
<1>2. ASSUME "details" \in st
      PROVE  LinksHold(w) /\ w.sources \subseteq S \cup W
  <2>1. part \in Grounded("details", S, r)
    BY <1>2 DEF Parts
  <2>2. part.sources = S /\ LinksHold(part)
    BY <1>1, <2>1, GroundedLinks
  <2>3. UniqueIds(part.sources \cup W)
    BY <1>1, <2>2
  <2> QED
    BY <2>2, <2>3, WeatheredLinks
<1>3. ASSUME kind # "details", "preflight" \in st
      PROVE  LinksHold(pre) /\ pre.sources = S
  <2>1. pre \in Grounded("preflight", S, r)
    BY <1>3 DEF Preflights
  <2> QED
    BY <1>1, <2>1, GroundedLinks
<1>4. CASE kind = "details"
  <2>1. pre = saved.report /\ "details" \in st
    BY <1>4 DEF Preflights, Stages
  <2>2. j = Assemble(pre, w)
    BY <1>4, <2>1 DEF Joined
  <2>3. LinksHold(pre) /\ LinksHold(w) /\ w.sources \subseteq S \cup W
    BY <1>2, <1>4, <2>1 DEF SavedLinks
  <2>4. pre.sources \cup w.sources \subseteq A
    BY <1>4, <2>1, <2>3 DEF Behind
  <2> HIDE DEF A, w, j
  <2>5. UniqueIds(pre.sources \cup w.sources)
    BY <2>4 DEF UniqueIds, A
  <2>6. LinksHold(Assemble(pre, w)) /\ Assemble(pre, w).sources \subseteq pre.sources \cup w.sources
    BY <2>3, <2>5, AssembledLinks
  <2>7. LinksHold(j) /\ j.sources \subseteq A
    BY <2>2, <2>4, <2>6
  <2> QED
    BY <2>3, <2>7 DEF A, w, j
<1>5. CASE kind # "details" /\ "details" \notin st
  <2>1. "preflight" \in st
    BY <1>5 DEF Stages, Asked, Kinds
  <2>2. j = Weathered(pre, forecasts, W)
    BY <1>5 DEF Joined
  <2>3. LinksHold(pre) /\ pre.sources = S
    BY <1>3, <1>5, <2>1
  <2>4. LinksHold(j) /\ j.sources \subseteq S \cup W
    BY <1>1, <2>2, <2>3, WeatheredLinks
  <2> QED
    BY <1>1, <1>5, <2>4
<1>6. CASE kind # "details" /\ "details" \in st /\ "preflight" \notin st
  <2>1. j = w
    BY <1>6 DEF Joined
  <2>2. LinksHold(w) /\ w.sources \subseteq S \cup W
    BY <1>2, <1>6
  <2> QED
    BY <1>1, <1>6, <2>1, <2>2
<1>7. CASE kind # "details" /\ "details" \in st /\ "preflight" \in st
  <2>1. j = Assemble(pre, w)
    BY <1>7 DEF Joined
  <2>2. LinksHold(pre) /\ pre.sources = S /\ LinksHold(w) /\ w.sources \subseteq S \cup W
    BY <1>2, <1>3, <1>7
  <2> HIDE DEF A, w, j
  <2>3. pre.sources \cup w.sources \subseteq S \cup W
    BY <2>2
  <2>4. UniqueIds(pre.sources \cup w.sources)
    BY <1>1, <2>3 DEF UniqueIds
  <2>5. LinksHold(Assemble(pre, w)) /\ Assemble(pre, w).sources \subseteq pre.sources \cup w.sources
    BY <2>2, <2>4, AssembledLinks
  <2>6. LinksHold(j) /\ j.sources \subseteq A
    BY <1>1, <2>1, <2>3, <2>5
  <2> QED
    BY <1>7, <2>6 DEF A, w, j
<1> QED
  BY <1>4, <1>5, <1>6, <1>7

\* One number for two pages is never what the details make of a preflight.
LEMMA NeverClash ==
    ASSUME NEW S, NEW W, UniqueIds(Behind("details", S, W)),
           NEW w, w.sources \subseteq S \cup W
    PROVE  ~NumbersClash(saved.report, w)
<1>1. ASSUME NEW p \in saved.report.sources, NEW s \in w.sources, p.id = s.id PROVE p = s
  BY <1>1 DEF Behind, UniqueIds
<1> QED
  BY <1>1 DEF NumbersClash

-----------------------------------------------------------------------------
(* Coverage: a covered topic has its page. *)

\* FoundFor, of the searches cs.
FoundIn(cs, s, d, es, official) ==
    \E i \in DOMAIN cs :
      LET c == cs[i] IN
      /\ c.query.dest = d /\ c.query.topic \in es /\ ~c.failed
      /\ \E p \in ToSet(c.pages) : p.url = s.url
           /\ (official => p.domain \in c.query.domains)

LEMMA FoundOnPages ==
    ASSUME NEW s, NEW d, NEW t, s.url \in PagesFor(d, t), NEW es, t \in es
    PROVE  FoundIn(calls, s, d, es, FALSE)
<1>1. PICK i \in SearchedFor(d, t) : s.url \in {p.url : p \in ToSet(calls[i].pages)}
  BY DEF PagesFor
<1>2. i \in DOMAIN calls /\ calls[i].query.dest = d /\ calls[i].query.topic = t /\ ~calls[i].failed
  BY <1>1 DEF SearchedFor, Answered
<1>3. PICK p \in ToSet(calls[i].pages) : p.url = s.url
  BY <1>1
<1> QED
  BY <1>2, <1>3 DEF FoundIn

LEMMA FoundOfficially ==
    ASSUME NEW s, NEW d, NEW t \in Critical, s.url \in OfficialPagesFor(d, t)
    PROVE  FoundIn(calls, s, d, {t}, TRUE)
<1>1. PICK i \in SearchedFor(d, t) :
        s.url \in {p.url : p \in {x \in ToSet(calls[i].pages) : IsOfficial(x.url, i)}}
  BY DEF OfficialPagesFor
<1>2. i \in DOMAIN calls /\ calls[i].query.dest = d /\ calls[i].query.topic = t /\ ~calls[i].failed
  BY <1>1 DEF SearchedFor, Answered
<1>3. PICK x \in ToSet(calls[i].pages) : x.url = s.url /\ IsOfficial(x.url, i)
  BY <1>1
<1> DEFINE p == PageOf(s.url, i)
<1>4. p \in ToSet(calls[i].pages) /\ p.url = s.url
  BY <1>3 DEF PageOf
<1>5. p.domain \in calls[i].query.domains
  <2>1. calls[i].query.topic # "culture"
    BY <1>2 DEF Critical
  <2> QED
    BY <1>3, <2>1 DEF IsOfficial
<1> HIDE DEF p
<1> QED
  BY <1>2, <1>4, <1>5 DEF FoundIn

\* What a covered topic t of destination d promises of a report.
IsFound(d, t, report) ==
    \E s \in Cited(report.sources, Proofs(report, t)) :
      \/ FoundIn(calls, s, d, Searched(t), t \in Critical)
      \/ t \in {"weather", "packing"} /\ s.url = <<"forecast", d>>

LEMMA VerifiedIsFound ==
    ASSUME NEW d, NEW t, NEW report, NEW sources, UniqueIds(sources),
           report.sources \subseteq sources, Verified(d, t, report, sources)
    PROVE  IsFound(d, t, report)
<1> DEFINE grounded == NumbersOf(PagesCovering(d, t), sources)
                         \cap {s.id : s \in report.sources} \cap Proofs(report, t)
<1>1. grounded # {} /\ (t \in Critical => grounded \subseteq NumbersOf(OfficialPagesFor(d, t), sources))
  BY DEF Verified
<1>2. PICK g : g \in grounded
  BY <1>1
<1>3. PICK s \in report.sources : s.id = g
  BY <1>2
<1>4. g \in Proofs(report, t) /\ g \in NumbersOf(PagesCovering(d, t), sources)
  BY <1>2
<1> HIDE DEF grounded
<1>5. s \in Cited(report.sources, Proofs(report, t))
  BY <1>3, <1>4 DEF Cited
<1>6. ASSUME NEW pages, g \in NumbersOf(pages, sources) PROVE s.url \in pages
  <2>1. PICK x \in sources : x.url \in pages /\ x.id = g
    BY <1>6 DEF NumbersOf
  <2>2. x = s
    BY <1>3, <2>1 DEF UniqueIds
  <2> QED
    BY <2>1, <2>2
<1>7. s.url \in PagesCovering(d, t)
  BY <1>4, <1>6
<1>8. CASE t \in Critical
  <2>1. g \in NumbersOf(OfficialPagesFor(d, t), sources)
    BY <1>1, <1>2, <1>8
  <2>2. s.url \in OfficialPagesFor(d, t)
    BY <1>6, <2>1
  <2>3. FoundIn(calls, s, d, {t}, TRUE)
    BY <1>8, <2>2, FoundOfficially
  <2>4. Searched(t) = {t} /\ (t \in Critical) = TRUE
    BY <1>8 DEF Searched, Critical
  <2> QED
    BY <1>5, <2>3, <2>4 DEF IsFound
<1>9. CASE t \notin Critical
  <2>1. (t \in Critical) = FALSE
    BY <1>9
  <2> DEFINE found == FoundIn(calls, s, d, Searched(t), FALSE)
             fromForecast == t \in {"weather", "packing"} /\ s.url = <<"forecast", d>>
  <2>2. found \/ fromForecast
    <3>1. CASE t = "weather"
      <4>1. s.url \in PagesFor(d, "weather") \/ s.url = <<"forecast", d>>
        BY <1>7, <3>1 DEF PagesCovering
      <4>2. Searched(t) = {"weather"}
        BY <3>1 DEF Searched
      <4> QED
        BY <3>1, <4>1, <4>2, FoundOnPages
    <3>2. CASE t = "practical"
      <4>1. s.url \in PagesFor(d, "culture")
        BY <1>7, <3>2 DEF PagesCovering
      <4>2. "culture" \in Searched(t)
        BY <3>2 DEF Searched
      <4> QED
        BY <4>1, <4>2, FoundOnPages
    <3>3. CASE t = "packing"
      <4>1. s.url = <<"forecast", d>>
            \/ \E e \in {"culture", "health", "entry", "weather"} : s.url \in PagesFor(d, e)
        BY <1>7, <3>3 DEF PagesCovering
      <4>2. Searched(t) = {"culture", "health", "entry", "weather"}
        BY <3>3 DEF Searched
      <4>3. ASSUME NEW e \in Searched(t), s.url \in PagesFor(d, e) PROVE found
        BY <4>3, FoundOnPages
      <4> HIDE DEF found
      <4> QED
        BY <3>3, <4>1, <4>2, <4>3
    <3>4. CASE t \notin {"weather", "practical", "packing"}
      <4>1. s.url \in PagesFor(d, t)
        BY <1>7, <3>4 DEF PagesCovering
      <4>2. t \in Searched(t)
        BY <3>4 DEF Searched
      <4> QED
        BY <4>1, <4>2, FoundOnPages
    <3> QED
      BY <3>1, <3>2, <3>3, <3>4
  <2> QED
    BY <1>5, <2>1, <2>2 DEF IsFound
<1> QED
  BY <1>8, <1>9

\* The states of a topic's coverage.
LEMMA CoverageStates ==
    ASSUME NEW dests, NEW topics, NEW report, NEW sources, NEW forecasts
    PROVE  /\ \A x \in Coverage(dests, topics, report, sources, forecasts) :
                x.state = "verified" => Verified(x.dest, x.topic, report, sources)
           /\ \A d \in ToSet(dests), t \in topics :
                \E x \in Coverage(dests, topics, report, sources, forecasts) :
                  /\ x.dest = d /\ x.topic = t
                  /\ x.state \in {"verified", "provider_failed", "missing"}
<1> DEFINE C(d, t) == Covered(d, t, report, sources, forecasts)
           cov == Coverage(dests, topics, report, sources, forecasts)
<1>1. cov = {C(x[1], x[2]) : x \in ToSet(dests) \X topics}
  BY DEF Coverage
<1>2. ASSUME NEW d, NEW t
      PROVE  /\ C(d, t).dest = d /\ C(d, t).topic = t
             /\ C(d, t).state \in {"verified", "provider_failed", "missing"}
             /\ C(d, t).state = "verified" => Verified(d, t, report, sources)
  BY DEF Covered
<1> HIDE DEF C, cov
<1>3. ASSUME NEW x \in cov, x.state = "verified"
      PROVE  Verified(x.dest, x.topic, report, sources)
  <2>1. PICK p \in ToSet(dests) \X topics : x = C(p[1], p[2])
    BY <1>1
  <2> QED
    BY <1>2, <1>3, <2>1
<1>4. ASSUME NEW d \in ToSet(dests), NEW t \in topics
      PROVE  \E x \in cov : x.dest = d /\ x.topic = t
                            /\ x.state \in {"verified", "provider_failed", "missing"}
  <2>1. <<d, t>> \in ToSet(dests) \X topics /\ <<d, t>>[1] = d /\ <<d, t>>[2] = t
    OBVIOUS
  <2>2. C(d, t) \in cov
    BY <1>1, <2>1
  <2> QED
    BY <1>2, <2>2
<1> QED
  BY <1>3, <1>4 DEF cov

\* A completed run's critical topics are all verified.
LEMMA CompletedVerifies ==
    ASSUME NEW dests, NEW topics, NEW report, NEW sources, NEW forecasts,
           Outcome(Coverage(dests, topics, report, sources, forecasts)) = "completed",
           NEW d \in ToSet(dests), NEW t \in topics \cap Critical
    PROVE  Verified(d, t, report, sources)
<1> DEFINE cov == Coverage(dests, topics, report, sources, forecasts)
           critical == {x.state : x \in {y \in cov : y.topic \in Critical}}
<1>1. PICK x \in cov : /\ x.dest = d /\ x.topic = t
                       /\ x.state \in {"verified", "provider_failed", "missing"}
  BY CoverageStates
<1>2. \A y \in cov : y.state = "verified" => Verified(y.dest, y.topic, report, sources)
  BY CoverageStates
<1>3. Outcome(cov) = "completed"
  OBVIOUS
<1> HIDE DEF cov
<1>4. x.state \in critical
  BY <1>1
<1>5. "provider_failed" \notin critical /\ "missing" \notin critical
  <2> HIDE DEF critical
  <2>1. Outcome(cov) = CASE "provider_failed" \in critical -> "blocked_external"
           [] "provider_failed" \notin critical /\ "missing" \in critical -> "no_inventory"
           [] OTHER -> "completed"
    BY DEF Outcome, critical
  <2> QED
    BY <1>3, <2>1
<1>6. x.state = "verified"
  BY <1>1, <1>4, <1>5
<1> QED
  BY <1>1, <1>2, <1>6

-----------------------------------------------------------------------------
(* The inductive invariant of the pipeline. *)

SearchInv ==
    /\ SoundCalls(calls) /\ SoundCache(cache) /\ runs \in 0..MaxRuns
    /\ run # Nothing \/ calls = <<>>

\* A run has something to answer, and details have the preflight of their trip.
RunInv ==
    run # Nothing =>
      /\ run.kind \in Kinds /\ run.request \in Requests
      /\ Asked(run.kind, run.request) # {}
      /\ run.kind = "details" =>
           /\ saved # Nothing
           /\ saved.fingerprint = FingerprintOf(run.request, Owned("details", run.request))

\* The preflight that is kept is a report of its own request.
SavedInv ==
    saved # Nothing =>
      /\ LinksHold(saved.report) /\ IsFiniteSet(saved.report.sources)
      /\ saved.fingerprint = FingerprintOf(saved.request, Owned("preflight", saved.request))

ResultInv == CoveredIsFound /\ CompletedIsCovered /\ LinksNeverBreak /\ AdvisoryIsForThisTrip

ReadinessInv == SearchInv /\ RunInv /\ CriticalFirst /\ SavedInv /\ ResultInv

LEMMA NoCalls == SoundCalls(<<>>)
<1>1. IsList(<<>>) /\ Len(<<>>) = 0
  BY DEF IsList, ToSet
<1>2. {i \in 1..0 : <<>>[i].phase = "posted"} = {} /\ \A i \in 1..0 : SoundCall(<<>>[i])
  OBVIOUS
<1> QED
  BY <1>1, <1>2, Bounds, FS_EmptySet DEF SoundCalls

LEMMA ReadinessInvInit == ReadinessInit => ReadinessInv
<1> SUFFICES ASSUME ReadinessInit PROVE ReadinessInv
  OBVIOUS
<1>1. /\ calls = <<>> /\ cache = << >> /\ run = Nothing /\ saved = Nothing
      /\ result = Nothing /\ runs = 0
  BY DEF ReadinessInit, IdleTransport
<1>2. SoundCache(cache)
  <2>1. cache = [k \in {} |-> cache[k]] /\ DOMAIN cache = {}
    BY <1>1
  <2> QED
    BY <2>1, FS_EmptySet, Bounds DEF SoundCache
<1>3. SearchInv
  BY <1>1, <1>2, NoCalls, Bounds DEF SearchInv
<1> QED
  BY <1>1, <1>3 DEF ReadinessInv, RunInv, CriticalFirst, SavedInv, ResultInv, CoveredIsFound,
       CompletedIsCovered, LinksNeverBreak, AdvisoryIsForThisTrip

-----------------------------------------------------------------------------
(* A run ends. *)

\* Whether a report has all the citations of the preflight kept.
KeepsAdvisory(report) ==
    \A f \in DOMAIN saved.report.cites :
      f \in DOMAIN report.cites /\ report.cites[f] = saved.report.cites[f]

LEMMA AssemblyKeepsAdvisory ==
    ASSUME NEW det PROVE KeepsAdvisory(Assemble(saved.report, det))
<1> DEFINE others == [f \in DOMAIN det.cites |->
                        {Canonical(saved.report, s) : s \in Cited(det.sources, det.cites[f])}]
<1>1. Assemble(saved.report, det).cites = Prevail(saved.report.cites, others)
  BY DEF Assemble, Finalize, Report
<1> HIDE DEF others
<1>2. ASSUME NEW f \in DOMAIN saved.report.cites
      PROVE  /\ f \in DOMAIN Prevail(saved.report.cites, others)
             /\ Prevail(saved.report.cites, others)[f] = saved.report.cites[f]
  BY DEF Prevail
<1> QED
  BY <1>1, <1>2 DEF KeepsAdvisory

\* What an outcome may claim of a report, and the report of the trip.
Earned(kind, r, status, report, coverage) ==
    /\ \A x \in coverage : x.state = "verified" => IsFound(x.dest, x.topic, report)
    /\ status = "completed" =>
         \A d \in ToSet(r.dests), t \in Asked(kind, r) \cap Critical :
           \E s \in report.sources : FoundIn(calls, s, d, {t}, TRUE)
    /\ status # "links_broken"
    /\ kind = "details" /\ report # Nothing =>
         /\ saved # Nothing /\ KeepsAdvisory(report)
         /\ saved.fingerprint = FingerprintOf(r, Owned("details", r))
    /\ kind = "preflight" /\ report # Nothing =>
         LinksHold(report) /\ IsFiniteSet(report.sources)

LEMMA EndsKeeps ==
    ASSUME ReadinessInv, NEW kind \in Kinds, NEW r, NEW status, NEW report, NEW coverage,
           Earned(kind, r, status, report, coverage),
           Ends(kind, r, status, report, coverage), cache' = cache, runs' \in 0..MaxRuns
    PROVE  ReadinessInv'
<1>1. /\ result'.kind = kind /\ result'.request = r /\ result'.status = status
      /\ result'.report = report /\ result'.coverage = coverage /\ result'.calls = calls
      /\ run' = Nothing /\ calls' = <<>>
  BY DEF Ends
<1>2. SearchInv'
  BY <1>1, NoCalls DEF ReadinessInv, SearchInv
<1>3. RunInv' /\ CriticalFirst'
  BY <1>1 DEF RunInv, CriticalFirst
<1>4. SavedInv'
  <2>1. CASE kind # "preflight"
    BY <2>1 DEF Ends, ReadinessInv, SavedInv
  <2>2. CASE kind = "preflight" /\ report = Nothing
    BY <2>2 DEF Ends, SavedInv
  <2>3. CASE kind = "preflight" /\ report # Nothing
    <3>1. /\ saved'.report = report /\ saved'.request = r
          /\ saved'.fingerprint = FingerprintOf(r, Owned("preflight", r))
      BY <2>3 DEF Ends
    <3> QED
      BY <2>3, <3>1 DEF SavedInv, Earned
  <2> QED
    BY <2>1, <2>2, <2>3
<1>5. CoveredIsFound'
  <2>1. ASSUME NEW x \in coverage, x.state = "verified"
        PROVE  \E s \in Cited(report.sources, Proofs(report, x.topic)) :
                 \/ FoundFor(s, x.dest, Searched(x.topic), x.topic \in Critical)'
                 \/ x.topic \in {"weather", "packing"} /\ s.url = <<"forecast", x.dest>>
    <3>1. IsFound(x.dest, x.topic, report)
      BY <2>1 DEF Earned
    <3>2. PICK s \in Cited(report.sources, Proofs(report, x.topic)) :
             \/ FoundIn(calls, s, x.dest, Searched(x.topic), x.topic \in Critical)
             \/ x.topic \in {"weather", "packing"} /\ s.url = <<"forecast", x.dest>>
      BY <3>1 DEF IsFound
    <3>3. FoundIn(calls, s, x.dest, Searched(x.topic), x.topic \in Critical)
            => FoundFor(s, x.dest, Searched(x.topic), x.topic \in Critical)'
      BY <1>1 DEF FoundFor, FoundIn
    <3> QED
      BY <3>2, <3>3
  <2> QED
    BY <1>1, <2>1 DEF CoveredIsFound
<1>6. CompletedIsCovered'
  <2>1. ASSUME status = "completed", NEW d \in ToSet(r.dests), NEW t \in Asked(kind, r) \cap Critical
        PROVE  \E s \in report.sources : FoundFor(s, d, {t}, TRUE)'
    <3>1. PICK s \in report.sources : FoundIn(calls, s, d, {t}, TRUE)
      BY <2>1 DEF Earned
    <3>2. FoundFor(s, d, {t}, TRUE)'
      BY <1>1, <3>1 DEF FoundFor, FoundIn
    <3> QED
      BY <3>2
  <2> QED
    BY <1>1, <2>1 DEF CompletedIsCovered
<1>7. LinksNeverBreak'
  BY <1>1 DEF LinksNeverBreak, Earned
<1>8. AdvisoryIsForThisTrip'
  <2> SUFFICES ASSUME kind = "details", report # Nothing
               PROVE  /\ ToSet(saved'.request.dests) = ToSet(r.dests)
                      /\ saved'.request.passport = r.passport /\ saved'.request.dates = r.dates
                      /\ saved'.request.origin = r.origin
                           => AdvisoryDomains(saved'.request) = AdvisoryDomains(r)
                      /\ \A f \in DOMAIN saved'.report.cites :
                           f \in DOMAIN report.cites
                             /\ report.cites[f] = saved'.report.cites[f]
    BY <1>1 DEF AdvisoryIsForThisTrip, AdvisoryDomains
  <2>1. saved' = saved
    BY DEF Ends
  <2>2. /\ saved # Nothing /\ KeepsAdvisory(report)
        /\ saved.fingerprint = FingerprintOf(r, Owned("details", r))
    BY DEF Earned
  <2>3. FingerprintOf(saved.request, Owned("preflight", saved.request))
          = FingerprintOf(r, Owned("details", r))
    BY <2>2 DEF ReadinessInv, SavedInv
  <2>4. /\ ToSet(saved.request.dests) = ToSet(r.dests)
        /\ saved.request.passport = r.passport /\ saved.request.dates = r.dates
    BY <2>3 DEF FingerprintOf
  <2>5. saved.request.origin = r.origin => AdvisoryDomains(saved.request) = AdvisoryDomains(r)
    BY <2>4 DEF AdvisoryDomains
  <2> QED
    BY <2>1, <2>2, <2>4, <2>5 DEF KeepsAdvisory
<1> QED
  BY <1>2, <1>3, <1>4, <1>5, <1>6, <1>7, <1>8 DEF ReadinessInv, ResultInv

LEMMA NothingEarns ==
    ASSUME NEW kind, NEW r, NEW status, status \notin {"completed", "links_broken"}
    PROVE  Earned(kind, r, status, Nothing, {})
  BY DEF Earned

-----------------------------------------------------------------------------
(* A run begins. *)

LEMMA GatheredSound ==
    ASSUME NEW qs, IsList(qs), Len(qs) <= MaxQueries, TopicsKnown(qs), Gather(qs)
    PROVE  /\ SoundCalls(calls') /\ DOMAIN calls' = 1..Len(qs)
           /\ \A i \in 1..Len(qs) : calls'[i].query = qs[i]
<1> DEFINE n == Len(qs)
<1>1. n \in Nat /\ DOMAIN qs = 1..n
  BY ListIs
<1>2. calls' = [i \in 1..n |-> Search(qs[i])]
  BY <1>1 DEF Gather
<1>3. n <= MaxQueries
  OBVIOUS
<1>4. \A i \in 1..n : qs[i].topic \in ToSet(TopicOrder)
  BY DEF TopicsKnown
<1> HIDE DEF n
<1>5. ASSUME NEW i \in 1..n
      PROVE  SoundCall(calls'[i]) /\ calls'[i].query = qs[i] /\ calls'[i].phase # "posted"
  <2>1. calls'[i] = [query |-> qs[i], phase |-> "new", tries |-> 0, failed |-> FALSE, pages |-> <<>>]
    BY <1>2 DEF Search
  <2>2. IsList(<<>>)
    BY DEF IsList, ToSet
  <2> QED
    BY <1>4, <2>1, <2>2, Bounds DEF SoundCall, IsCall, Phases
<1>6. calls' = [i \in 1..n |-> calls'[i]]
  BY <1>2
<1>7. IsList(calls') /\ Len(calls') = n /\ DOMAIN calls' = 1..n
  BY <1>1, <1>6, ListMade
<1>8. Cardinality({i \in 1..n : calls'[i].phase = "posted"}) <= Concurrency
  <2>1. {i \in 1..n : calls'[i].phase = "posted"} = {}
    BY <1>5
  <2> QED
    BY <2>1, FS_EmptySet, Bounds
<1> QED
  BY <1>3, <1>5, <1>7, <1>8 DEF SoundCalls, n

LEMMA BeginKeeps ==
    ASSUME ReadinessInv, NEW kind \in Kinds, NEW r \in Requests, MayStart(kind, r), ~Stale(kind, r),
           Asked(kind, r) # {}, NEW dests \in {{}, ToSet(r.dests)},
           NEW forecasts \in [dests -> Forecasts(r)], Begin(kind, r, forecasts),
           saved' = saved, cache' = cache, runs' \in 0..MaxRuns
    PROVE  ReadinessInv'
<1> DEFINE topics == Asked(kind, r)
           seasonal == {d \in DOMAIN forecasts : forecasts[d] # "days"}
           qs == Plan(r, topics, seasonal)
<1>1. /\ run' = [kind |-> kind, request |-> r, forecasts |-> forecasts]
      /\ result' = Nothing /\ Gather(qs)
  BY DEF Begin
<1>2. IsList(qs) /\ Len(qs) <= MaxQueries /\ TopicsKnown(qs) /\ CriticalAhead(qs, r, topics)
  <2>1. IsList(r.dests)
    BY ReadinessAssumption
  <2> QED
    BY <2>1, PlanInOrder
<1> HIDE DEF qs
<1>3. /\ SoundCalls(calls') /\ DOMAIN calls' = 1..Len(qs)
      /\ \A i \in 1..Len(qs) : calls'[i].query = qs[i]
  BY <1>1, <1>2, GatheredSound
<1>4. run' # Nothing
  <2>1. run' \in [kind : Kinds, request : {r}, forecasts : [dests -> Forecasts(r)]]
    BY <1>1
  <2> QED
    BY <2>1, NothingAssumption
<1>5. run'.kind = kind /\ run'.request = r
  BY <1>1
<1>6. SearchInv'
  BY <1>3, <1>4 DEF ReadinessInv, SearchInv
<1>7. RunInv'
  <2>1. kind = "details" => /\ saved # Nothing
                           /\ saved.fingerprint = FingerprintOf(r, Owned("details", r))
    BY DEF MayStart, Stale
  <2> QED
    BY <1>5, <2>1 DEF RunInv
<1>8. CriticalFirst'
  <2> SUFFICES ASSUME NEW i \in DOMAIN calls', calls'[i].query.topic \notin Critical,
                      NEW d \in ToSet(r.dests), NEW t \in Critical, Wanted(t, d, r, topics, {})
               PROVE  \E k \in DOMAIN calls' : calls'[k].query = Query(d, t, r)
    BY <1>5 DEF CriticalFirst
  <2>1. i \in 1..Len(qs) /\ qs[i].topic \notin Critical
    BY <1>3
  <2>2. PICK k \in 1..i : qs[k] = Query(d, t, r)
    BY <1>2, <2>1 DEF CriticalAhead
  <2>3. k \in 1..Len(qs)
    BY <1>2, <2>1, ListIs
  <2> QED
    BY <1>3, <2>2, <2>3
<1>9. SavedInv'
  BY DEF ReadinessInv, SavedInv
<1>10. ResultInv'
  BY <1>1 DEF ResultInv, CoveredIsFound, CompletedIsCovered, LinksNeverBreak, AdvisoryIsForThisTrip
<1> QED
  BY <1>6, <1>7, <1>8, <1>9, <1>10 DEF ReadinessInv

LEMMA StartKeeps ==
    ASSUME ReadinessInv, NEW kind \in Kinds, NEW r \in Requests, Start(kind, r)
    PROVE  ReadinessInv'
<1> DEFINE topics == Asked(kind, r)
           unclear == "entry" \in (IF kind = "preflight" THEN r.topics ELSE topics)
                      /\ r.passport = ""
           weather == IF "weather" \in topics THEN ToSet(r.dests) ELSE {}
           whole == IF kind = "details" THEN saved.report ELSE Report(r.dests, {}, << >>)
<1>1. MayStart(kind, r) /\ cache' = cache /\ runs' \in 0..MaxRuns
  <2>1. MayStart(kind, r) /\ cache' = cache /\ runs < MaxRuns /\ runs' = runs + 1
    BY DEF Start
  <2>2. runs \in 0..MaxRuns
    BY DEF ReadinessInv, SearchInv
  <2> QED
    BY <2>1, <2>2, Bounds
<1>2. CASE unclear
  <2>1. Ends(kind, r, "needs_user_input", Nothing, {})
    BY <1>2 DEF Start
  <2> QED
    BY <1>1, <2>1, NothingEarns, EndsKeeps
<1>3. CASE ~unclear /\ Stale(kind, r)
  <2>1. Ends(kind, r, "stale", Nothing, {})
    BY <1>3 DEF Start
  <2> QED
    BY <1>1, <2>1, NothingEarns, EndsKeeps
<1>4. CASE ~unclear /\ ~Stale(kind, r) /\ topics = {}
  <2>1. Ends(kind, r, "completed", whole, {})
    BY <1>4 DEF Start
  <2>2. kind # "preflight"
    BY <1>4 DEF Asked
  <2>3. kind = "details" => /\ saved # Nothing
                           /\ saved.fingerprint = FingerprintOf(r, Owned("details", r))
    BY <1>1, <1>4 DEF MayStart, Stale
  <2>4. kind = "details" => KeepsAdvisory(whole)
    BY DEF KeepsAdvisory
  <2> HIDE DEF whole
  <2>5. Earned(kind, r, "completed", whole, {})
    BY <1>4, <2>2, <2>3, <2>4 DEF Earned
  <2> QED
    BY <1>1, <2>1, <2>5, EndsKeeps
<1>5. CASE ~unclear /\ ~Stale(kind, r) /\ topics # {}
  <2>1. PICK forecasts \in [weather -> Forecasts(r)] :
           Begin(kind, r, forecasts) /\ UNCHANGED saved
    BY <1>5 DEF Start
  <2>2. weather \in {{}, ToSet(r.dests)}
    OBVIOUS
  <2> HIDE DEF weather
  <2> QED
    BY <1>1, <1>5, <2>1, <2>2, BeginKeeps
<1> QED
  BY <1>2, <1>3, <1>4, <1>5

-----------------------------------------------------------------------------
(* The report is written. *)

LEMMA WriteKeeps ==
    ASSUME ReadinessInv, WriteReport
    PROVE  ReadinessInv'
<1> DEFINE kind == run.kind
           r == run.request
           forecasts == run.forecasts
           S == Retrieved(Reserved(kind))
           W == WeatherSources(r, forecasts, Reserved(kind) \cup {s.id : s \in S})
           seen(report) == IF kind = "details" THEN report.sources ELSE S \cup W
           J(pre, part) == Joined(kind, r, pre, part, forecasts, W)
           Cov(report) == Coverage(r.dests, Asked(kind, r), report, seen(report), forecasts)
           Clash(pre, part) == kind = "details" /\ NumbersClash(pre, Weathered(part, forecasts, W))
<1>1. /\ run # Nothing /\ kind \in Kinds /\ r \in Requests /\ Asked(kind, r) # {}
      /\ kind = "details" =>
           /\ saved # Nothing
           /\ saved.fingerprint = FingerprintOf(r, Owned("details", r))
  BY DEF WriteReport, ReadinessInv, RunInv
<1>2. cache' = cache /\ runs' \in 0..MaxRuns
  BY DEF WriteReport, ReadinessInv, SearchInv
<1>3. PICK pre \in Preflights(kind, r, S), part \in Parts(kind, r, S) :
        IF kind = "details" /\ pre.dests # r.dests
        THEN Ends(kind, r, "destinations_differ", Nothing, {})
        ELSE IF ~LinksHold(J(pre, part)) \/ Clash(pre, part)
        THEN Ends(kind, r, "links_broken", Nothing, {})
        ELSE Ends(kind, r, Outcome(Cov(J(pre, part))), J(pre, part), Cov(J(pre, part)))
  BY Zenon DEF WriteReport
<1> DEFINE A == Behind(kind, S, W)
           j == J(pre, part)
<1>4. IsFiniteSet(A) /\ UniqueIds(A)
  <2> DEFINE P == IF kind = "details" THEN saved.report.sources ELSE {}
  <2>1. IsFiniteSet(P) /\ UniqueIds(P)
    <3>1. CASE kind = "details"
      BY <1>1, <3>1 DEF ReadinessInv, SavedInv, LinksHold, UniqueIds
    <3>2. CASE kind # "details"
      BY <3>2, FS_EmptySet DEF UniqueIds
    <3> QED
      BY <3>1, <3>2
  <2>2. Reserved(kind) = Ids(P)
    BY DEF Reserved, Ids
  <2>3. A = P \cup (S \cup W)
    BY DEF Behind
  <2>4. S = Retrieved(Ids(P)) /\ W = WeatherSources(r, forecasts, Ids(P) \cup Ids(S))
    BY <2>2 DEF Ids
  <2>5. SoundCalls(calls) /\ IsList(r.dests)
    BY <1>1, ReadinessAssumption DEF ReadinessInv, SearchInv
  <2> HIDE DEF P, S, W, r, forecasts
  <2>6. IsFiniteSet(P \cup (S \cup W)) /\ UniqueIds(P \cup (S \cup W))
    BY <2>1, <2>4, <2>5, SourcesApart
  <2> QED
    BY <2>3, <2>6
<1>5. SavedLinks(kind)
  BY <1>1 DEF SavedLinks, ReadinessInv, SavedInv
<1> HIDE DEF S, W, kind, r, forecasts
<1>6. /\ LinksHold(j) /\ j.sources \subseteq A
      /\ kind = "details" => Weathered(part, forecasts, W).sources \subseteq S \cup W
  BY <1>1, <1>4, <1>5, JoinedLinks
<1>7. ~Clash(pre, part)
  <2> SUFFICES ASSUME kind = "details" PROVE ~NumbersClash(pre, Weathered(part, forecasts, W))
    OBVIOUS
  <2>1. pre = saved.report
    BY DEF Preflights
  <2>2. UniqueIds(Behind("details", S, W)) /\ Weathered(part, forecasts, W).sources \subseteq S \cup W
    BY <1>4, <1>6
  <2> QED
    BY <2>1, <2>2, NeverClash
<1>8. kind = "details" => KeepsAdvisory(j)
  <2> SUFFICES ASSUME kind = "details" PROVE KeepsAdvisory(j)
    OBVIOUS
  <2>1. pre = saved.report
    BY DEF Preflights
  <2>2. j = Assemble(saved.report, Weathered(part, forecasts, W))
    BY <2>1 DEF Joined, Stages
  <2> QED
    BY <2>2, AssemblyKeepsAdvisory
<1> HIDE DEF j, Clash
<1>9. CASE kind = "details" /\ pre.dests # r.dests
  <2>1. Ends(kind, r, "destinations_differ", Nothing, {})
    BY <1>3, <1>9
  <2> QED
    BY <1>1, <1>2, <2>1, NothingEarns, EndsKeeps
<1>10. CASE ~(kind = "details" /\ pre.dests # r.dests)
  <2> DEFINE seenOf == seen(j)
             cov == Cov(j)
  <2>1. Ends(kind, r, Outcome(cov), j, cov)
    BY <1>3, <1>6, <1>7, <1>10 DEF j
  <2>2. UniqueIds(seenOf) /\ j.sources \subseteq seenOf
    <3>1. CASE kind = "details"
      BY <1>6, <3>1 DEF LinksHold, UniqueIds
    <3>2. CASE kind # "details"
      <4>1. A = S \cup W
        BY <3>2 DEF Behind
      <4> HIDE DEF A
      <4> QED
        BY <1>4, <1>6, <3>2, <4>1
    <3> QED
      BY <3>1, <3>2
  <2>3. cov = Coverage(r.dests, Asked(kind, r), j, seenOf, forecasts)
    OBVIOUS
  <2> HIDE DEF seenOf, cov, seen, Cov, A, J
  <2>4. ASSUME NEW x \in cov, x.state = "verified" PROVE IsFound(x.dest, x.topic, j)
    <3>1. Verified(x.dest, x.topic, j, seenOf)
      BY <2>3, <2>4, CoverageStates
    <3> QED
      BY <2>2, <3>1, VerifiedIsFound
  <2>5. ASSUME Outcome(cov) = "completed", NEW d \in ToSet(r.dests),
               NEW t \in Asked(kind, r) \cap Critical
        PROVE  \E s \in j.sources : FoundIn(calls, s, d, {t}, TRUE)
    <3>1. Outcome(Coverage(r.dests, Asked(kind, r), j, seenOf, forecasts)) = "completed"
      BY <2>3, <2>5
    <3>2. Verified(d, t, j, seenOf)
      BY <2>5, <3>1, CompletedVerifies
    <3>3. IsFound(d, t, j)
      BY <2>2, <3>2, VerifiedIsFound
    <3>4. Searched(t) = {t} /\ (t \in Critical) = TRUE /\ t \notin {"weather", "packing"}
      BY <2>5 DEF Searched, Critical
    <3>5. PICK s \in Cited(j.sources, Proofs(j, t)) : FoundIn(calls, s, d, {t}, TRUE)
      BY <3>3, <3>4 DEF IsFound
    <3>6. s \in j.sources
      BY DEF Cited
    <3> QED
      BY <3>5, <3>6
  <2>6. Outcome(cov) # "links_broken"
    BY DEF Outcome
  <2>7. IsFiniteSet(j.sources)
    <3>1. j.sources \in SUBSET A
      BY <1>6
    <3> QED
      BY <1>4, <3>1, FS_Subset
  <2>8. Earned(kind, r, Outcome(cov), j, cov)
    BY <1>1, <1>6, <1>8, <2>4, <2>5, <2>6, <2>7 DEF Earned
  <2> QED
    BY <1>1, <1>2, <2>1, <2>8, EndsKeeps
<1> QED
  BY <1>9, <1>10

LEMMA ResultStays ==
    ASSUME ResultInv, result' = result, saved' = saved
    PROVE  ResultInv'
  BY DEF ResultInv, CoveredIsFound, CompletedIsCovered, LinksNeverBreak, AdvisoryIsForThisTrip,
     FoundFor

LEMMA SearchKeeps ==
    ASSUME ReadinessInv, SearchStep
    PROVE  ReadinessInv'
<1>1. PICK i \in DOMAIN calls : Step(i)
  BY DEF SearchStep
<1>2. run # Nothing /\ run' = run /\ saved' = saved /\ result' = result /\ runs' = runs
  BY DEF SearchStep
<1>3. SoundCalls(calls) /\ SoundCache(cache)
  BY DEF ReadinessInv, SearchInv
<1>4. DOMAIN calls = 1..Len(calls)
  BY <1>3, ListIs DEF SoundCalls
<1>5. i \in 1..Len(calls)
  BY <1>4
<1>6. (\E c : Moves(i, c)) /\ SoundCache(cache')
  BY <1>1, <1>3, <1>5, StepsAreMoves
<1>7. PICK c : Moves(i, c)
  BY <1>6
<1>8. /\ SoundCalls(calls') /\ Len(calls') = Len(calls)
      /\ \A k \in 1..Len(calls) : calls'[k].query = calls[k].query
  BY <1>3, <1>5, <1>7, MovesKeep
<1>9. DOMAIN calls' = 1..Len(calls)
  BY <1>8, ListIs DEF SoundCalls
<1>10. SearchInv'
  BY <1>2, <1>6, <1>8 DEF ReadinessInv, SearchInv
<1>11. CriticalFirst'
  <2> SUFFICES ASSUME NEW k \in DOMAIN calls', calls'[k].query.topic \notin Critical,
                      NEW d \in ToSet(run.request.dests), NEW t \in Critical,
                      Wanted(t, d, run.request, Asked(run.kind, run.request), {})
               PROVE  \E l \in DOMAIN calls' : calls'[l].query = Query(d, t, run.request)
    BY <1>2 DEF CriticalFirst
  <2>1. k \in DOMAIN calls /\ calls[k].query.topic \notin Critical
    BY <1>4, <1>8, <1>9
  <2>2. PICK l \in DOMAIN calls : calls[l].query = Query(d, t, run.request)
    BY <1>2, <2>1 DEF ReadinessInv, CriticalFirst
  <2> QED
    BY <1>4, <1>8, <1>9, <2>2
<1>12. RunInv' /\ SavedInv'
  BY <1>2 DEF ReadinessInv, RunInv, SavedInv
<1>13. ResultInv'
  BY <1>2, ResultStays DEF ReadinessInv
<1> QED
  BY <1>10, <1>11, <1>12, <1>13 DEF ReadinessInv

LEMMA OthersKeep ==
    ASSUME ReadinessInv, WritingFails \/ CutRun \/ TimePasses \/ UNCHANGED readinessVars
    PROVE  ReadinessInv'
<1>1. CASE WritingFails
  <2>1. /\ run.kind \in Kinds /\ cache' = cache /\ runs' \in 0..MaxRuns
        /\ Ends(run.kind, run.request, "blocked_external", Nothing, {})
    BY <1>1 DEF WritingFails, ReadinessInv, RunInv, SearchInv
  <2> QED
    BY <2>1, NothingEarns, EndsKeeps
<1>2. CASE CutRun
  <2>1. /\ run' = Nothing /\ calls' = <<>> /\ cache' = cache /\ saved' = saved
        /\ result' = result /\ runs' = runs
    BY <1>2 DEF CutRun, Cancelled
  <2>2. SearchInv'
    BY <2>1, NoCalls DEF ReadinessInv, SearchInv
  <2>3. ResultInv'
    BY <2>1, ResultStays DEF ReadinessInv
  <2> QED
    BY <2>1, <2>2, <2>3 DEF ReadinessInv, RunInv, CriticalFirst, SavedInv
<1>3. CASE TimePasses \/ UNCHANGED readinessVars
  <2>1. /\ run' = run /\ calls' = calls /\ saved' = saved
        /\ result' = result /\ runs' = runs
    BY <1>3 DEF TimePasses, Age, readinessVars
  <2>2. SoundCache(cache')
    BY <1>3, AgedSound DEF TimePasses, readinessVars, ReadinessInv, SearchInv
  <2>3. SearchInv'
    BY <2>1, <2>2 DEF ReadinessInv, SearchInv
  <2>4. ResultInv'
    BY <2>1, ResultStays DEF ReadinessInv
  <2> QED
    BY <2>1, <2>3, <2>4 DEF ReadinessInv, RunInv, CriticalFirst, SavedInv
<1> QED
  BY <1>1, <1>2, <1>3

LEMMA ReadinessInvStep == ReadinessInv /\ [ReadinessNext]_readinessVars => ReadinessInv'
<1> SUFFICES ASSUME ReadinessInv, [ReadinessNext]_readinessVars PROVE ReadinessInv'
  OBVIOUS
<1>1. CASE \E kind \in Kinds, r \in Requests : Start(kind, r)
  BY <1>1, StartKeeps
<1>2. CASE SearchStep
  BY <1>2, SearchKeeps
<1>3. CASE WriteReport
  BY <1>3, WriteKeeps
<1>4. CASE WritingFails \/ CutRun \/ TimePasses \/ UNCHANGED readinessVars
  BY <1>4, OthersKeep
<1> QED
  BY <1>1, <1>2, <1>3, <1>4 DEF ReadinessNext

LEMMA ReadinessInvHolds == ReadinessSpec => []ReadinessInv
  BY ReadinessInvInit, ReadinessInvStep, PTL DEF ReadinessSpec

\* What a report says is grounded in what was found: every topic that it
\* is said to cover for a destination has a page in it that a search found for
\* both, official where it has to be, and every citation has its one source.
THEOREM GroundedReports == ReadinessSpec => []ReportIsGrounded
<1>1. ReadinessInv => ReportIsGrounded
  <2> SUFFICES ASSUME ReadinessInv PROVE ReportIsGrounded
    OBVIOUS
  <2>1. SoundCalls(calls) /\ SoundCache(cache) /\ runs \in 0..MaxRuns
        /\ (run # Nothing \/ calls = <<>>)
    BY DEF ReadinessInv, SearchInv
  <2>2. DOMAIN calls = 1..Len(calls)
    BY <2>1, ListIs DEF SoundCalls
  <2>3. \A i \in DOMAIN calls : calls[i].phase \in Phases /\ calls[i].tries \in 0..MaxAttempts
    BY <2>1, <2>2 DEF SoundCalls, SoundCall
  <2>4. Len(calls) <= MaxQueries /\ Cardinality(Posted) <= Concurrency
    BY <2>1, <2>2 DEF SoundCalls, Posted
  <2>5. Cardinality(DOMAIN cache) <= CacheSize
    BY <2>1 DEF SoundCache
  <2>6. saved # Nothing => LinksHold(saved.report)
    BY DEF ReadinessInv, SavedInv
  <2>7. ReadinessTypeOK
    BY <2>1, <2>3, <2>4, <2>5, <2>6 DEF ReadinessTypeOK
  <2> QED
    BY <2>7 DEF ReportIsGrounded, ReadinessInv, ResultInv
<1> QED
  BY <1>1, ReadinessInvHolds, PTL

\* The safety topics come first: no optional search takes the place of a
\* critical one in the budget, and a run is completed only with an official page
\* for every critical topic it was asked for at every destination.
THEOREM SafetyFirst == ReadinessSpec => []SafetyComesFirst
<1>1. ReadinessInv => SafetyComesFirst
  BY DEF ReadinessInv, ResultInv, SafetyComesFirst
<1> QED
  BY <1>1, ReadinessInvHolds, PTL

\* A report with details says of safety what a preflight for the same
\* destinations, passport and dates found, with the same citations, and from the
\* authority that this request would ask unless the country of origin changed.
THEOREM AdvisoryOfThisTrip == ReadinessSpec => []AdvisoryIsForThisTrip
<1>1. ReadinessInv => AdvisoryIsForThisTrip
  BY DEF ReadinessInv, ResultInv
<1> QED
  BY <1>1, ReadinessInvHolds, PTL

================================================================================
