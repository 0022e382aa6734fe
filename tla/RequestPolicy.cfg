SPECIFICATION Spec
CONSTANTS
    Capabilities = {"flights", "hotels", "itinerary"}
    Defaults = {"itinerary"}
    Cities = {"porto", "gold coast"}
    Broad = {"gold coast"}
    Patches <- MCPatches
    Replies <- MCReplies
    Tabs = {t1, t2}
    MaxTurns = 4
    None = None
SYMMETRY Symmetry
CHECK_DEADLOCK FALSE
INVARIANTS OfferIsUsable OnlyAgreedServices
PROPERTIES DecisionsSettle
