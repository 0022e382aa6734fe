--------------------------- MODULE MCRequestPolicy ----------------------------
(* A small instance of RequestPolicy: what messages may say.                *)
EXTENDS RequestPolicy, TLC

MCPatches ==
    {[locale |-> "en"],
     [scope |-> "full_itinerary", destinations |-> {"porto"}, start |-> 1, end |-> 2],
     [scope |-> "focused", requested |-> {"hotels"}],
     [requested |-> {"flights"}, declined |-> {"hotels"}],
     [scope |-> "full_itinerary", exclusive |-> FALSE],
     [requested |-> {"hotels"}, confirmed |-> TRUE, exclusive |-> TRUE],
     [destinations |-> {"gold coast"}],
     [overnight |-> {"porto"}, routeConfirmed |-> TRUE],
     [start |-> 2, adults |-> 2]}

MCReplies ==
    {Silence, [kind |-> "only", names |-> {}], [kind |-> "yes", names |-> {}],
     [kind |-> "name", names |-> {"flights"}]}

Symmetry == Permutations(Tabs)
=============================================================================
