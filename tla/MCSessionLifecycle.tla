------------------------- MODULE MCSessionLifecycle --------------------------
(* Small instances of SessionLifecycle. *)
EXTENDS SessionLifecycle, TLC

Symmetry == Permutations(Requests) \cup Permutations(Browsers) \cup Permutations(Accounts)
=============================================================================
