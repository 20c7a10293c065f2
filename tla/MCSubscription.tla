--------------------------- MODULE MCSubscription ---------------------------
(* What TLC adds to Subscription: the symmetry of the session ids. *)
EXTENDS Subscription, TLC

SessionSymmetry == Permutations(Sessions)
=============================================================================
