------------------------------- MODULE MCFeeds -------------------------------
(* Model values that may be exchanged for one another. *)
EXTENDS Feeds, TLC

Symmetry == Permutations(Admins) \cup Permutations(Contents) \cup Permutations(Names)
=============================================================================
