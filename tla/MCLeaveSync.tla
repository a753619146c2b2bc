----------------------------- MODULE MCLeaveSync -----------------------------
(* Runs may be exchanged for one another. *)
EXTENDS LeaveSync, TLC

Symmetry == Permutations(Runs)
=============================================================================
