---------------------------- MODULE MCLeaveWrite ----------------------------
(* Instances of LeaveWrite for TLC.                                          *)
EXTENDS LeaveWrite, TLC

WorkerSymmetry == Permutations(Workers)
=============================================================================
