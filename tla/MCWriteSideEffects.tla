------------------------- MODULE MCWriteSideEffects -------------------------
(* Instances of WriteSideEffects for TLC.                                    *)
EXTENDS WriteSideEffects

=============================================================================
