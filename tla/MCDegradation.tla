--------------------------- MODULE MCDegradation ---------------------------
(* The module TLC checks; the constants are in the configurations. *)
EXTENDS Degradation, TLC
CallerSymmetry == Permutations(Callers)
=============================================================================
