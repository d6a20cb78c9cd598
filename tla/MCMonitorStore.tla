--------------------------- MODULE MCMonitorStore ---------------------------
(* Model values for checking MonitorStore with TLC. *)
EXTENDS MonitorStore, TLC
CallerSymmetry == Permutations(Callers)
=============================================================================
