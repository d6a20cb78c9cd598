--------------------------- MODULE MCHealthMetrics ---------------------------
(* Instances of HealthMetrics for TLC. *)
EXTENDS HealthMetrics, TLC

Symmetry == Permutations(Workers) \cup Permutations(Readers)

\* The theorem of ResponseStats, on short lists of small times.
RS == INSTANCE ResponseStats
ASSUME StatsOrderedOnSmallLists ==
    \A n \in 1 .. 4 : \A times \in [1 .. n -> 0 .. 4] :
        RS!Sorted(times) =>
            LET stats == RS!Stats(times)
            IN  stats.Min <= stats.P95 /\ stats.P95 <= stats.P99 /\ stats.P99 <= stats.Max
=============================================================================
