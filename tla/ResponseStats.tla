--------------------------- MODULE ResponseStats ---------------------------
(***************************************************************************)
(* The statistics of response times of MetricsServiceImpl                  *)
(* (src/usecase/metrics_service.go), over the sorted times of a period.    *)
(* The code computes with 64-bit floats and truncates; the model computes  *)
(* exactly and truncates.                                                  *)
(***************************************************************************)
EXTENDS Integers, Sequences

Sorted(times) ==
    /\ times \in Seq(Nat) /\ times # <<>>
    /\ \A i, j \in 1 .. Len(times) : i <= j => times[i] <= times[j]

\* The value at x hundredths past the first element.
Interpolate(times, x) ==
    LET lower == x \div 100 + 1
        weight == x % 100
    IN  IF weight = 0 THEN times[lower]
        ELSE times[lower] + (weight * (times[lower + 1] - times[lower])) \div 100

CalculatePercentile(times, percentile) ==
    Interpolate(times, percentile * (Len(times) - 1))

Stats(times) ==
    [Min |-> times[1], Max |-> times[Len(times)],
     P95 |-> CalculatePercentile(times, 95), P99 |-> CalculatePercentile(times, 99)]
=============================================================================
