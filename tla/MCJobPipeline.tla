---------------------------- MODULE MCJobPipeline ----------------------------
(* Finite instances of JobPipeline for TLC.                                *)
EXTENDS JobPipeline, TLC

CONSTANTS i1, i2, w1, w2

(* All workers in the only instance, and one worker in each of two.        *)
HostSingle == [w \in Workers |-> i1]
HostPair   == (w1 :> i1) @@ (w2 :> i2)

(* Jobs and monitors are interchangeable.                                  *)
DataSymmetry == Permutations(Jobs) \union Permutations(Monitors)

(* So are the workers when they share one instance.                        *)
SingleSymmetry == DataSymmetry \union Permutations(Workers)
=============================================================================
