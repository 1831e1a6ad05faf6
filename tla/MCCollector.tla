----------------------------- MODULE MCCollector -----------------------------
(* Instances of Collector.tla for TLC.  In CollectorHistory, with thresholds*)
(* 2, 6 and 6, the totals {1, 3, 7} meet the boundaries of the anomaly      *)
(* guard: 3 to 1 is a fall of exactly the minimum to just below half, 7 to 3*)
(* one to just below half, 1 to 7 a rise of exactly the minimum to just     *)
(* above the multiple; 1 to 3 and 3 to 7 are ordinary.                      *)
EXTENDS Collector, TLC

(* Invocations are interchangeable until they choose their arguments.       *)
Symmetry == Permutations(Invocation)
==============================================================================
