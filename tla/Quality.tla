------------------------------- MODULE Quality -------------------------------
(****************************************************************************)
(* The anomaly guard of booruradar/services/quality.py: which candidate     *)
(* totals are too far from the previous accepted total to be stored.        *)
(*                                                                          *)
(* The code's thresholds are the field defaults of TotalPostsAnomalyPolicy: *)
(* 100000, 1000000 and the multiplier 5.0.  They are parameters here; the   *)
(* drop ratio 0.5 is exact and is written as "twice the candidate".         *)
(****************************************************************************)
EXTENDS Integers

CONSTANTS
    DropMinimum,         \* catastrophic_drop_minimum
    GrowthMinimum,       \* catastrophic_growth_minimum
    GrowthMultiplier     \* catastrophic_growth_multiplier

ASSUME ThresholdAssumption ==
    /\ DropMinimum \in Nat \ {0}
    /\ GrowthMinimum \in Nat \ {0}
    /\ GrowthMultiplier \in Nat \ {0}

(* Faulty variant of CatastrophicDrop: the minimum itself is no drop.       *)
CatastrophicDropLenient(previous, candidate) ==
    /\ previous - candidate > DropMinimum
    /\ 2 * candidate < previous

(* A fall of at least DropMinimum that leaves less than half.               *)
CatastrophicDrop(previous, candidate) ==
    /\ previous - candidate >= DropMinimum
    /\ 2 * candidate < previous

(* A rise of at least GrowthMinimum past GrowthMultiplier times as much.    *)
CatastrophicGrowth(previous, candidate) ==
    /\ candidate - previous >= GrowthMinimum
    /\ candidate > previous * GrowthMultiplier

(* suspicious_flags returns at most one flag; only its emptiness decides.   *)
(* A previous total of zero (or none at all) is no baseline.                *)
Suspicious(previous, candidate) ==
    /\ previous > 0
    /\ \/ CatastrophicDrop(previous, candidate)
       \/ CatastrophicGrowth(previous, candidate)
==============================================================================
