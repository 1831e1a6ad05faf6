------------------------------- MODULE History -------------------------------
(****************************************************************************)
(* What the collector promises to the readers of the database: per target,  *)
(* an append-only set of accepted observations and whether the source is    *)
(* shown to the public.  An observation is accepted in one step, only if it *)
(* is plausible against the newest accepted one, and the first acceptance   *)
(* is the only collector step that may publish the source.                  *)
(*                                                                          *)
(* Collector.tla is shown to implement this specification.                  *)
(****************************************************************************)
EXTENDS Integers

CONSTANTS
    DropMinimum, GrowthMinimum, GrowthMultiplier,   \* of the anomaly policy
    Run,        \* identities of crawl runs
    Target,     \* the collection targets
    Instant,    \* the clock readings
    Total,      \* the totals a source may report
    Operator    \* TRUE if an operator may switch sources on and off

VARIABLES
    history,    \* history[t]: the accepted observations of target t
    published   \* the targets whose source is shown to the public

vars == <<history, published>>

(* The newest observations of a set: those with the greatest captured_at.   *)
Newest(observations) ==
    {o \in observations : \A other \in observations :
        other.captured_at <= o.captured_at}

Init ==
    /\ history = [t \in Target |-> {}]
    /\ published \in SUBSET Target

(* Which totals may follow an accepted one: any after a total of zero, else *)
(* at least half of it or less than DropMinimum below it, and at most       *)
(* GrowthMultiplier times as much or less than GrowthMinimum above it.      *)
(* The rule is stated here beside the guard that Quality.tla takes from the *)
(* code, not in its terms.                                                  *)
Plausible(previous, total) ==
    \/ previous = 0
    \/ /\ previous <= 2 * total \/ previous - total < DropMinimum
       /\ total <= previous * GrowthMultiplier \/ total - previous < GrowthMinimum

(* One observation of run r becomes part of the history of t.               *)
Accept(t, r, at, total) ==
    /\ \A o \in history[t] : o.run # r
    /\ history[t] = {} \/ \E o \in Newest(history[t]) : Plausible(o.total_posts, total)
    /\ history' = [history EXCEPT ![t] = @ \cup
            {[run |-> r, target |-> t, captured_at |-> at, total_posts |-> total]}]
    /\ \/ published' = published
       \/ history[t] = {} /\ published' = published \cup {t}

(* The operator shows or hides a source.                                    *)
Switch(t) ==
    /\ Operator
    /\ published' \in {published \cup {t}, published \ {t}}
    /\ UNCHANGED history

(* A collector creates the row of a target: never shown by that alone.      *)
Next ==
    \E t \in Target :
        \/ \E r \in Run, at \in Instant, total \in Total : Accept(t, r, at, total)
        \/ Switch(t)

Spec == Init /\ [][Next]_vars
==============================================================================
