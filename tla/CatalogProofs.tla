----------------------------- MODULE CatalogProofs -----------------------------
(****************************************************************************)
(* Theorems about Catalog.tla, for every set of sources, every history the  *)
(* tables may hold to begin with and every threshold.                       *)
(****************************************************************************)
EXTENDS Catalog, FiniteSetTheorems, TLAPS

------------------------------------------------------------------------------
(* Type correctness.                                                        *)

(* What a collector stores is a row.                                        *)
LEMMA NewRowType ==
    ASSUME now \in 0 .. MaxTime, NEW s \in Source, NEW id \in Ids, NEW total \in Totals
    PROVE  NewRow(s, id, total) \in Row
<1>1. total \in Nat /\ Policy[s] \in Provenance
  BY CatalogAssumption
<1> QED
  BY <1>1 DEF NewRow, Row, Metrics

(* Every step keeps the types.                                              *)
LEMMA TypeNext ==
    ASSUME TypeOK, [Next]_vars
    PROVE  TypeOK'
<1>1. ASSUME NEW s \in Source, Accept(s) PROVE TypeOK'
  <2>1. PICK id \in Ids, total \in Totals :
          /\ \A r \in snapshots : r.id # id
          /\ snapshots' = snapshots \cup {NewRow(s, id, total)}
          /\ shown' \in {shown, IF Of(s) = {} THEN shown \cup {s} ELSE shown}
          /\ UNCHANGED now
    BY <1>1 DEF Accept
  <2>2. NewRow(s, id, total) \in Row /\ NewRow(s, id, total).id = id
    BY NewRowType DEF TypeOK, NewRow
  <2>3. shown' \subseteq Source
    BY <2>1 DEF TypeOK
  <2> QED
    BY <2>1, <2>2, <2>3 DEF TypeOK
<1>2. ASSUME NEW s \in Source, Switch(s) PROVE TypeOK'
  BY <1>2 DEF Switch, TypeOK
<1>3. CASE Clock
  BY <1>3, CatalogAssumption DEF Clock, TypeOK
<1>4. CASE UNCHANGED vars
  BY <1>4 DEF vars, TypeOK
<1> QED
  BY <1>1, <1>2, <1>3, <1>4 DEF Next

(* The tables keep their types, and the ids of snapshots stay their own.    *)
THEOREM TypeCorrectness == Spec => []TypeOK
<1>1. Init => TypeOK
  BY LegacyAssumption DEF Init, TypeOK
<1>2. TypeOK /\ [Next]_vars => TypeOK'
  BY TypeNext
<1> QED
  BY <1>1, <1>2, PTL DEF Spec

------------------------------------------------------------------------------
(* The order of history.                                                    *)

(* Its keys are numbers.                                                    *)
LEMMA RowKeys ==
    ASSUME TypeOK, NEW r \in snapshots
    PROVE  r.id \in Nat /\ r.captured_at \in Nat
<1>1. r \in Row
  BY DEF TypeOK
<1>2. r.id \in Nat
  <2>1. r.id \in Ids
    BY <1>1 DEF Row
  <2>2. Ids \subseteq Nat
    BY CatalogAssumption
  <2> QED
    BY <2>1, <2>2
<1>3. r.captured_at \in Nat
  <2>1. r.captured_at \in 0 .. MaxTime
    BY <1>1 DEF Row
  <2>2. MaxTime \in Nat
    BY CatalogAssumption
  <2> QED
    BY <2>1, <2>2
<1> QED
  BY <1>2, <1>3

(* There are finitely many snapshots, because there are finitely many ids.  *)
LEMMA FiniteHistory ==
    ASSUME TypeOK, NEW rows \in SUBSET snapshots
    PROVE  IsFiniteSet(rows)
<1> DEFINE id == [r \in snapshots |-> r.id]
<1>1. id \in Injection(snapshots, Ids)
  BY DEF TypeOK, Row, Injection, IsInjective
<1>2. IsFiniteSet(snapshots)
  BY <1>1, FS_Injection, CatalogAssumption
<1> QED
  BY <1>2, FS_Subset

(* It is a strict total order.                                              *)
LEMMA AfterOrders ==
    ASSUME TypeOK
    PROVE  /\ \A r, q \in snapshots : r # q => After(r, q) \/ After(q, r)
           /\ \A r, q \in snapshots : ~ (After(r, q) /\ After(q, r))
           /\ \A r, q, o \in snapshots : After(r, q) /\ After(q, o) => After(r, o)
<1>1. \A r, q \in snapshots : r # q => r.id # q.id
  BY DEF TypeOK
<1> QED
  BY <1>1, RowKeys DEF After

(* Rows that are there have a first one, which comes before all others.     *)
LEMMA FirstComesFirst ==
    ASSUME TypeOK, NEW rows \in SUBSET snapshots, rows # {}
    PROVE  First(rows) \in rows /\ \A q \in rows \ {First(rows)} : After(First(rows), q)
<1> DEFINE Before(r) == {q \in rows : After(q, r)}
           Tails == {Before(r) : r \in rows}
<1>1. Tails \subseteq FiniteSubsetsOf(rows) /\ Tails # {}
  BY FiniteHistory DEF FiniteSubsetsOf
<1>2. IsWellFoundedOn(StrictSubsetOrdering(rows), FiniteSubsetsOf(rows))
  BY FS_StrictSubsetOrderingWellFounded
<1>3. PICK tail \in Tails : \A other \in Tails : <<other, tail>> \notin StrictSubsetOrdering(rows)
  <2> HIDE DEF Tails
  <2> QED
    BY <1>1, <1>2, WFMin
<1>4. PICK r \in rows : tail = Before(r)
  BY <1>3
<1>5. Before(r) = {}
  <2>1. SUFFICES ASSUME NEW q \in Before(r) PROVE FALSE
    OBVIOUS
  <2>2. q \in rows /\ After(q, r) /\ ~ After(q, q)
    BY AfterOrders
  <2>3. Before(q) \subseteq Before(r) /\ Before(q) # Before(r)
    BY <2>2, AfterOrders
  <2>4. <<Before(q), Before(r)>> \in StrictSubsetOrdering(rows)
    BY <2>3 DEF StrictSubsetOrdering
  <2> QED
    BY <1>3, <1>4, <2>2, <2>4
<1>6. \A q \in rows \ {r} : After(r, q)
  BY <1>4, <1>5, AfterOrders
<1> QED
  BY <1>4, <1>6 DEF First

(* And no other does.                                                       *)
LEMMA FirstIsUnique ==
    ASSUME TypeOK, NEW rows \in SUBSET snapshots, NEW r \in rows,
           \A q \in rows \ {r} : ~ After(q, r)
    PROVE  First(rows) = r
BY FirstComesFirst

(* Of two rows and more, the second comes before the rest.                  *)
LEMMA SecondComesSecond ==
    ASSUME TypeOK, NEW rows \in SUBSET snapshots, ~ Cardinality(rows) < 2
    PROVE  /\ First(rows) \in rows /\ Second(rows) \in rows
           /\ First(rows) # Second(rows)
           /\ \A q \in rows \ {First(rows), Second(rows)} : After(Second(rows), q)
<1>1. IsFiniteSet(rows) /\ Cardinality(rows) \in Nat
  BY FiniteHistory, FS_CardinalityType
<1>2. rows # {}
  BY <1>1, FS_EmptySet
<1>3. First(rows) \in rows
  BY <1>2, FirstComesFirst
<1>4. rows \ {First(rows)} # {}
  <2>1. Cardinality(rows \ {First(rows)}) = Cardinality(rows) - 1
    BY <1>1, <1>3, FS_RemoveElement
  <2> QED
    BY <1>1, <2>1, FS_EmptySet
<1> QED
  BY <1>3, <1>4, FirstComesFirst DEF Second

------------------------------------------------------------------------------
(* The queries for the newest rows.                                         *)

(* A join on ranks up to two is a query with LIMIT 2.                       *)
LEMMA WindowIsNewest ==
    ASSUME TypeOK, NEW s
    PROVE  Window(s) = NewestRows(s, 2)
<1>1. SUFFICES ASSUME NEW r \in Of(s)
               PROVE  SnapshotRank(r) <= 2 <=> Cardinality({q \in Of(s) : After(q, r)}) < 2
  BY DEF Window, NewestRows
<1> DEFINE newer == {q \in Of(s) : After(q, r)}
<1>2. {q \in snapshots : q.source = r.source /\ After(q, r)} = newer
  BY DEF Of
<1>3. Cardinality(newer) \in Nat
  BY FiniteHistory, FS_CardinalityType DEF Of
<1>4. SnapshotRank(r) = 1 + Cardinality(newer)
  BY <1>2 DEF SnapshotRank
<1> HIDE DEF newer
<1>5. SnapshotRank(r) <= 2 <=> Cardinality(newer) < 2
  BY <1>3, <1>4
<1> QED
  BY <1>5 DEF newer

(* A scalar subquery with LIMIT 1 is the query with LIMIT 1.                *)
LEMMA LatestIsNewest ==
    ASSUME TypeOK, NEW s
    PROVE  LatestRow(s) = NewestRows(s, 1)
<1>1. SUFFICES ASSUME NEW r \in Of(s)
               PROVE  ~ (\E q \in Of(s) : After(q, r))
                        <=> Cardinality({q \in Of(s) : After(q, r)}) < 1
  BY DEF LatestRow, NewestRows
<1> DEFINE newer == {q \in Of(s) : After(q, r)}
<1>2. IsFiniteSet(newer) /\ Cardinality(newer) \in Nat
  BY FiniteHistory, FS_CardinalityType DEF Of
<1>3. Cardinality(newer) = 0 <=> newer = {}
  BY <1>2, FS_EmptySet
<1> QED
  BY <1>2, <1>3

(* It finds the first row of the order, if the source has rows.             *)
LEMMA LatestIsFirst ==
    ASSUME TypeOK, NEW s
    PROVE  LatestRow(s) = IF Of(s) = {} THEN {} ELSE {First(Of(s))}
<1>1. CASE Of(s) = {}
  BY <1>1 DEF LatestRow
<1>2. CASE Of(s) # {}
  <2>1. Of(s) \in SUBSET snapshots
    BY DEF Of
  <2>2. First(Of(s)) \in Of(s) /\ \A q \in Of(s) \ {First(Of(s))} : After(First(Of(s)), q)
    BY <1>2, <2>1, FirstComesFirst
  <2>3. First(Of(s)) \in LatestRow(s)
    <3>1. ASSUME NEW q \in Of(s) PROVE ~ After(q, First(Of(s)))
      BY <2>1, <2>2, AfterOrders
    <3> QED
      BY <2>2, <3>1 DEF LatestRow
  <2>4. ASSUME NEW r \in LatestRow(s) PROVE r = First(Of(s))
    BY <2>2, <2>4 DEF LatestRow
  <2> QED
    BY <1>2, <2>3, <2>4
<1> QED
  BY <1>1, <1>2

(* And so does the first row of the join.                                   *)
LEMMA WindowStartsThere ==
    ASSUME TypeOK, NEW s
    PROVE  LatestRow(s) = IF Window(s) = {} THEN {} ELSE {First(Window(s))}
<1>1. Of(s) \in SUBSET snapshots /\ Window(s) \in SUBSET snapshots /\ Window(s) \subseteq Of(s)
  BY DEF Of, Window
<1>2. CASE Of(s) = {}
  BY <1>1, <1>2, LatestIsFirst
<1>3. CASE Of(s) # {}
  <2> DEFINE f == First(Of(s))
  <2>1. f \in Of(s) /\ \A q \in Of(s) \ {f} : After(f, q)
    BY <1>1, <1>3, FirstComesFirst
  <2>2. \A q \in Of(s) : ~ After(q, f)
    BY <1>1, <2>1, AfterOrders
  <2>3. {q \in Of(s) : After(q, f)} = {}
    BY <2>2
  <2>4. f \in Window(s)
    <3>1. Cardinality({q \in Of(s) : After(q, f)}) = 0
      BY <2>3, FS_EmptySet
    <3>2. f \in NewestRows(s, 2)
      BY <2>1, <3>1 DEF NewestRows
    <3> QED
      BY <3>2, WindowIsNewest
  <2>5. First(Window(s)) = f
    BY <1>1, <2>2, <2>4, FirstIsUnique
  <2> QED
    BY <1>3, <2>4, <2>5, LatestIsFirst
<1> QED
  BY <1>2, <1>3

------------------------------------------------------------------------------
(* Growth, judged twice.                                                    *)

(* The metrics of a row are typed.                                          *)
LEMMA RowMetrics ==
    ASSUME TypeOK, NEW r \in snapshots
    PROVE  /\ r.metrics \in Metrics /\ r.id \in Ids
           /\ r.captured_at \in 0 .. MaxTime /\ r.source \in Source
BY DEF TypeOK, Row

(* What the analytics take for a pair, catalog's validation lets through.   *)
LEMMA CompatibleIsValid ==
    ASSUME NEW m \in Metrics, NEW n \in Metrics, Compatible(m, n)
    PROVE  /\ Validation(m) = "none" /\ Validation(n) = "none"
           /\ m.provenance = n.provenance
           /\ m.value \in Nat /\ n.value \in Nat
BY DEF Compatible, WellFormed, Validation, Metrics

(* A reason is why there is no rank.                                        *)
LEMMA ValidationReasons ==
    ASSUME NEW m
    PROVE  Validation(m) \in {"none", "missing_total_posts", "invalid_total_posts",
                              "incompatible_unit"}
BY DEF Validation

(* A pair that is no pair has the same record in both growth rankings.      *)
LEMMA IncompatiblePair ==
    ASSUME NEW c, NEW p, ~ Compatible(p.metrics, c.metrics)
    PROVE  \E reason \in {"missing_total_posts", "invalid_total_posts", "incompatible_unit",
                          "incompatible_provenance"} :
               \A mode \in Mode : PairRecord(c, p, mode) = Ineligible(reason)
<1>1. CASE Validation(c.metrics) # "none"
  BY <1>1, ValidationReasons DEF PairRecord
<1>2. CASE Validation(c.metrics) = "none" /\ Validation(p.metrics) # "none"
  BY <1>2, ValidationReasons DEF PairRecord
<1>3. CASE Validation(c.metrics) = "none" /\ Validation(p.metrics) = "none"
  BY <1>3 DEF PairRecord
<1> QED
  BY <1>1, <1>2, <1>3

(* A pair out of order has none.                                            *)
LEMMA LatePair ==
    ASSUME NEW c, NEW p, c.metrics \in Metrics, p.metrics \in Metrics,
           Compatible(p.metrics, c.metrics), c.captured_at <= p.captured_at
    PROVE  \A mode \in Mode : PairRecord(c, p, mode) = Ineligible("invalid_time_interval")
<1>1. Validation(c.metrics) = "none" /\ Validation(p.metrics) = "none"
      /\ c.metrics.provenance = p.metrics.provenance
  BY CompatibleIsValid
<1> QED
  BY <1>1 DEF PairRecord

(* The others have a record, but for a relative rate of nothing.            *)
LEMMA GoodPair ==
    ASSUME NEW c, NEW p, c.metrics \in Metrics, p.metrics \in Metrics,
           Compatible(p.metrics, c.metrics), ~ c.captured_at <= p.captured_at,
           NEW mode \in Mode
    PROVE  PairRecord(c, p, mode) =
               IF mode = "relative_growth" /\ p.metrics.value = 0
               THEN Ineligible("zero_baseline")
               ELSE [eligible |-> TRUE, reason |-> "none", from |-> p.id, to |-> c.id,
                     value |->
                       [num |-> Delta(p, c),
                        den |-> IF mode = "relative_growth"
                                THEN Elapsed(p, c) * p.metrics.value
                                ELSE Elapsed(p, c)]]
<1>1. Validation(c.metrics) = "none" /\ Validation(p.metrics) = "none"
      /\ c.metrics.provenance = p.metrics.provenance
  BY CompatibleIsValid
<1> QED
  BY <1>1 DEF PairRecord, ZeroBaseline

(* For a source with two snapshots, growth and ranking judge the same pair; *)
(* without them they say so.                                                *)
LEMMA PairOfSource ==
    ASSUME TypeOK, NEW s, ~ Cardinality(Window(s)) < 2
    PROVE  LET c == First(Window(s))  p == Second(Window(s))
           IN  /\ c \in snapshots /\ p \in snapshots
               /\ c.source = s /\ p.source = s
               /\ c.metrics \in Metrics /\ p.metrics \in Metrics
               /\ \A mode \in Mode \ {"largest"} : Record(s, mode) = PairRecord(c, p, mode)
<1>1. Window(s) \in SUBSET snapshots /\ \A r \in Window(s) : r.source = s
  BY DEF Window, Of
<1>2. First(Window(s)) \in Window(s) /\ Second(Window(s)) \in Window(s)
  BY <1>1, SecondComesSecond
<1>3. \A mode \in Mode \ {"largest"} :
        Record(s, mode) = PairRecord(First(Window(s)), Second(Window(s)), mode)
  BY DEF Record, GrowthRecord
<1> QED
  BY <1>1, <1>2, <1>3, RowMetrics

(* What GrowthAgrees says of one source's answer and its two records.       *)
Agreeing(answer, absolute, relative) ==
    /\ answer.status = "available" <=> absolute.eligible
    /\ absolute.eligible =>
        /\ absolute.value = answer.rate
        /\ absolute.from = answer.from /\ absolute.to = answer.to
        /\ relative.eligible <=> relative.reason # "zero_baseline"
    /\ relative.eligible => relative.to = answer.to /\ relative.from = answer.from
    /\ relative.reason = "zero_baseline" => absolute.eligible
    /\ ~ absolute.eligible => relative = absolute
    /\ answer.reason = "insufficient_history" <=> absolute.reason = "insufficient_history"
    /\ answer.reason = "invalid_interval" <=> absolute.reason = "invalid_time_interval"

(* Its growth agrees with its records, whatever rows the source has.        *)
LEMMA SourceAgrees ==
    ASSUME TypeOK, NEW s
    PROVE  Agreeing(Growth(Window(s)), Record(s, "fastest_growth"), Record(s, "relative_growth"))
<1>1. CASE Cardinality(Window(s)) < 2
  BY <1>1 DEF Agreeing, Growth, NoGrowth, Record, GrowthRecord, Ineligible
<1>2. CASE ~ Cardinality(Window(s)) < 2
  <2> DEFINE c == First(Window(s))
             p == Second(Window(s))
             absolute == PairRecord(c, p, "fastest_growth")
             relative == PairRecord(c, p, "relative_growth")
  <2>1. /\ Record(s, "fastest_growth") = absolute /\ Record(s, "relative_growth") = relative
        /\ c.metrics \in Metrics /\ p.metrics \in Metrics
    BY <1>2, PairOfSource DEF Mode
  <2>2. Growth(Window(s)) =
          IF ~ Compatible(p.metrics, c.metrics) THEN NoGrowth("incompatible_snapshots")
          ELSE IF c.captured_at <= p.captured_at THEN NoGrowth("invalid_interval")
          ELSE [status |-> "available", reason |-> "none", from |-> p.id, to |-> c.id,
                rate |-> [num |-> Delta(p, c), den |-> Elapsed(p, c)]]
    BY <1>2 DEF Growth
  <2> HIDE DEF c, p
  <2>3. CASE ~ Compatible(p.metrics, c.metrics)
    <3>1. PICK reason \in {"missing_total_posts", "invalid_total_posts", "incompatible_unit",
                           "incompatible_provenance"} :
             absolute = Ineligible(reason) /\ relative = Ineligible(reason)
      BY <2>3, IncompatiblePair DEF Mode
    <3>2. Growth(Window(s)) = NoGrowth("incompatible_snapshots")
      BY <2>2, <2>3
    <3> HIDE DEF absolute, relative
    <3>3. Agreeing(NoGrowth("incompatible_snapshots"), Ineligible(reason), Ineligible(reason))
      BY DEF Agreeing, NoGrowth, Ineligible
    <3> QED
      BY <2>1, <3>1, <3>2, <3>3
  <2>4. CASE Compatible(p.metrics, c.metrics) /\ c.captured_at <= p.captured_at
    <3>1. absolute = Ineligible("invalid_time_interval")
          /\ relative = Ineligible("invalid_time_interval")
      BY <2>1, <2>4, LatePair DEF Mode
    <3>2. Growth(Window(s)) = NoGrowth("invalid_interval")
      BY <2>2, <2>4
    <3> HIDE DEF absolute, relative
    <3>3. Agreeing(NoGrowth("invalid_interval"),
                   Ineligible("invalid_time_interval"), Ineligible("invalid_time_interval"))
      BY DEF Agreeing, NoGrowth, Ineligible
    <3> QED
      BY <2>1, <3>1, <3>2, <3>3
  <2>5. CASE Compatible(p.metrics, c.metrics) /\ ~ c.captured_at <= p.captured_at
    <3>1. absolute = [eligible |-> TRUE, reason |-> "none", from |-> p.id, to |-> c.id,
                      value |-> [num |-> Delta(p, c), den |-> Elapsed(p, c)]]
      BY <2>1, <2>5, GoodPair DEF Mode
    <3>2. relative = IF p.metrics.value = 0 THEN Ineligible("zero_baseline")
                     ELSE [eligible |-> TRUE, reason |-> "none", from |-> p.id, to |-> c.id,
                           value |-> [num |-> Delta(p, c),
                                      den |-> Elapsed(p, c) * p.metrics.value]]
      BY <2>1, <2>5, GoodPair DEF Mode
    <3> HIDE DEF absolute, relative
    <3>3. Growth(Window(s)) =
            [status |-> "available", reason |-> "none", from |-> p.id, to |-> c.id,
             rate |-> [num |-> Delta(p, c), den |-> Elapsed(p, c)]]
      BY <2>2, <2>5
    <3>4. CASE p.metrics.value = 0
      BY <2>1, <3>1, <3>2, <3>3, <3>4 DEF Agreeing, Ineligible
    <3>5. CASE p.metrics.value # 0
      BY <2>1, <3>1, <3>2, <3>3, <3>5 DEF Agreeing
    <3> QED
      BY <3>4, <3>5
  <2> QED
    BY <2>3, <2>4, <2>5
<1> QED
  BY <1>1, <1>2

(* GET growth, compare and both growth rankings agree on every source, in   *)
(* every history, defective metrics and ties of captured_at included.       *)
THEOREM GrowthIsOne == Spec => []GrowthAgrees
<1>1. ASSUME TypeOK PROVE GrowthAgrees
  <2>1. SUFFICES ASSUME NEW s \in shown
        PROVE  LET answer == Growth(NewestRows(s, 2))
               IN  /\ \A item \in Compare(shown) : item.booru.source = s => item.growth = answer
                   /\ answer = Stats(s)
                   /\ Agreeing(answer, Record(s, "fastest_growth"), Record(s, "relative_growth"))
    BY DEF GrowthAgrees, Agreeing
  <2>2. Window(s) = NewestRows(s, 2)
    BY <1>1, WindowIsNewest
  <2>3. \A item \in Compare(shown) :
          item.booru.source = s => item.growth = Growth(Window(s))
    BY DEF Compare, Booru
  <2>4. Agreeing(Growth(Window(s)), Record(s, "fastest_growth"), Record(s, "relative_growth"))
    BY <1>1, SourceAgrees
  <2> QED
    BY <2>2, <2>3, <2>4 DEF Stats
<1> QED
  BY <1>1, TypeCorrectness, PTL

------------------------------------------------------------------------------
(* A new growth and the anomaly guard.                                      *)

(* The second row of LIMIT 2 is the second of all.                          *)
LEMMA SecondOfAll ==
    ASSUME TypeOK, NEW s, ~ Cardinality(Window(s)) < 2
    PROVE  LET f == First(Of(s))  g == First(Of(s) \ {f})
           IN  /\ First(Window(s)) = f /\ Second(Window(s)) = g
               /\ f \in Of(s) /\ \A q \in Of(s) \ {f} : After(f, q)
               /\ g \in Of(s) \ {f} /\ \A q \in Of(s) \ {f, g} : After(g, q)
<1> DEFINE f == First(Of(s))
           g == First(Of(s) \ {f})
<1>1. /\ Of(s) \in SUBSET snapshots /\ Window(s) \in SUBSET snapshots
      /\ Window(s) \subseteq Of(s) /\ Window(s) = NewestRows(s, 2)
  BY WindowIsNewest DEF Of, Window
<1>2. /\ First(Window(s)) \in Window(s) /\ Second(Window(s)) \in Window(s)
      /\ First(Window(s)) # Second(Window(s))
  BY <1>1, SecondComesSecond
<1>3. f = First(Window(s))
  <2>1. Of(s) # {} /\ Window(s) # {}
    BY <1>1, <1>2
  <2>2. LatestRow(s) = {f} /\ LatestRow(s) = {First(Window(s))}
    BY <2>1, LatestIsFirst, WindowStartsThere
  <2> QED
    BY <2>2
<1>4. f \in Of(s) /\ \A q \in Of(s) \ {f} : After(f, q)
  BY <1>1, <1>2, FirstComesFirst
<1>5. g \in Of(s) \ {f} /\ \A q \in (Of(s) \ {f}) \ {g} : After(g, q)
  <2>1. Of(s) \ {f} \in SUBSET snapshots /\ Of(s) \ {f} # {}
    BY <1>1, <1>2, <1>3
  <2> QED
    BY <2>1, FirstComesFirst
<1> HIDE DEF f, g
<1>6. \A q \in Of(s) \ {f} : ~ After(q, g)
  BY <1>1, <1>5, AfterOrders
<1>7. g \in Window(s)
  <2>1. {q \in Of(s) : After(q, g)} = {f}
    BY <1>4, <1>5, <1>6
  <2>2. Cardinality({f}) = 1
    BY FS_Singleton
  <2> QED
    BY <1>1, <1>5, <2>1, <2>2 DEF NewestRows
<1>8. First(Window(s) \ {f}) = g
  <2>1. Window(s) \ {f} \in SUBSET snapshots /\ g \in Window(s) \ {f}
    BY <1>1, <1>5, <1>7
  <2>2. \A q \in (Window(s) \ {f}) \ {g} : ~ After(q, g)
    BY <1>1, <1>6
  <2> QED
    BY <2>1, <2>2, FirstIsUnique
<1>9. Second(Window(s)) = g
  BY <1>3, <1>8 DEF Second
<1>10. \A q \in Of(s) \ {f, g} : After(g, q)
  BY <1>5
<1> QED
  BY <1>3, <1>4, <1>5, <1>9, <1>10 DEF f, g

(* Growth that is shown is that of the first two rows of the source.        *)
GrowthShown ==
    \A s \in Source :
        Stats(s).status = "available" =>
            LET f == First(Of(s))  g == First(Of(s) \ {f})
            IN  /\ f \in Of(s) /\ \A q \in Of(s) \ {f} : After(f, q)
                /\ g \in Of(s) \ {f} /\ \A q \in Of(s) \ {f, g} : After(g, q)
                /\ Compatible(g.metrics, f.metrics)
                /\ ~ f.captured_at <= g.captured_at
                /\ Stats(s).rate.num = Delta(g, f)

(* Growth that is offered is no other.                                      *)
LEMMA ShownFromTwoRows ==
    ASSUME TypeOK
    PROVE  GrowthShown
<1>1. SUFFICES ASSUME NEW s \in Source, Stats(s).status = "available"
      PROVE  LET f == First(Of(s))  g == First(Of(s) \ {f})
             IN  /\ f \in Of(s) /\ \A q \in Of(s) \ {f} : After(f, q)
                 /\ g \in Of(s) \ {f} /\ \A q \in Of(s) \ {f, g} : After(g, q)
                 /\ Compatible(g.metrics, f.metrics)
                 /\ ~ f.captured_at <= g.captured_at
                 /\ Stats(s).rate.num = Delta(g, f)
  BY DEF GrowthShown
<1> DEFINE f == First(Of(s))
           g == First(Of(s) \ {f})
<1>2. Stats(s) = Growth(Window(s))
  BY WindowIsNewest DEF Stats
<1>3. ~ Cardinality(Window(s)) < 2
  BY <1>1, <1>2 DEF Growth, NoGrowth
<1>4. /\ First(Window(s)) = f /\ Second(Window(s)) = g
      /\ f \in Of(s) /\ \A q \in Of(s) \ {f} : After(f, q)
      /\ g \in Of(s) \ {f} /\ \A q \in Of(s) \ {f, g} : After(g, q)
  BY <1>3, SecondOfAll
<1> HIDE DEF f, g
<1>5. Growth(Window(s)) =
        IF ~ Compatible(g.metrics, f.metrics) THEN NoGrowth("incompatible_snapshots")
        ELSE IF f.captured_at <= g.captured_at THEN NoGrowth("invalid_interval")
        ELSE [status |-> "available", reason |-> "none", from |-> g.id, to |-> f.id,
              rate |-> [num |-> Delta(g, f), den |-> Elapsed(g, f)]]
  BY <1>3, <1>4 DEF Growth
<1>6. Compatible(g.metrics, f.metrics) /\ ~ f.captured_at <= g.captured_at
  BY <1>1, <1>2, <1>5 DEF NoGrowth
<1>7. Stats(s).rate.num = Delta(g, f)
  BY <1>2, <1>5, <1>6
<1> QED
  BY <1>4, <1>6, <1>7 DEF f, g

(* No snapshot is of the future.                                            *)
Past == \A r \in snapshots : r.captured_at <= now

(* The clock does not go back, and a collector stamps with its reading.     *)
LEMMA PastNext ==
    ASSUME TypeOK, Past, [Next]_vars
    PROVE  Past'
<1>1. \A r \in snapshots : r.captured_at \in Nat
  BY RowKeys
<1>2. now \in Nat
  BY CatalogAssumption DEF TypeOK
<1>3. ASSUME NEW s \in Source, Accept(s) PROVE Past'
  BY <1>2, <1>3 DEF Accept, NewRow, Past
<1>4. ASSUME NEW s \in Source, Switch(s) PROVE Past'
  BY <1>4 DEF Switch, Past
<1>5. CASE Clock
  BY <1>1, <1>2, <1>5 DEF Clock, Past
<1>6. CASE UNCHANGED vars
  BY <1>6 DEF vars, Past
<1> QED
  BY <1>3, <1>4, <1>5, <1>6 DEF Next

(* What an accepted snapshot changes of the growth of its source.           *)
LEMMA PlausibleStep ==
    ASSUME TypeOK, TypeOK', Past, GrowthShown', [Next]_vars,
           NEW s \in Source, Of(s)' # Of(s), Stats(s)'.status = "available"
    PROVE  /\ Of(s) # {}
           /\ ~ Suspicious(First(Of(s)).metrics.value,
                           First(Of(s)).metrics.value + Stats(s)'.rate.num)
<1>1. Accept(s)
  <2>1. ASSUME NEW o \in Source, Accept(o), o # s PROVE FALSE
    BY <2>1 DEF Accept, NewRow, Of
  <2> QED
    BY <2>1 DEF Next, Switch, Clock, vars, Of
<1>2. PICK id \in Ids, total \in Totals :
        /\ \A r \in snapshots : r.id # id
        /\ Plausible(s, total)
        /\ snapshots' = snapshots \cup {NewRow(s, id, total)}
  BY <1>1 DEF Accept
<1> DEFINE n == NewRow(s, id, total)
           f == First(Of(s)')
           g == First(Of(s)' \ {f})
<1>3. /\ n.id = id /\ n.source = s /\ n.captured_at = now
      /\ n.metrics.value = total /\ n.metrics.provenance = Policy[s]
  BY DEF NewRow
<1>4. Of(s)' = Of(s) \cup {n} /\ n \notin Of(s)
  BY <1>2, <1>3 DEF Of
<1>5. /\ f \in Of(s)' /\ \A q \in Of(s)' \ {f} : After(f, q)
      /\ g \in Of(s)' \ {f} /\ \A q \in Of(s)' \ {f, g} : After(g, q)
      /\ Compatible(g.metrics, f.metrics)
      /\ ~ f.captured_at <= g.captured_at
      /\ Stats(s)'.rate.num = Delta(g, f)
  BY DEF GrowthShown
<1>6. now \in Nat /\ \A q \in Of(s) : q.captured_at \in Nat /\ q.captured_at <= now
  BY RowKeys, CatalogAssumption DEF Past, TypeOK, Of
<1> HIDE DEF n, f, g
<1>7. f = n
  <2>1. SUFFICES ASSUME f # n PROVE FALSE
    OBVIOUS
  <2>2. f \in Of(s) /\ f.captured_at <= now
    BY <1>4, <1>5, <1>6, <2>1
  <2>3. g = n \/ After(g, n)
    BY <1>4, <1>5, <2>1
  <2>4. g.captured_at \in Nat /\ f.captured_at \in Nat /\ g.captured_at >= now
    BY <1>3, <1>4, <1>5, <1>6, <2>2, <2>3 DEF After
  <2> QED
    BY <1>5, <1>6, <2>2, <2>4
<1>8. Of(s)' \ {f} = Of(s)
  BY <1>4, <1>7
<1>9. g = First(Of(s)) /\ g \in Of(s) /\ Of(s) # {}
  BY <1>5, <1>8 DEF g
<1>10. LatestRow(s) = {g}
  BY <1>9, LatestIsFirst
<1>11. g.metrics.value \in Nat /\ total \in Nat
  BY <1>3, <1>5, <1>7, CatalogAssumption DEF Compatible
<1>12. g.metrics.value \in Baseline(s, g.metrics)
  BY <1>3, <1>5, <1>7, <1>11 DEF Compatible, Baseline
<1>13. ~ Suspicious(g.metrics.value, total)
  BY <1>2, <1>10, <1>12 DEF Plausible
<1>14. g.metrics.value + Stats(s)'.rate.num = total
  BY <1>3, <1>5, <1>7, <1>11 DEF Delta
<1> QED
  BY <1>9, <1>13, <1>14

(* The rate that a new snapshot gives rise to passed the anomaly guard,     *)
(* whatever the history was to begin with.                                  *)
THEOREM PlausibleGrowth == Spec => NewGrowthIsPlausible
<1>1. Init => Past
  BY DEF Init, Past
<1>2. TypeOK /\ Past /\ [Next]_vars => Past'
  BY PastNext
<1>3. TypeOK => GrowthShown
  BY ShownFromTwoRows
<1>4. TypeOK' => GrowthShown'
  BY <1>3, PTL
<1> DEFINE Guarded(s) ==
        /\ Of(s)' # Of(s)
        /\ Stats(s)'.status = "available"
        => /\ Of(s) # {}
           /\ ~ Suspicious(First(Of(s)).metrics.value, First(Of(s)).metrics.value + Stats(s)'.rate.num)
<1>5. TypeOK /\ TypeOK' /\ Past /\ GrowthShown' /\ [Next]_vars => \A s \in Source : Guarded(s)
  BY PlausibleStep
<1>6. TypeOK /\ TypeOK' /\ Past /\ [Next]_vars => [\A s \in Source : Guarded(s)]_vars
  BY <1>4, <1>5
<1>7. Spec => [][\A s \in Source : Guarded(s)]_vars
  BY <1>1, <1>2, <1>6, TypeCorrectness, PTL DEF Spec
<1> QED
  BY <1>7 DEF NewGrowthIsPlausible

------------------------------------------------------------------------------
(* The collector, as the catalog sees it.                                   *)

(* A row as an observation of History.tla, which knows no ids but the runs':*)
(* a run stores one snapshot per target at most.                            *)
Observation(r) ==
    [run |-> r.id, target |-> r.source, captured_at |-> r.captured_at,
     total_posts |-> r.metrics.value]

(* The abstract specification that Collector.tla implements, of the tables  *)
(* of Catalog.tla.                                                          *)
Promise == INSTANCE History WITH
    Run <- Ids, Target <- Source, Instant <- 0 .. MaxTime, Total <- Totals,
    Operator <- TRUE,
    history <- [s \in Source |-> {Observation(r) : r \in Of(s)}], published <- shown

(* Every row has the metrics that the collector of its source stores.       *)
Collected ==
    \A r \in snapshots :
        /\ r.metrics.kind = "envelope" /\ r.metrics.unit = "posts" /\ r.metrics.rest
        /\ r.metrics.provenance = Policy[r.source] /\ r.metrics.value \in Totals

(* It stores no others.                                                     *)
LEMMA CollectedNext ==
    ASSUME Collected, [Next]_vars
    PROVE  Collected'
<1>1. ASSUME NEW s \in Source, Accept(s) PROVE Collected'
  BY <1>1 DEF Accept, NewRow, Collected
<1>2. ASSUME NEW s \in Source, Switch(s) PROVE Collected'
  BY <1>2 DEF Switch, Collected
<1>3. CASE Clock \/ UNCHANGED vars
  BY <1>3 DEF Clock, vars, Collected
<1> QED
  BY <1>1, <1>2, <1>3 DEF Next

(* What passes the anomaly guard is what the history admits.                *)
LEMMA GuardPromises ==
    ASSUME NEW previous \in Nat, NEW total \in Nat, ~ Suspicious(previous, total)
    PROVE  Promise!Plausible(previous, total)
<1> USE ThresholdAssumption
<1>1. previous * GrowthMultiplier \in Nat
  OBVIOUS
<1> QED
  BY <1>1 DEF Suspicious, CatastrophicDrop, CatastrophicGrowth, Promise!Plausible

(* In tables that only collectors fill, the row the guard looks at always   *)
(* is a baseline, and one of the newest: no total is accepted unjudged.     *)
LEMMA JudgedByNewest ==
    ASSUME TypeOK, Collected, NEW s \in Source, NEW total \in Totals, Plausible(s, total),
           Of(s) # {}
    PROVE  \E o \in Promise!Newest({Observation(r) : r \in Of(s)}) :
               Promise!Plausible(o.total_posts, total)
<1> DEFINE f == First(Of(s))
<1>1. Of(s) \in SUBSET snapshots
  BY DEF Of
<1>2. f \in Of(s) /\ \A q \in Of(s) \ {f} : After(f, q)
  BY <1>1, FirstComesFirst
<1>3. LatestRow(s) = {f}
  BY LatestIsFirst
<1>4. \A r \in Of(s) : r.captured_at \in Nat
  BY <1>1, RowKeys
<1> HIDE DEF f
<1>5. Observation(f) \in Promise!Newest({Observation(r) : r \in Of(s)})
  <2>1. \A q \in Of(s) : q.captured_at <= f.captured_at
    BY <1>2, <1>4 DEF After
  <2> QED
    BY <1>2, <2>1 DEF Promise!Newest, Observation
<1>6. f.metrics.value \in Baseline(s, f.metrics)
  <2>1. f \in snapshots /\ f.source = s
    BY <1>2 DEF Of
  <2> QED
    BY <2>1, CatalogAssumption DEF Collected, Baseline, WellFormed
<1>7. ~ Suspicious(Observation(f).total_posts, total)
  BY <1>3, <1>6 DEF Plausible, Observation
<1>8. Observation(f).total_posts \in Nat /\ total \in Nat
  BY <1>1, <1>2, CatalogAssumption DEF Collected, Observation
<1> QED
  BY <1>5, <1>7, <1>8, GuardPromises

(* A collection, seen from the tables, is one of the promised.              *)
LEMMA AcceptKeepsPromise ==
    ASSUME TypeOK, Collected, NEW s \in Source, Accept(s)
    PROVE  Promise!Next
<1>1. PICK id \in Ids, total \in Totals :
        /\ \A r \in snapshots : r.id # id
        /\ Plausible(s, total)
        /\ snapshots' = snapshots \cup {NewRow(s, id, total)}
        /\ shown' \in {shown, IF Of(s) = {} THEN shown \cup {s} ELSE shown}
        /\ now' = now
  BY DEF Accept
<1> DEFINE H == [o \in Source |-> {Observation(r) : r \in Of(o)}]
           n == NewRow(s, id, total)
<1>2. \A o \in Source : Of(o)' = IF o = s THEN Of(o) \cup {n} ELSE Of(o)
  BY <1>1 DEF Of, NewRow
<1>3. Observation(n) = [run |-> id, target |-> s, captured_at |-> now, total_posts |-> total]
  BY DEF NewRow, Observation
<1>4. H' = [H EXCEPT ![s] = @ \cup {Observation(n)}]
  <2>1. ASSUME NEW o \in Source
        PROVE  H'[o] = IF o = s THEN H[o] \cup {Observation(n)} ELSE H[o]
    BY <1>2
  <2> QED
    BY <2>1
<1>5. \A o \in H[s] : o.run # id
  BY <1>1 DEF Of, Observation
<1>6. H[s] = {} \/ \E o \in Promise!Newest(H[s]) : Promise!Plausible(o.total_posts, total)
  BY <1>1, JudgedByNewest
<1>7. \/ shown' = shown
      \/ H[s] = {} /\ shown' = shown \cup {s}
  BY <1>1
<1>8. Promise!Accept(s, id, now, total)
  BY <1>3, <1>4, <1>5, <1>6, <1>7 DEF Promise!Accept
<1>9. now \in 0 .. MaxTime
  BY DEF TypeOK
<1> QED
  BY <1>1, <1>8, <1>9 DEF Promise!Next

(* In a database that begins empty, what the API reads is a history that    *)
(* Collector.tla promises too: each table row accepted in one step, only if *)
(* plausible against the newest of its source (whatever its ties), and a    *)
(* source shown by nothing but its first row and an operator.  With rows of *)
(* another origin it is not: they may be no baseline.                       *)
THEOREM CollectionsKeepPromise ==
    ASSUME Legacy = {{}}
    PROVE  Spec => Promise!Spec
<1>1. Init => Collected
  BY DEF Init, Collected
<1>2. Collected /\ [Next]_vars => Collected'
  BY CollectedNext
<1>3. Init => Promise!Init
  BY DEF Init, Promise!Init, Of
<1>4. TypeOK /\ Collected /\ [Next]_vars => [Promise!Next]_(Promise!vars)
  <2>1. ASSUME TypeOK, Collected, NEW s \in Source, Accept(s) PROVE Promise!Next
    BY <2>1, AcceptKeepsPromise
  <2>2. ASSUME NEW s \in Source, Switch(s) PROVE Promise!Next
    <3>1. Promise!Switch(s)
      BY <2>2 DEF Switch, Promise!Switch, Of
    <3> QED
      BY <3>1 DEF Promise!Next
  <2>3. ASSUME Clock \/ UNCHANGED vars PROVE UNCHANGED Promise!vars
    BY <2>3 DEF Clock, vars, Promise!vars, Of
  <2> QED
    BY <2>1, <2>2, <2>3 DEF Next
<1> QED
  BY <1>1, <1>2, <1>3, <1>4, TypeCorrectness, PTL DEF Spec, Promise!Spec

------------------------------------------------------------------------------
(* What the anomaly guard lets through.                                     *)

(* The totals that pass are an interval with the previous one in it: a      *)
(* source that stands still is never blocked, and what lies between two     *)
(* totals that pass does.                                                   *)
LEMMA PassingTotals ==
    ASSUME NEW previous \in Nat
    PROVE  /\ ~ Suspicious(previous, previous)
           /\ \A low, mid, high \in Nat :
                  /\ low <= mid /\ mid <= high
                  /\ ~ Suspicious(previous, low) /\ ~ Suspicious(previous, high)
                  => ~ Suspicious(previous, mid)
<1>1. DropMinimum \in Nat \ {0} /\ GrowthMinimum \in Nat \ {0}
  BY ThresholdAssumption
<1>2. ~ Suspicious(previous, previous)
  BY <1>1 DEF Suspicious, CatastrophicDrop, CatastrophicGrowth
<1>3. ASSUME NEW low \in Nat, NEW mid \in Nat, low <= mid, ~ CatastrophicDrop(previous, low)
      PROVE  ~ CatastrophicDrop(previous, mid)
  BY <1>1, <1>3 DEF CatastrophicDrop
<1>4. ASSUME NEW mid \in Nat, NEW high \in Nat, mid <= high, ~ CatastrophicGrowth(previous, high)
      PROVE  ~ CatastrophicGrowth(previous, mid)
  <2>1. previous * GrowthMultiplier \in Int
    BY ThresholdAssumption
  <2> DEFINE top == previous * GrowthMultiplier
  <2>2. \A x \in Nat : CatastrophicGrowth(previous, x) <=> x - previous >= GrowthMinimum /\ x > top
    BY DEF CatastrophicGrowth
  <2> HIDE DEF top
  <2> QED
    BY <1>1, <1>4, <2>1, <2>2 DEF top
<1> QED
  BY <1>2, <1>3, <1>4 DEF Suspicious

(* The collector takes a baseline from the newest row of s, and a total of  *)
(* level is a fall that the guard blocks.                                   *)
Fallen(s, level) ==
    \E r \in LatestRow(s) : \E v \in Baseline(s, r.metrics) :
        level < v /\ Suspicious(v, level)

(* A total that is no higher is blocked too.                                *)
LEMMA FallenBelow ==
    ASSUME NEW s, NEW level \in Nat, NEW total \in Nat, Fallen(s, level), Plausible(s, total)
    PROVE  total > level
<1>1. PICK r \in LatestRow(s) : \E v \in Baseline(s, r.metrics) : level < v /\ Suspicious(v, level)
  BY DEF Fallen
<1>2. PICK v \in Baseline(s, r.metrics) : level < v /\ Suspicious(v, level)
  BY <1>1
<1>3. v \in Nat /\ ~ Suspicious(v, total) /\ ~ Suspicious(v, v)
  BY PassingTotals DEF Baseline, Plausible
<1>4. SUFFICES ASSUME total <= level PROVE FALSE
  OBVIOUS
<1>5. level <= v
  BY <1>2, <1>3
<1> QED
  BY <1>2, <1>3, <1>4, <1>5, PassingTotals

(* A step of s that stays fallen, or rises above the level.                 *)
Blocked(s, level) ==
    Fallen(s, level) =>
        \/ Of(s)' = Of(s) /\ Fallen(s, level)'
        \/ \E r \in Of(s)' \ Of(s) : r.metrics.value > level

(* Each step is one.                                                        *)
LEMMA BlockedStep ==
    ASSUME [Next]_vars, NEW s \in Source, NEW level \in Nat
    PROVE  Blocked(s, level)
<1>1. ASSUME Of(s)' = Of(s), Fallen(s, level) PROVE Fallen(s, level)'
  BY <1>1 DEF Fallen, LatestRow, Baseline, WellFormed, After, Suspicious,
              CatastrophicDrop, CatastrophicGrowth
<1>2. ASSUME NEW o \in Source, Accept(o), o # s PROVE Of(s)' = Of(s)
  BY <1>2 DEF Accept, NewRow, Of
<1>3. ASSUME Accept(s), Fallen(s, level)
      PROVE  \E r \in Of(s)' \ Of(s) : r.metrics.value > level
  <2>1. PICK id \in Ids, total \in Totals :
          /\ \A r \in snapshots : r.id # id
          /\ Plausible(s, total)
          /\ snapshots' = snapshots \cup {NewRow(s, id, total)}
    BY <1>3 DEF Accept
  <2>2. total > level
    BY <1>3, <2>1, FallenBelow, CatalogAssumption
  <2>3. /\ NewRow(s, id, total).id = id /\ NewRow(s, id, total).source = s
        /\ NewRow(s, id, total).metrics.value = total
    BY DEF NewRow
  <2>4. NewRow(s, id, total) \in Of(s)' \ Of(s)
    BY <2>1, <2>3 DEF Of
  <2> QED
    BY <2>2, <2>3, <2>4
<1>4. ASSUME NEW o \in Source, Switch(o) PROVE Of(s)' = Of(s)
  BY <1>4 DEF Switch, Of
<1>5. CASE Clock \/ UNCHANGED vars
  BY <1>1, <1>5 DEF Clock, vars, Of, Blocked
<1> QED
  BY <1>1, <1>2, <1>3, <1>4, <1>5 DEF Next, Blocked

(* A source that really fell so far that the guard blocks it gets no        *)
(* snapshot more until it reports a total above that level: neither time    *)
(* nor attempts nor the operator's switch let it in, because the baseline   *)
(* stays the one from before the fall (quality.py).                         *)
THEOREM BlockedUntilItRises ==
    Spec => [][\A s \in Source, level \in Nat : Blocked(s, level)]_vars
<1>1. [Next]_vars => [\A s \in Source, level \in Nat : Blocked(s, level)]_vars
  BY BlockedStep
<1> QED
  BY <1>1, PTL DEF Spec

------------------------------------------------------------------------------
(* The newest snapshot, read in six ways.                                   *)

(* A source that is shown is on a page as long as the list.                 *)
LEMMA ListedOnFirstPage ==
    ASSUME TypeOK, NEW s \in shown
    PROVE  Booru(s, LatestRow(s)) \in ListBoorus(NoFilter, Cardinality(Source), 0)
<1> DEFINE before == {o \in shown : ByName(o, s)}
           N == Cardinality(Source)
<1>1. s \in Source /\ s \in Nat /\ Name[s] \in Nat
  BY CatalogAssumption DEF TypeOK
<1>2. ~ ByName(s, s)
  BY <1>1 DEF ByName
<1>3. before \in SUBSET (Source \ {s})
  BY <1>2 DEF TypeOK
<1>4. IsFiniteSet(Source) /\ N \in Nat
  BY CatalogAssumption, FS_CardinalityType
<1>5. IsFiniteSet(Source \ {s}) /\ Cardinality(Source \ {s}) = N - 1
  BY <1>1, <1>4, FS_RemoveElement
<1>6. Cardinality(before) \in Nat /\ Cardinality(before) <= N - 1
  BY <1>3, <1>5, FS_Subset, FS_CardinalityType
<1>7. ~ Active(NoFilter)
  BY DEF Active, NoFilter
<1> HIDE DEF N, before
<1>8. Cardinality(before) \in 0 .. 0 + N - 1
  BY <1>4, <1>6
<1> QED
  BY <1>7, <1>8 DEF ListBoorus, before, N

(* The record of a source in the ranking by size is that of its latest row. *)
LEMMA LargestIsLatest ==
    ASSUME TypeOK, NEW s
    PROVE  /\ LatestRow(s) = {} => Record(s, "largest") = Ineligible("missing_total_posts")
           /\ \A r \in LatestRow(s) :
                  /\ LatestRow(s) = {r} /\ r \in snapshots
                  /\ Record(s, "largest") =
                       IF Validation(r.metrics) # "none" THEN Ineligible(Validation(r.metrics))
                       ELSE [eligible |-> TRUE, reason |-> "none", from |-> 0, to |-> r.id,
                             value |-> [num |-> r.metrics.value, den |-> 1]]
<1>1. LatestRow(s) = IF Window(s) = {} THEN {} ELSE {First(Window(s))}
  BY WindowStartsThere
<1>2. LatestRow(s) \subseteq snapshots
  BY DEF LatestRow, Of
<1> QED
  BY <1>1, <1>2 DEF Record, LargestRecord

(* It is eligible exactly if the projection of that row has a total.        *)
LEMMA EligibleIsProjected ==
    ASSUME TypeOK, NEW s \in Source, NEW r \in LatestRow(s)
    PROVE  LET largest == Record(s, "largest")
           IN  /\ largest.eligible <=> Validation(r.metrics) = "none"
               /\ Project(r).total_posts # -1 <=> largest.eligible
               /\ largest.eligible => largest.to = Project(r).id
                                      /\ largest.value.num = Project(r).total_posts
               /\ WellFormed(r.metrics) /\ r.metrics.provenance = Policy[s]
                  => (largest.eligible <=> Baseline(s, r.metrics) # {})
<1> DEFINE m == r.metrics
<1>1. m \in Metrics /\ LatestRow(s) = {r}
  BY LargestIsLatest, RowMetrics
<1>2. Record(s, "largest") =
        IF Validation(m) # "none" THEN Ineligible(Validation(m))
        ELSE [eligible |-> TRUE, reason |-> "none", from |-> 0, to |-> r.id,
              value |-> [num |-> m.value, den |-> 1]]
  BY LargestIsLatest
<1>3. Validation(m) = "none" =>
        m.kind = "envelope" /\ m.unit = "posts" /\ m.value \in Nat /\ m.provenance \in Provenance
  BY <1>1 DEF Validation, Metrics
<1>4. WellFormed(m) /\ m.provenance = Policy[s]
      => (Validation(m) = "none" <=> Baseline(s, m) # {})
  <2>1. Policy[s] \in Provenance
    BY CatalogAssumption
  <2> QED
    BY <1>1, <1>3, <2>1 DEF WellFormed, Validation, Baseline, Metrics
<1> HIDE DEF m
<1>5. Project(r).id = r.id
      /\ Project(r).total_posts = IF Validation(m) = "none" THEN m.value ELSE -1
  BY DEF Project, m
<1>6. CASE Validation(m) = "none"
  <2>1. m.value \in Nat
    BY <1>3, <1>6
  <2>2. m.value # -1
    BY <2>1
  <2> QED
    BY <1>2, <1>4, <1>5, <1>6, <2>2 DEF m
<1>7. CASE Validation(m) # "none"
  <2>1. ~ Record(s, "largest").eligible
    BY <1>2, <1>7 DEF Ineligible
  <2> QED
    BY <1>4, <1>5, <1>7, <2>1 DEF m
<1> QED
  BY <1>6, <1>7

(* Growth ends at the latest row.                                           *)
LEMMA GrowthEndsAtLatest ==
    ASSUME TypeOK, NEW s, Stats(s).status = "available"
    PROVE  \E r \in LatestRow(s) : Stats(s).to = r.id
<1>1. Stats(s) = Growth(Window(s))
  BY WindowIsNewest DEF Stats
<1>2. ~ Cardinality(Window(s)) < 2
  BY <1>1 DEF Growth, NoGrowth
<1>3. Window(s) # {}
  BY <1>2, PairOfSource, FS_EmptySet
<1>4. LatestRow(s) = {First(Window(s))}
  BY <1>3, WindowStartsThere
<1>5. Growth(Window(s)).to = First(Window(s)).id
  BY <1>1, <1>2 DEF Growth, NoGrowth
<1> QED
  BY <1>1, <1>4, <1>5

(* Detail, list, history, comparison, ranking and stats read one snapshot,  *)
(* and the collector takes the same for its baseline.                       *)
THEOREM NewestIsOne == Spec => []ReadsAgree
<1>1. ASSUME TypeOK PROVE ReadsAgree
  <2> DEFINE booru(s) == Booru(s, LatestRow(s))
             largest(s) == Record(s, "largest")
  <2>1. SUFFICES ASSUME NEW s \in shown
        PROVE  /\ ListBoorus(NoFilter, Cardinality(Source), 0) \cap GetBooru(s) = {booru(s)}
               /\ ListSnapshots(s, 1) = {booru(s).latest}
               /\ \A item \in Compare(shown) : item.booru.source = s => item.booru = booru(s)
               /\ \A r \in booru(s).latest : r.total_posts # -1 <=> largest(s).eligible
               /\ largest(s).eligible =>
                   \E r \in booru(s).latest :
                       largest(s).to = r.id /\ largest(s).value.num = r.total_posts
               /\ Stats(s).status = "available" =>
                   \E r \in booru(s).latest : Stats(s).to = r.id
               /\ \A r \in LatestRow(s) :
                   WellFormed(r.metrics) /\ r.metrics.provenance = Policy[s]
                   => (largest(s).eligible <=> Baseline(s, r.metrics) # {})
    BY DEF ReadsAgree
  <2>2. s \in Source /\ booru(s).latest = {Project(r) : r \in LatestRow(s)}
    BY <1>1 DEF TypeOK, Booru
  <2>3. ListBoorus(NoFilter, Cardinality(Source), 0) \cap GetBooru(s) = {booru(s)}
    <3>1. GetBooru(s) = {booru(s)}
      BY DEF GetBooru
    <3> QED
      BY <1>1, <3>1, ListedOnFirstPage
  <2>4. ListSnapshots(s, 1) = {booru(s).latest}
    BY <1>1, <2>2, LatestIsNewest DEF ListSnapshots
  <2>5. \A item \in Compare(shown) : item.booru.source = s => item.booru = booru(s)
    BY <1>1, WindowStartsThere DEF Compare, Booru
  <2>6. \A r \in booru(s).latest : r.total_posts # -1 <=> largest(s).eligible
    BY <1>1, <2>2, EligibleIsProjected
  <2>7. largest(s).eligible =>
          \E r \in booru(s).latest :
              largest(s).to = r.id /\ largest(s).value.num = r.total_posts
    <3>1. largest(s).eligible => LatestRow(s) # {}
      BY <1>1, LargestIsLatest DEF Ineligible
    <3> QED
      BY <1>1, <2>2, <3>1, EligibleIsProjected
  <2>8. Stats(s).status = "available" => \E r \in booru(s).latest : Stats(s).to = r.id
    <3>1. \A r \in LatestRow(s) : Project(r).id = r.id
      BY DEF Project
    <3> QED
      BY <1>1, <2>2, <3>1, GrowthEndsAtLatest
  <2>9. \A r \in LatestRow(s) :
          WellFormed(r.metrics) /\ r.metrics.provenance = Policy[s]
          => (largest(s).eligible <=> Baseline(s, r.metrics) # {})
    BY <1>1, <2>2, EligibleIsProjected
  <2> QED
    BY <2>3, <2>4, <2>5, <2>6, <2>7, <2>8, <2>9
<1> QED
  BY <1>1, TypeCorrectness, PTL

------------------------------------------------------------------------------
(* The response models.                                                     *)

(* What growth and the growth rankings make of a pair.                      *)
LEMMA PairNumbers ==
    ASSUME TypeOK, NEW c \in snapshots, NEW p \in snapshots,
           Compatible(p.metrics, c.metrics), ~ c.captured_at <= p.captured_at
    PROVE  /\ Delta(p, c) \in Int /\ Elapsed(p, c) \in Nat \ {0}
           /\ p.metrics.value # 0 => Elapsed(p, c) * p.metrics.value \in Nat \ {0}
<1>1. p.metrics.value \in Nat /\ c.metrics.value \in Nat
  BY DEF Compatible
<1>2. c.captured_at \in Nat /\ p.captured_at \in Nat
  BY RowKeys
<1>3. Delta(p, c) \in Int
  BY <1>1 DEF Delta
<1>4. Elapsed(p, c) \in Nat \ {0}
  BY <1>2 DEF Elapsed
<1>5. \A e, v \in Nat \ {0} : e * v \in Nat \ {0}
  OBVIOUS
<1> QED
  BY <1>1, <1>3, <1>4, <1>5

(* GET growth always answers one of its two models.                         *)
LEMMA GrowthType ==
    ASSUME TypeOK, NEW s
    PROVE  Growth(Window(s)) \in GrowthAvailableResponse \cup GrowthUnavailableResponse
<1>1. \A reason \in {"insufficient_history", "incompatible_snapshots", "invalid_interval"} :
        NoGrowth(reason) \in GrowthUnavailableResponse
  BY DEF NoGrowth, GrowthUnavailableResponse, Rate
<1>2. CASE Cardinality(Window(s)) < 2
  BY <1>1, <1>2 DEF Growth
<1>3. CASE ~ Cardinality(Window(s)) < 2
  <2> DEFINE c == First(Window(s))
             p == Second(Window(s))
  <2>1. c \in snapshots /\ p \in snapshots
    BY <1>3, PairOfSource
  <2>2. Growth(Window(s)) =
          IF ~ Compatible(p.metrics, c.metrics) THEN NoGrowth("incompatible_snapshots")
          ELSE IF c.captured_at <= p.captured_at THEN NoGrowth("invalid_interval")
          ELSE [status |-> "available", reason |-> "none", from |-> p.id, to |-> c.id,
                rate |-> [num |-> Delta(p, c), den |-> Elapsed(p, c)]]
    BY <1>3 DEF Growth
  <2> HIDE DEF c, p
  <2>3. CASE Compatible(p.metrics, c.metrics) /\ ~ c.captured_at <= p.captured_at
    <3>1. p.id \in Ids /\ c.id \in Ids
      BY <2>1, RowMetrics
    <3>2. Delta(p, c) \in Int /\ Elapsed(p, c) \in Nat \ {0}
      BY <2>1, <2>3, PairNumbers
    <3>3. Growth(Window(s)) =
            [status |-> "available", reason |-> "none", from |-> p.id, to |-> c.id,
             rate |-> [num |-> Delta(p, c), den |-> Elapsed(p, c)]]
      BY <2>2, <2>3
    <3> QED
      BY <3>1, <3>2, <3>3 DEF GrowthAvailableResponse, Rate
  <2>4. CASE ~ Compatible(p.metrics, c.metrics) \/ c.captured_at <= p.captured_at
    <3>1. Growth(Window(s)) \in {NoGrowth("incompatible_snapshots"), NoGrowth("invalid_interval")}
      BY <2>2, <2>4
    <3> QED
      BY <1>1, <3>1
  <2> QED
    BY <2>3, <2>4
<1> QED
  BY <1>2, <1>3

(* The records a ranking may hold.                                          *)
RecordType(mode) ==
    RankingIneligible \cup
    IF mode = "largest"
    THEN RankingEligible([num : Nat, den : {1}], {0})
    ELSE RankingEligible(Rate, Ids)

(* A record without a value has the type of the unranked.                   *)
LEMMA IneligibleType ==
    ASSUME NEW reason \in DOMAIN ReasonPlace \ {"none"}
    PROVE  Ineligible(reason) \in RankingIneligible
<1>1. [num |-> 0, den |-> 1] \in Rate
  BY DEF Rate
<1> QED
  BY <1>1 DEF Ineligible, RankingIneligible

(* A record with one has the type of the ranked.                            *)
LEMMA EligibleType ==
    ASSUME NEW values, NEW previous,
           NEW value \in values, NEW from \in previous, NEW to \in Ids
    PROVE  [eligible |-> TRUE, reason |-> "none", from |-> from, to |-> to, value |-> value]
             \in RankingEligible(values, previous)
BY DEF RankingEligible

(* Every ranking gives a source a record of its response model.             *)
LEMMA RecordIsTyped ==
    ASSUME TypeOK, NEW s, NEW mode \in Mode
    PROVE  Record(s, mode) \in RecordType(mode)
<1>1. {"missing_total_posts", "invalid_total_posts", "incompatible_unit", "zero_baseline",
       "incompatible_provenance", "invalid_time_interval", "insufficient_history"}
        \subseteq DOMAIN ReasonPlace \ {"none"}
  BY DEF ReasonPlace
<1>2. \A r \in snapshots :
        Validation(r.metrics) # "none" => Ineligible(Validation(r.metrics)) \in RankingIneligible
  BY <1>1, ValidationReasons, IneligibleType
<1>3. CASE mode = "largest"
  <2>1. CASE LatestRow(s) = {}
    BY <1>1, <1>3, <2>1, LargestIsLatest, IneligibleType DEF RecordType
  <2>2. ASSUME NEW r \in LatestRow(s) PROVE Record(s, "largest") \in RecordType("largest")
    <3>1. r \in snapshots
      BY LargestIsLatest
    <3>2. CASE Validation(r.metrics) # "none"
      BY <1>2, <3>1, <3>2, LargestIsLatest DEF RecordType
    <3>3. CASE Validation(r.metrics) = "none"
      <4>1. r.metrics.value \in Nat /\ r.id \in Ids
        BY <3>1, <3>3, RowMetrics DEF Validation
      <4>2. Record(s, "largest") =
              [eligible |-> TRUE, reason |-> "none", from |-> 0, to |-> r.id,
               value |-> [num |-> r.metrics.value, den |-> 1]]
        BY <3>3, LargestIsLatest
      <4>3. Record(s, "largest") \in RankingEligible([num : Nat, den : {1}], {0})
        <5> DEFINE Values == [num : Nat, den : {1}]
                   value == [num |-> r.metrics.value, den |-> 1]
        <5>1. value \in Values
          BY <4>1
        <5>2. Record(s, "largest") =
                [eligible |-> TRUE, reason |-> "none", from |-> 0, to |-> r.id, value |-> value]
          BY <4>2
        <5> HIDE DEF Values, value
        <5>3. Record(s, "largest") \in RankingEligible(Values, {0})
          BY <4>1, <5>1, <5>2, EligibleType
        <5> QED
          BY <5>3 DEF Values
      <4> QED
        BY <4>3 DEF RecordType
    <3> QED
      BY <3>2, <3>3
  <2> QED
    BY <1>3, <2>1, <2>2
<1>4. CASE mode # "largest" /\ Cardinality(Window(s)) < 2
  <2>1. Record(s, mode) = Ineligible("insufficient_history")
    BY <1>4 DEF Record, GrowthRecord
  <2> QED
    BY <1>1, <2>1, IneligibleType DEF RecordType
<1>5. CASE mode # "largest" /\ ~ Cardinality(Window(s)) < 2
  <2> DEFINE c == First(Window(s))
             p == Second(Window(s))
  <2>1. /\ c \in snapshots /\ p \in snapshots
        /\ c.metrics \in Metrics /\ p.metrics \in Metrics
        /\ Record(s, mode) = PairRecord(c, p, mode)
    BY <1>5, PairOfSource
  <2> HIDE DEF c, p
  <2>2. CASE ~ Compatible(p.metrics, c.metrics)
    <3>1. PICK reason \in {"missing_total_posts", "invalid_total_posts", "incompatible_unit",
                           "incompatible_provenance"} :
             PairRecord(c, p, mode) = Ineligible(reason)
      BY <2>2, IncompatiblePair
    <3> QED
      BY <1>1, <2>1, <3>1, IneligibleType DEF RecordType
  <2>3. CASE Compatible(p.metrics, c.metrics) /\ c.captured_at <= p.captured_at
    <3>1. PairRecord(c, p, mode) = Ineligible("invalid_time_interval")
      BY <2>1, <2>3, LatePair
    <3> QED
      BY <1>1, <2>1, <3>1, IneligibleType DEF RecordType
  <2>4. CASE Compatible(p.metrics, c.metrics) /\ ~ c.captured_at <= p.captured_at
    <3>1. CASE mode = "relative_growth" /\ p.metrics.value = 0
      <4>1. PairRecord(c, p, mode) = Ineligible("zero_baseline")
        BY <2>1, <2>4, <3>1, GoodPair
      <4> QED
        BY <1>1, <2>1, <4>1, IneligibleType DEF RecordType
    <3>2. CASE ~ (mode = "relative_growth" /\ p.metrics.value = 0)
      <4> DEFINE den == IF mode = "relative_growth"
                        THEN Elapsed(p, c) * p.metrics.value ELSE Elapsed(p, c)
      <4>1. PairRecord(c, p, mode) =
              [eligible |-> TRUE, reason |-> "none", from |-> p.id, to |-> c.id,
               value |-> [num |-> Delta(p, c), den |-> den]]
        BY <2>1, <2>4, <3>2, GoodPair
      <4>2. Delta(p, c) \in Int /\ den \in Nat \ {0}
        BY <2>1, <2>4, <3>2, PairNumbers
      <4>3. p.id \in Ids /\ c.id \in Ids
        BY <2>1, RowMetrics
      <4> HIDE DEF den
      <4> QED
        BY <1>5, <2>1, <4>1, <4>2, <4>3 DEF RecordType, RankingEligible, Rate
    <3> QED
      BY <3>1, <3>2
  <2> QED
    BY <2>2, <2>3, <2>4
<1> QED
  BY <1>3, <1>4, <1>5

(* A source is eligible exactly if its record is of the first kind.         *)
LEMMA RecordKinds ==
    ASSUME NEW mode, NEW x \in RecordType(mode)
    PROVE  /\ x.eligible \in BOOLEAN /\ x.reason \in DOMAIN ReasonPlace
           /\ x.value.num \in Int /\ x.value.den \in Nat \ {0}
<1>1. "none" \in DOMAIN ReasonPlace
  BY DEF ReasonPlace
<1>2. ASSUME NEW values, NEW previous, x \in RankingEligible(values, previous)
      PROVE  x.eligible \in BOOLEAN /\ x.reason \in DOMAIN ReasonPlace /\ x.value \in values
  BY <1>1, <1>2 DEF RankingEligible
<1>3. CASE x \in RankingIneligible
  BY <1>3 DEF RankingIneligible, Rate
<1>4. CASE x \in RankingEligible([num : Nat, den : {1}], {0})
  <2>1. x.value \in [num : Nat, den : {1}]
    BY <1>2, <1>4
  <2> QED
    BY <1>2, <1>4, <2>1
<1>5. CASE x \in RankingEligible(Rate, Ids)
  <2>1. x.value \in Rate
    BY <1>2, <1>5
  <2> QED
    BY <1>2, <1>5, <2>1 DEF Rate
<1> QED
  BY <1>3, <1>4, <1>5 DEF RecordType

(* No answer of the API fails its response model.                           *)
THEOREM AnswersAreValid == Spec => []AnswersValidate
<1>1. ASSUME TypeOK PROVE AnswersValidate
  <2>1. shown \subseteq Source /\ IsFiniteSet(Source)
    BY <1>1, CatalogAssumption DEF TypeOK
  <2>2. ListBoorus(NoFilter, Cardinality(Source), 0) \subseteq BooruResponse
    <3>1. \A r \in snapshots : Project(r) \in SnapshotResponse
      <4>1. SUFFICES ASSUME NEW r \in snapshots PROVE Project(r) \in SnapshotResponse
        OBVIOUS
      <4>2. r.id \in Ids /\ r.captured_at \in 0 .. MaxTime /\ r.metrics \in Metrics
        BY <1>1, RowMetrics
      <4>3. Validation(r.metrics) = "none" => r.metrics.value \in Nat
        BY DEF Validation
      <4> QED
        BY <4>2, <4>3 DEF Project, SnapshotResponse
    <3>2. \A s \in Source : Booru(s, LatestRow(s)) \in BooruResponse
      BY <3>1 DEF Booru, BooruResponse, LatestRow, Of
    <3>3. ListBoorus(NoFilter, Cardinality(Source), 0) \subseteq {Booru(s, LatestRow(s)) : s \in shown}
      BY DEF ListBoorus, Active, NoFilter
    <3> QED
      BY <2>1, <3>2, <3>3
  <2>3. \A s \in shown : GetGrowth(s) \subseteq GrowthAvailableResponse \cup GrowthUnavailableResponse
    BY <1>1, GrowthType, WindowIsNewest DEF GetGrowth
  <2>4. ASSUME NEW mode \in Mode
        PROVE  LET answer == Ranking(mode, NoFilter, Cardinality(Source), 0)
               IN  /\ answer \in RankingResponse(mode)
                   /\ \A i \in answer.items : i.rank # 0 <=> i.record.eligible
    <3> DEFINE record == Records(mode)
               answer == Ranking(mode, NoFilter, Cardinality(Source), 0)
               Item == [source : Source, rank : Nat, index : Nat, record : RecordType(mode)]
    <3>1. \A rows \in SUBSET shown : Cardinality(rows) \in Nat
      BY <2>1, FS_Subset, FS_CardinalityType
    <3>2. Eligible(record) \subseteq shown /\ Matching(NoFilter) \subseteq shown
      BY DEF Eligible, Records, Matching
    <3>3. answer.total \in Nat /\ answer.eligible_count \in Nat
      BY <3>1, <3>2 DEF Ranking
    <3>4. ASSUME NEW s \in shown
          PROVE  /\ record[s] \in RecordType(mode)
                 /\ Rank(record, NoFilter, s) \in Nat /\ Index(record, NoFilter, s) \in Nat
                 /\ Rank(record, NoFilter, s) # 0 <=> record[s].eligible
      <4>1. record[s] \in RecordType(mode)
        BY <1>1, RecordIsTyped DEF Records
      <4>2. {o \in Eligible(record) : Ahead(record, o, s)} \in SUBSET shown
            /\ {o \in Matching(NoFilter) : Ahead(record, o, s)} \in SUBSET shown
        BY <3>2
      <4> HIDE DEF record
      <4>3. Cardinality({o \in Eligible(record) : Ahead(record, o, s)}) \in Nat
            /\ Index(record, NoFilter, s) \in Nat
        BY <3>1, <4>2 DEF Index
      <4> QED
        BY <4>1, <4>3 DEF Rank
    <3>5. \A i \in answer.items : \E s \in shown :
            i = [source |-> s, rank |-> Rank(record, NoFilter, s),
                 index |-> Index(record, NoFilter, s), record |-> record[s]]
      BY <3>2 DEF Ranking
    <3> HIDE DEF record
    <3>6. \A i \in answer.items : i \in Item /\ (i.rank # 0 <=> i.record.eligible)
      BY <2>1, <3>4, <3>5
    <3>7. answer = [total |-> answer.total, eligible_count |-> answer.eligible_count,
                    items |-> answer.items]
      BY DEF Ranking
    <3>8. RankingResponse(mode) = [total : Nat, eligible_count : Nat, items : SUBSET Item]
      BY DEF RankingResponse, RecordType
    <3> HIDE DEF answer, Item
    <3>9. answer \in RankingResponse(mode)
      BY <3>3, <3>6, <3>7, <3>8
    <3> QED
      BY <3>6, <3>9 DEF answer
  <2> QED
    BY <2>2, <2>3, <2>4 DEF AnswersValidate
<1> QED
  BY <1>1, TypeCorrectness, PTL

==============================================================================
