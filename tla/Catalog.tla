------------------------------- MODULE Catalog -------------------------------
(****************************************************************************)
(* What the public API and the stats command answer from the tables that    *)
(* the collector fills.  Sources: services/catalog.py, services/            *)
(* analytics.py, discovery.py (CatalogFilters), stats.py and                *)
(* apps/api/routes/boorus.py.                                               *)
(*                                                                          *)
(* Every request is one SQL statement and Python over its rows, so that an  *)
(* answer is a function of one state of the tables: the reads are           *)
(* operators, one per query, and the actions are what changes the tables.   *)
(* A read of nothing (HTTP 404) is the empty set.                           *)
(*                                                                          *)
(* A source is named by its id, whose order breaks ties.  Rates are exact   *)
(* fractions without their constant factors (24 hours, 100 percent), where  *)
(* the code computes with floats.                                           *)
(****************************************************************************)
EXTENDS Quality, FiniteSets

CONSTANTS
    Source,         \* the rows of boorus, by id
    Name,           \* Name[s]: lower(name), as its place in the alphabet
    Rating,         \* Rating[s]: content_rating, or "none" if unclassified
    Categories,     \* Categories[s]: the categories of its classification
    Policy,         \* Policy[s]: the provenance its collector stores
    Totals,         \* the totals a source may report
    Ids,            \* the ids of snapshots
    MaxTime,        \* bound on the clock
    Legacy,         \* the tables there may be to begin with
    Filters,        \* the filters the properties are checked with
    PageLimit       \* and the size of a page

Provenance == {"observed", "estimated", "owner_verified"}

ASSUME CatalogAssumption ==
    /\ IsFiniteSet(Source) /\ Source \subseteq Nat
    /\ Name \in [Source -> Nat]
    /\ Rating \in [Source -> {"safe", "nsfw", "none"}]
    /\ DOMAIN Categories = Source
    /\ Policy \in [Source -> Provenance]
    /\ Totals \subseteq Nat
    /\ IsFiniteSet(Ids) /\ Ids \subseteq Nat \ {0}
    /\ MaxTime \in Nat
    /\ PageLimit \in Nat \ {0}

(* A metrics column as the readers tell them apart.  `kind`: total_posts is *)
(* not there, it or the column is no object, or it is an envelope; -1 is    *)
(* any value that is no count; `rest`: the other entries are envelopes.     *)
Metrics ==
    [kind : {"missing", "malformed", "envelope"}, unit : {"posts", "other"},
     value : Nat \cup {-1}, provenance : Provenance \cup {"unknown"},
     rest : BOOLEAN]

Row == [id : Ids, source : Source, captured_at : 0 .. MaxTime, metrics : Metrics]

ASSUME LegacyAssumption ==
    \A table \in Legacy :
        /\ table \subseteq Row
        /\ \A r, q \in table : r.id = q.id => r = q

VARIABLES
    shown,          \* the sources whose is_enabled is TRUE
    snapshots,      \* the rows of booru_snapshots
    now

vars == <<shown, snapshots, now>>

Init ==
    /\ shown \in SUBSET Source
    /\ snapshots \in Legacy
    /\ now \in {t \in 0 .. MaxTime : \A r \in snapshots : r.captured_at <= t}

------------------------------------------------------------------------------
(* The order of history and the three queries that read its newest rows.    *)

Of(s) == {r \in snapshots : r.source = s}

(* ORDER BY captured_at DESC, id DESC: r comes before q in a result.        *)
After(r, q) ==
    \/ r.captured_at > q.captured_at
    \/ r.captured_at = q.captured_at /\ r.id > q.id

(* Faulty variant of LatestRow: the order lacks its second key.             *)
LatestByTime(s) ==
    {r \in Of(s) : ~ \E q \in Of(s) : q.captured_at > r.captured_at}

(* _latest_snapshot_id: the scalar subquery with LIMIT 1.                   *)
LatestRow(s) == {r \in Of(s) : ~ \E q \in Of(s) : After(q, r)}

(* _load_snapshots of one source: ORDER BY ... LIMIT.                       *)
NewestRows(s, limit) ==
    {r \in Of(s) : Cardinality({q \in Of(s) : After(q, r)}) < limit}

(* row_number() OVER (PARTITION BY booru_id ORDER BY ...).                  *)
SnapshotRank(r) == 1 + Cardinality({q \in snapshots : q.source = r.source /\ After(q, r)})

(* The join of compare and _load_ranking_history.                           *)
Window(s) == {r \in Of(s) : SnapshotRank(r) <= 2}

(* snapshots[0] and, of more than one, snapshots[1].                        *)
First(rows) == CHOOSE r \in rows : \A q \in rows \ {r} : After(r, q)
Second(rows) == First(rows \ {First(rows)})

------------------------------------------------------------------------------
(* What a metrics column says: catalog's validation and the analytics' own. *)

(* _validate_total_posts: "none", or why there is no total.                 *)
Validation(m) ==
    IF m.kind = "missing" THEN "missing_total_posts"
    ELSE IF m.kind = "malformed" THEN "invalid_total_posts"
    ELSE IF m.unit # "posts" THEN "incompatible_unit"
    ELSE IF m.value \notin Nat \/ m.provenance \notin Provenance
         THEN "invalid_total_posts"
    ELSE "none"

(* _project_snapshot: -1 stands for no total.                               *)
Project(r) ==
    [id |-> r.id, captured_at |-> r.captured_at,
     total_posts |-> IF Validation(r.metrics) = "none" THEN r.metrics.value ELSE -1]

(* MetricMap.model_validate accepts the column.                             *)
WellFormed(m) ==
    /\ m.rest
    /\ m.kind # "malformed"
    /\ m.kind = "envelope" => m.provenance \in Provenance

(* Faulty variant of Compatible: the units are not looked at.               *)
CompatibleWithoutUnit(m, n) ==
    /\ WellFormed(m) /\ WellFormed(n)
    /\ m.kind = "envelope" /\ n.kind = "envelope"
    /\ m.provenance = n.provenance
    /\ m.value \in Nat /\ n.value \in Nat

(* calculate_growth_metrics up to its interval.                             *)
Compatible(m, n) ==
    /\ WellFormed(m) /\ WellFormed(n)
    /\ m.kind = "envelope" /\ n.kind = "envelope"
    /\ m.provenance = n.provenance
    /\ m.unit = "posts" /\ n.unit = "posts"
    /\ m.value \in Nat /\ n.value \in Nat

(* previous_total_posts of quality.py: the collector's baseline, if any.    *)
Baseline(s, m) ==
    {v \in {m.value} :
        /\ WellFormed(m)
        /\ m.kind = "envelope" /\ v \in Nat
        /\ m.provenance = Policy[s] /\ m.unit = "posts"}

Delta(previous, current) == current.metrics.value - previous.metrics.value
Elapsed(previous, current) == current.captured_at - previous.captured_at

------------------------------------------------------------------------------
(* Growth of one source, from the rows a query loaded.                      *)

NoGrowth(reason) ==
    [status |-> "unavailable", reason |-> reason, from |-> 0, to |-> 0,
     rate |-> [num |-> 0, den |-> 1]]

(* _calculate_growth.                                                       *)
Growth(rows) ==
    IF Cardinality(rows) < 2 THEN NoGrowth("insufficient_history")
    ELSE LET current == First(rows)
             previous == Second(rows)
         IN  IF ~ Compatible(previous.metrics, current.metrics)
             THEN NoGrowth("incompatible_snapshots")
             ELSE IF current.captured_at <= previous.captured_at
             THEN NoGrowth("invalid_interval")
             ELSE [status |-> "available", reason |-> "none",
                   from |-> previous.id, to |-> current.id,
                   rate |-> [num |-> Delta(previous, current),
                             den |-> Elapsed(previous, current)]]

------------------------------------------------------------------------------
(* The filters (CatalogFilters).  `text` is given by where it occurs: in    *)
(* the names or hosts of these sources; a blank text occurs everywhere.     *)

Filter ==
    [text : SUBSET Source, rating : {"any", "safe", "nsfw"},
     include : SUBSET UNION {Categories[s] : s \in Source},
     exclude : SUBSET UNION {Categories[s] : s \in Source},
     match : {"all", "any"}]

(* CatalogFilters().                                                        *)
NoFilter ==
    [text |-> Source, rating |-> "any", include |-> {}, exclude |-> {}, match |-> "all"]

Active(f) == f.text # Source \/ f.rating # "any" \/ f.include # {} \/ f.exclude # {}

Matches(f, s) ==
    /\ s \in f.text
    /\ f.rating \in {"any", Rating[s]}
    /\ Categories[s] \cap f.exclude = {}
    /\ f.include # {} =>
        IF f.match = "all" THEN f.include \subseteq Categories[s]
                           ELSE f.include \cap Categories[s] # {}

------------------------------------------------------------------------------
(* The ranking.                                                             *)

Mode == {"largest", "fastest_growth", "relative_growth"}

(* The reasons in alphabetical order.                                       *)
ReasonPlace ==
    [none |-> 0, incompatible_provenance |-> 1, incompatible_unit |-> 2,
     insufficient_history |-> 3, invalid_time_interval |-> 4,
     invalid_total_posts |-> 5, missing_total_posts |-> 6, zero_baseline |-> 7]

Ineligible(reason) ==
    [eligible |-> FALSE, reason |-> reason, from |-> 0, to |-> 0,
     value |-> [num |-> 0, den |-> 1]]

(* _largest_ranking_record.                                                 *)
LargestRecord(s) ==
    IF Window(s) = {} THEN Ineligible("missing_total_posts")
    ELSE LET latest == First(Window(s))
         IN  IF Validation(latest.metrics) # "none"
             THEN Ineligible(Validation(latest.metrics))
             ELSE [eligible |-> TRUE, reason |-> "none", from |-> 0, to |-> latest.id,
                   value |-> [num |-> latest.metrics.value, den |-> 1]]

(* Faulty variant of ZeroBaseline: any total will do to divide by.          *)
NeverZero(previous) == FALSE

(* calculate_relative_growth_percent_per_day refuses.                       *)
ZeroBaseline(previous) == previous.metrics.value = 0

(* _growth_ranking_record, of a current and a previous row.                 *)
PairRecord(current, previous, mode) ==
    IF Validation(current.metrics) # "none" THEN Ineligible(Validation(current.metrics))
    ELSE IF Validation(previous.metrics) # "none" THEN Ineligible(Validation(previous.metrics))
    ELSE IF current.metrics.provenance # previous.metrics.provenance
         THEN Ineligible("incompatible_provenance")
    ELSE IF ~ Compatible(previous.metrics, current.metrics)
         THEN Ineligible("invalid_total_posts")
    ELSE IF current.captured_at <= previous.captured_at
         THEN Ineligible("invalid_time_interval")
    ELSE IF mode = "relative_growth" /\ ZeroBaseline(previous)
         THEN Ineligible("zero_baseline")
    ELSE [eligible |-> TRUE, reason |-> "none", from |-> previous.id, to |-> current.id,
          value |->
            [num |-> Delta(previous, current),
             den |-> IF mode = "relative_growth"
                     THEN Elapsed(previous, current) * previous.metrics.value
                     ELSE Elapsed(previous, current)]]

GrowthRecord(s, mode) ==
    IF Cardinality(Window(s)) < 2 THEN Ineligible("insufficient_history")
    ELSE PairRecord(First(Window(s)), Second(Window(s)), mode)

Record(s, mode) == IF mode = "largest" THEN LargestRecord(s) ELSE GrowthRecord(s, mode)

(* The first loop of rank_boorus: a record for each source that is shown.   *)
Records(mode) == [s \in shown |-> Record(s, mode)]

Exceeds(v, w) == v.num * w.den > w.num * v.den

(* name.lower(), then the id.                                               *)
ByName(a, b) == Name[a] < Name[b] \/ (Name[a] = Name[b] /\ a < b)

(* Faulty variant of Ahead: the value alone orders the eligible sources.    *)
AheadByValue(record, a, b) ==
    LET x == record[a]  y == record[b]
    IN  \/ x.eligible /\ ~ y.eligible
        \/ x.eligible /\ y.eligible /\ Exceeds(x.value, y.value)
        \/ /\ ~ x.eligible /\ ~ y.eligible
           /\ \/ ReasonPlace[x.reason] < ReasonPlace[y.reason]
              \/ x.reason = y.reason /\ ByName(a, b)

(* The sort keys of rank_boorus: a comes before b in its complete result.   *)
Ahead(record, a, b) ==
    LET x == record[a]  y == record[b]
    IN  \/ x.eligible /\ ~ y.eligible
        \/ /\ x.eligible /\ y.eligible
           /\ \/ Exceeds(x.value, y.value)
              \/ ~ Exceeds(y.value, x.value) /\ ByName(a, b)
        \/ /\ ~ x.eligible /\ ~ y.eligible
           /\ \/ ReasonPlace[x.reason] < ReasonPlace[y.reason]
              \/ x.reason = y.reason /\ ByName(a, b)

Eligible(record) == {s \in DOMAIN record : record[s].eligible}

Matching(f) == {s \in shown : Matches(f, s)}

(* Faulty variant of Rank: ranks are given out after the filter.            *)
RankFiltered(record, f, s) ==
    IF record[s].eligible
    THEN 1 + Cardinality({o \in Eligible(record) \cap Matching(f) : Ahead(record, o, s)})
    ELSE 0

(* enumerate over the eligible, before the filter; 0 stands for None.       *)
Rank(record, f, s) ==
    IF record[s].eligible
    THEN 1 + Cardinality({o \in Eligible(record) : Ahead(record, o, s)})
    ELSE 0

(* The place of a source among those that match, from 0.                    *)
Index(record, f, s) == Cardinality({o \in Matching(f) : Ahead(record, o, s)})

(* rank_boorus and GET /rankings: the page of matching_result.              *)
Ranking(mode, f, limit, offset) ==
    LET record == Records(mode)
        page == {s \in Matching(f) : Index(record, f, s) \in offset .. offset + limit - 1}
    IN  [total |-> Cardinality(Matching(f)),
         eligible_count |-> Cardinality(Matching(f) \cap Eligible(record)),
         items |-> {[source |-> s, rank |-> Rank(record, f, s),
                     index |-> Index(record, f, s), record |-> record[s]] : s \in page}]

------------------------------------------------------------------------------
(* The other reads.                                                         *)

(* _project_booru, of at most one snapshot.                                 *)
Booru(s, latest) == [source |-> s, latest |-> {Project(r) : r \in latest}]

(* list_boorus and GET /boorus: without a filter the database takes the     *)
(* page, otherwise Python does, of the rows that match.                     *)
ListBoorus(f, limit, offset) ==
    LET listed == IF Active(f) THEN Matching(f) ELSE shown
        index(s) == Cardinality({o \in listed : ByName(o, s)})
    IN  {Booru(s, LatestRow(s)) :
            s \in {m \in listed : index(m) \in offset .. offset + limit - 1}}

(* get_booru, list_snapshots, get_growth.                                   *)
GetBooru(s) == {Booru(x, LatestRow(x)) : x \in {s} \cap shown}
ListSnapshots(s, limit) ==
    {{Project(r) : r \in NewestRows(x, limit)} : x \in {s} \cap shown}
GetGrowth(s) == {Growth(NewestRows(x, 2)) : x \in {s} \cap shown}

(* compare: 404 if one of the sources is not shown.                         *)
Compare(sources) ==
    IF sources \subseteq shown
    THEN {[booru |-> Booru(s, IF Window(s) = {} THEN {} ELSE {First(Window(s))}),
           growth |-> Growth(Window(s))] : s \in sources}
    ELSE {}

(* run_stats, of a source shown or not: LIMIT 2 of its own.                 *)
Stats(s) == Growth(NewestRows(s, 2))

------------------------------------------------------------------------------
(* The response models.  An answer that does not validate is an HTTP 500.   *)

SnapshotResponse == [id : Ids, captured_at : 0 .. MaxTime, total_posts : Nat \cup {-1}]
BooruResponse == [source : Source, latest : SUBSET SnapshotResponse]

(* Field(gt=0) of elapsed_hours, allow_inf_nan=False of a value.            *)
Rate == [num : Int, den : Nat \ {0}]

GrowthAvailableResponse ==
    [status : {"available"}, reason : {"none"}, from : Ids, to : Ids, rate : Rate]

GrowthUnavailableResponse ==
    [status : {"unavailable"}, from : {0}, to : {0}, rate : Rate,
     reason : {"insufficient_history", "incompatible_snapshots", "invalid_interval"}]

RankingEligible(values, previous) ==
    [eligible : {TRUE}, reason : {"none"}, from : previous, to : Ids, value : values]

RankingIneligible ==
    [eligible : {FALSE}, reason : DOMAIN ReasonPlace \ {"none"},
     from : {0}, to : {0}, value : Rate]

(* LargestRankingResponse and the two growth rankings' responses.           *)
RankingResponse(mode) ==
    LET item == RankingIneligible \cup
                IF mode = "largest"
                THEN RankingEligible([num : Nat, den : {1}], {0})
                ELSE RankingEligible(Rate, Ids)
    IN  [total : Nat, eligible_count : Nat,
         items : SUBSET [source : Source, rank : Nat, index : Nat, record : item]]

------------------------------------------------------------------------------
(* What changes the tables.                                                 *)

(* Faulty variant of NewRow: the timestamp is not the collector's own.      *)
NewRowAhead(s, id, total) ==
    [id |-> id, source |-> s, captured_at |-> now + 1,
     metrics |-> [kind |-> "envelope", unit |-> "posts", value |-> total,
                  provenance |-> Policy[s], rest |-> TRUE]]

(* A validated candidate (SnapshotCollectionPolicy.validate_candidate) with *)
(* a random id.                                                             *)
NewRow(s, id, total) ==
    [id |-> id, source |-> s, captured_at |-> now,
     metrics |-> [kind |-> "envelope", unit |-> "posts", value |-> total,
                  provenance |-> Policy[s], rest |-> TRUE]]

(* Faulty variant of Plausible: the baseline is the oldest row.             *)
PlausibleOldest(s, total) ==
    \A r \in Of(s) :
        (\A q \in Of(s) \ {r} : After(q, r)) =>
            \A v \in Baseline(s, r.metrics) : ~ Suspicious(v, total)

(* A total is judged against the newest row, if that is a baseline.         *)
Plausible(s, total) ==
    \A r \in LatestRow(s) : \A v \in Baseline(s, r.metrics) : ~ Suspicious(v, total)

(* The final commit of a collection; the first snapshot may show the        *)
(* source (publish_on_success).                                             *)
Accept(s) ==
    \E id \in Ids, total \in Totals :
        /\ \A r \in snapshots : r.id # id
        /\ Plausible(s, total)
        /\ snapshots' = snapshots \cup {NewRow(s, id, total)}
        /\ shown' \in {shown, IF Of(s) = {} THEN shown \cup {s} ELSE shown}
        /\ UNCHANGED now

(* An operator sets is_enabled.                                             *)
Switch(s) ==
    /\ shown' = IF s \in shown THEN shown \ {s} ELSE shown \cup {s}
    /\ UNCHANGED <<snapshots, now>>

Clock ==
    /\ now < MaxTime
    /\ now' = now + 1
    /\ UNCHANGED <<shown, snapshots>>

Next == (\E s \in Source : Accept(s) \/ Switch(s)) \/ Clock

Spec == Init /\ [][Next]_vars

------------------------------------------------------------------------------
(* Properties.                                                              *)

(* Every variable has its type, and the id of a snapshot is its own.        *)
TypeOK ==
    /\ shown \subseteq Source
    /\ snapshots \subseteq Row
    /\ \A r, q \in snapshots : r.id = q.id => r = q
    /\ now \in 0 .. MaxTime

(* Detail, list, history, comparison, ranking and the stats command agree   *)
(* on the newest snapshot of a source, ties of captured_at included,        *)
(* although each has a query of its own (catalog.py, stats.py); and a       *)
(* well-formed total of the right provenance is ranked exactly if the       *)
(* collector takes it for its baseline (quality.py).                        *)
ReadsAgree ==
    \A s \in shown :
        LET booru == Booru(s, LatestRow(s))
            largest == Record(s, "largest")
        IN  /\ ListBoorus(NoFilter, Cardinality(Source), 0) \cap GetBooru(s) = {booru}
            /\ ListSnapshots(s, 1) = {booru.latest}
            /\ \A item \in Compare(shown) : item.booru.source = s => item.booru = booru
            /\ \A r \in booru.latest : r.total_posts # -1 <=> largest.eligible
            /\ largest.eligible =>
                \E r \in booru.latest : largest.to = r.id /\ largest.value.num = r.total_posts
            /\ Stats(s).status = "available" => \E r \in booru.latest : Stats(s).to = r.id
            /\ \A r \in LatestRow(s) :
                WellFormed(r.metrics) /\ r.metrics.provenance = Policy[s]
                => (largest.eligible <=> Baseline(s, r.metrics) # {})

(* No malformed, foreign or missing metric makes an answer fail its response*)
(* model: a rate has a positive interval and, if it is relative, a positive *)
(* baseline, a total is no negative number, and a rank is given exactly to  *)
(* what is eligible (catalog.py, apps/api/schemas.py).  Rates being exact,  *)
(* a total too large for a float is not told apart.                         *)
AnswersValidate ==
    /\ ListBoorus(NoFilter, Cardinality(Source), 0) \subseteq BooruResponse
    /\ \A s \in shown : GetGrowth(s) \subseteq GrowthAvailableResponse \cup GrowthUnavailableResponse
    /\ \A mode \in Mode :
        LET answer == Ranking(mode, NoFilter, Cardinality(Source), 0)
        IN  /\ answer \in RankingResponse(mode)
            /\ \A i \in answer.items : i.rank # 0 <=> i.record.eligible

(* The growth of a source is the same everywhere: GET growth and compare    *)
(* offer it exactly when both growth rankings rank it or, for a relative    *)
(* rate, it has a zero baseline, with the same pair and rate, and what is   *)
(* wrong with the interval or the history they call the same.  The code     *)
(* judges the metrics twice, in catalog.py and in analytics.py.             *)
GrowthAgrees ==
    \A s \in shown :
        LET answer == Growth(NewestRows(s, 2))
            absolute == Record(s, "fastest_growth")
            relative == Record(s, "relative_growth")
        IN  /\ \A item \in Compare(shown) : item.booru.source = s => item.growth = answer
            /\ answer = Stats(s)
            /\ answer.status = "available" <=> absolute.eligible
            /\ absolute.eligible =>
                /\ absolute.value = answer.rate
                /\ absolute.from = answer.from /\ absolute.to = answer.to
                /\ relative.eligible <=> relative.reason # "zero_baseline"
            /\ relative.eligible => relative.to = answer.to /\ relative.from = answer.from
            /\ relative.reason = "zero_baseline" => absolute.eligible
            /\ ~ absolute.eligible => relative = absolute
            /\ answer.reason = "insufficient_history" <=> absolute.reason = "insufficient_history"
            /\ answer.reason = "invalid_interval" <=> absolute.reason = "invalid_time_interval"

(* A rank is given in the whole catalog and a filter takes it along: no two *)
(* sources share one, a greater value has a smaller one, there are no gaps, *)
(* and what has none comes last (rank_boorus).                              *)
RanksAreGlobal ==
    \A mode \in Mode :
        LET Answer(f) == Ranking(mode, f, Cardinality(Source), 0).items
            all == Answer(NoFilter)
            ranked == {i \in all : i.rank # 0}
        IN  /\ {i.rank : i \in ranked} = 1 .. Cardinality(ranked)
            /\ \A i, j \in ranked :
                i.rank < j.rank => ~ Exceeds(j.record.value, i.record.value)
            /\ \A f \in Filters :
                LET items == Answer(f)
                IN  /\ \A i \in items : \E j \in all :
                        i.source = j.source /\ i.rank = j.rank
                    /\ \A i, j \in items :
                        /\ i.rank # 0 /\ j.rank = 0 => i.index < j.index
                        /\ i.rank # 0 /\ j.rank > i.rank => i.index < j.index

(* Pages taken one after the other show every source that matches exactly   *)
(* once while nothing changes, in the rankings as in the list, and as many  *)
(* as the first page announced.                                             *)
PagesAreComplete ==
    \A f \in Filters :
        LET offsets == {o \in 0 .. Cardinality(Source) : o % PageLimit = 0}
            Complete(pages, total) ==
                /\ UNION {pages[o] : o \in offsets} = Matching(f)
                /\ \A o \in offsets :
                    Cardinality(pages[o]) =
                        IF o >= total THEN 0
                        ELSE IF total - o < PageLimit THEN total - o ELSE PageLimit
        IN  /\ Complete([o \in offsets |-> {i.source : i \in ListBoorus(f, PageLimit, o)}],
                        Cardinality(Matching(f)))
            /\ \A mode \in Mode :
                Complete([o \in offsets |-> {i.source : i \in Ranking(mode, f, PageLimit, o).items}],
                         Ranking(mode, f, PageLimit, 0).total)

(* The rate a new snapshot gives rise to is within the anomaly guard: what  *)
(* the collector took for its baseline is what the readers take for the     *)
(* previous snapshot, and without a baseline they show no rate.             *)
NewGrowthIsPlausible ==
    [][\A s \in Source :
        /\ Of(s)' # Of(s)
        /\ Stats(s)'.status = "available"
        => /\ Of(s) # {}
           /\ ~ Suspicious(First(Of(s)).metrics.value, First(Of(s)).metrics.value + Stats(s)'.rate.num)]_vars

==============================================================================
