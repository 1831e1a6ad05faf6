# BooruRadar in TLA+

A model of BooruRadar: how it collects snapshots, what its API answers from them,
and how its page asks for and shows the answers. TLA+ modules translated from the
source, TLC runs on small instances, and theorems checked by TLAPS.

## The system

BooruRadar records how many posts image boards report. One-shot commands ask a
source for its aggregate count and store accepted observations in PostgreSQL; a
read-only API ranks and compares the sources, and a browser client shows them.

| Component | State | Operations | Talks to |
|---|---|---|---|
| collection command (`collect.py`) | argv, outcome, cleanup flag | `run_collection`, `_collect_locked` | lock, database, adapters |
| collection lock (`collection_lock.py`) | PostgreSQL session advisory lock per target, on a connection of its own | try, release, invalidate | database server |
| snapshot collection service (`snapshot_collection.py`) | `crawl_runs`, `booru_snapshots`, `boorus.is_enabled` | `collect`: RUNNING commit, inspection, baseline, final commit, failure and cancellation handlers | database, inspection |
| quality policy (`quality.py`) | none | candidate validation, `suspicious_flags` | called by the service |
| adapters and inspection (`adapters/`, `inspection.py`) | per-inspection evidence, cached statistics | health, capabilities, statistics, posts, tags | HTTP sources |
| catalog job (`collect_catalog.py`) | failure count | 21 targets in turn | collection command |
| catalog and analytics (`catalog.py`, `analytics.py`, `stats.py`) | none (reads) | list, detail, growth, compare, rank | database |
| public API (`apps/api`) | none | GET routes | catalog |
| browser client (`app.js`) | filters, panels, abort controllers, a timer | ranking, comparison, detail, history navigation | API |
| worker shell, config, logging | none of interest | - | - |

What is hard about it:

* several invocations run at once (cron, the catalog job, a person), excluded
  only by an advisory lock on a connection that may die before its owner does;
* the work of one invocation spans two commits and several HTTP requests, so
  what it decided early (interval, publication, baseline) is used late;
* commits can fail, take effect unacknowledged, or be cancelled in flight;
  processes are killed; cleanup fails after the outcome is known;
* the database refuses `finished_at < started_at`, so the wall clock matters;
* the readers meet metrics of any shape and age, tied timestamps and histories of
  one row, through several queries of their own;
* the browser overlaps requests, aborts them and reads late answers.

What makes each component correct:

* *command*: the report is what the database holds; every started invocation ends;
* *lock*: one collector per target, and no lock kept for ever;
* *service*: a snapshot and its SUCCEEDED run are one; terminal runs are final;
  a source is published by its first snapshot only;
* *history*: append-only, plausible step by step, unforced steps spaced;
* *adapters*: a blocked source is reported as blocked and not asked again; no
  malformed response becomes an observation;
* *catalog job*: every target is tried; the exit code is true;
* *catalog*: list, detail, growth, comparison, ranking and the stats command agree;
  no answer fails its model; ranks are global and pages complete;
* *browser*: what is shown answers the latest request, and nothing older.

## Modules

`Quality.tla` is the anomaly guard as operators. The thresholds are constants;
`previous * 0.5` is written `2 * candidate`, which is exact.

`History.tla` is the abstract specification: per target a set of accepted
observations and whether the source is shown. `Accept` adds one observation that
is plausible against a newest one; only the first may publish the source. What is
`Plausible` it states for itself, as what is admitted (compare
`docs/ARCHITECTURE.md:121-125`), where `Quality` has what the code blocks: a wrong
boundary in the guard breaks the refinement.

`Collector.tla` is the detailed specification: any number of invocations over
one database. Its variables are the tables (`booru`, `run` and `started_at`,
`snapshots`), the server's lock table (`holder`), the locals of each invocation
(`pc`, `target`, `force`, `publish`, `candidate`, `outcome`) and the clock.
`pc` names the await an invocation is at:

| `pc` | code | actions |
|---|---|---|
| `idle` | before `run_collection` | `Start`, `RejectArguments` |
| `lock` | `collection_lock`, 34-45 | `AcquireLock`, `SkipInProgress`, `LockFails` |
| `booru`, `create` | `_collect_locked`, 161-179 | `FindBooru`, `MissBooru`, `RejectMismatch`, `CreateBooru`, `CreateConflict`, `CreateAckLost` |
| `latest` | 181-209 | `SkipRecent`, `ReadLatest` |
| `begin` | `collect`, 78-104 | `BeginRun`, `BeginAckLost` |
| `inspect` | 106-116 | `Inspect`, `InspectFails` |
| `baseline` | 117-128 | `PassBaseline`, `BlockSuspicious`, `BaselineFails` |
| `commit` | 130-157 | `CommitSnapshot`, `CommitFails`, `CommitAckLost` |
| `fail` | 185-204 | `MarkFailed`, `MarkFailedFails` |
| `reconcile` | 158-184 | `Reconcile`, `ReconcileFails` |
| `close` | end of client and session | `Close`, `CloseFails` |
| `unlock` | `collection_lock`, 49-69 | `Unlock`, `UnlockFails` |
| `dispose` | `run_collection`, 126-151 | `Dispose` |

A failed statement before the RUNNING row is `QueryFails`. `Cancel` is the
delivery of `CancelledError` at any of these awaits, once per invocation; a
commit in flight has or has not taken effect when the handler runs, because
psycopg waits for the statement it cancels. A second cancellation is not
modelled; a kill in a handler is. `Kill`, `Reap`, `LoseLock`, `OperatorSwitch`
and `Clock` are the environment. The constant `Environment` says which faults a
run allows, so that each property is checked under the weakest conditions it
needs.

Abstractions: an invocation has at most one crawl run, so the run is named by
the invocation; an observation is its time and total; the requests of an
inspection are one step; evidence, messages and credentials are left out; ties of
`captured_at`, which the code breaks by random ids, are broken freely at each
query. `started_at` and `finished_at` are read with the commit they belong to.

The faulty variants in the middle of `Collector.tla` are plausible mistakes, one
or more per property; they are not part of `Next` and document what each
property can tell from the code.

`MCCollector.tla` adds the symmetry set for TLC.

`CollectorProofs.tla` holds the theorems about one collection, and
`CollectorHistoryProofs.tla` those about the history of a target.

`CatalogJob.tla` extends `Collector` by the daily job (`collect_catalog.py`). Its
attempts are invocations of the collector, so that everything that happens to a
collection happens to them, beside other invocations of the command.

| Action | Code |
|---|---|
| `Attempt` | the call of `run_collection` of the loop |
| `Advance` | its return, its `SystemExit` or its exception, and the count of failures |
| `Report` | the line `CATALOG_FAILURES` and the exit code |
| `Break` | a `CancelledError`, which passes through the loop, or the death of the process |
| `World` | the steps and faults of the invocations, and the others that start |

`MCCatalogJob.tla` names two targets and three invocations, and
`CatalogJobProofs.tla` holds the theorems.

`Inspection.tla` is one adapter and the collections made with it: what
`Collector` has as the single step `Inspect`. An action is one request together
with its answer, since the adapters do nothing in between; `asked` keeps every
request and answer of the collection, and the properties are about it.

| Action | Code |
|---|---|
| `Begin` | `clear_request_evidence`, called by `collect` before anything else |
| `CheckHealth`, `FetchStatistics`, `FetchPosts` | `health_check`, `fetch_public_statistics`, `fetch_recent_posts` of `DanbooruAdapter` and `GelbooruAdapter` |
| `AskFilter`, `AskCount`, `ReuseCount` | `fetch_public_statistics` of the counter adapters (`UnfilteredPhilomenaAdapter`; all; all), called by `health_check` and by `inspect` |
| `Interrupt` | a cancellation at any of these requests |

`RaisedBy` is what the request helper and the parsing of its result raise, as
`_classify_failure` records it; `Fail` is the way of that exception through
`inspect` and `collect`. A body is abstracted to whether it holds what the
request is for, is well-formed without it, or is something else; a response to a
blocked request is a 403, or any status with `cf-mitigated: challenge`. Two
responses are left out: a challenge whose body is valid API data, and a redirect
followed by the client. `CounterKind` adapters have `AggregateAdapter`'s
capabilities, so `inspect` never asks them for posts; tag statistics ask nothing
because the service names no tags.

`MCInspection.tla` names the adapter families of the runs, and
`InspectionProofs.tla` holds the theorems.

`Catalog.tla` is what the API and the stats command answer from the tables. Every
request is one SQL statement and Python over its rows, so it sees one state of
the tables: reads are operators, one per query, and the actions are what changes
the tables.

| Definition | Code |
|---|---|
| `LatestRow`, `NewestRows`, `Window` | the three forms of "newest rows" in `catalog.py`: scalar subquery, `LIMIT`, `row_number()` |
| `Validation`, `Project` | `_validate_total_posts`, `_project_snapshot` |
| `Compatible` | `calculate_growth_metrics` (`analytics.py`), the second judge of a metrics column |
| `Baseline` | `previous_total_posts` (`quality.py`), the third |
| `Growth`, `GetGrowth`, `Compare`, `Stats` | `_calculate_growth` and its three users |
| `Records`, `Ahead`, `Rank`, `Index`, `Ranking` | `rank_boorus`: the records, the sort keys, the ranks, the page |
| `Matches`, `ListBoorus`, `GetBooru`, `ListSnapshots` | `CatalogFilters` and the other reads |
| `...Response` | the Pydantic models of `schemas.py` |
| `Accept`, `Switch`, `Clock` | the final commit of a collection with `validate_candidate` and the anomaly guard, the operator, time |

The three judges of a metrics column are kept apart because their agreement is
the question. The column is abstracted to what they tell apart: its kind, unit,
value, provenance, and whether its other entries are well-formed. `text` in a
filter is given by the sources in which it occurs. Rates are exact fractions
without their constant factors (24 hours, 100 percent); the code computes with
floats, so that two rates that differ by less than their precision are tied there
and not here, and a stored total too large for a float is not told from others.
`Accept` takes the commits of a source one at a time, which is what
`ImplementsHistory` says of `Collector`.

`MCCatalog.tla` names the sources, the defective columns, the tables to begin with
and the filters; `CatalogProofs.tla` and `RankingProofs.tla` hold the theorems.

`Discovery.tla` is the ranking of the browser client (`app.js`): the filters with
mode and page (`view`), the controls they are set with (`form`), the address and
session history (`entries`, `at`), the debounce timer, the request of the current
abort controller and the table. Event handlers and answers are atomic up to the
end of their microtasks, because the event loop runs them so: what an aborted
request does follows at once, in the action of the abort. The exception is a
response that was complete already; it becomes `late`, and its turn comes before
anything of the request that superseded it, which needs the network first.

| Action | Code |
|---|---|
| `Type`, `TimerFires`, `Submit`, `Toggle` | the listeners of the form and its search field, 1034-1040 and 1042-1046, and `commitDiscoveryFilters` |
| `ChangeRating` | the rating's own listener, 1041: the control is outside the form element (`index.html:90`), so the form does not hear it |
| `SelectMode`, `PreviousPage`, `NextPage`, `Clear`, `Retry` | `selectRankingMode` and the buttons' listeners, 1047-1079 |
| `Travel`, `FollowAnchor`, `Reload` | back and forward, a link within the page, and loading it again: the `popstate` listener and `restoreDiscoveryUrl` |
| `Headers`, `Refuse`, `Answer`, `SettleLate` | `fetchJson` and `loadRanking` after each await |
| `OfferCategories`, `MissCategories`, `RetryCategories` | `loadCategories` |

An abort while the body of a refusal is read is turned into an `ApiError` by
`fetchJson`, whose handler shows an error over the new request, whichever act
started that, until it ends; `SettledIsConsistent` says that it never outlasts it.
Addresses are taken to be written as the page writes them, with known categories; the
match mode behaves as a category always on offer; included and excluded categories
behave alike. The API may answer any total to any request.

`MCDiscovery.tla` names the texts, ratings, modes and categories of the runs, and
`DiscoveryProofs.tla` holds the theorems.

`Panel.tla` is one of the client's other panels: the comparison, the detail of a
source or the summary. They are built alike and share nothing but the API, so the
module is about any one of them (`panel`), beside collectors that go on
committing. What an answer says of a source is how many of its snapshots had been
accepted when the API read the tables; a load keeps that number for its beginning
(`since`) and for each of its answers (`got`).

| Action | Code |
|---|---|
| `Toggle`, `RunComparison`, `CloseComparison` | the checkboxes of the ranking with their limit, `runComparison`, `closeComparison` |
| `OpenDetail`, `CloseDetail` | `openDetail` and its three requests, `closeDetail` |
| `LoadGrowthSummary` | `loadGrowthSummary` and its two requests under `Promise.allSettled` |
| `Headers`, `Read`, `Fail` | `fetchJson` and the loads after each await |
| `SettleLate` | a load that was complete when it was aborted |
| `Collect` | a collector's commit |

`Aborted` is what may become of a load whose controller is aborted: its
`AbortError` is dropped, or its responses were all complete and come late, or a
refusal whose body was being read becomes an `ApiError`. `Promise.all` rejects with
the first of several rejections; in which order the requests of one load reject
when they are aborted together is left open.

`MCPanel.tla` names the sources, and `PanelProofs.tla` holds the theorems.

## Runs

| Run | Bounds | Question |
|---|---|---|
| `CollectorFaults` | 2 invocations, 1 target, every initial row, totals {1, 7}, interval 1, clock 0..1 | do exclusion, atomicity, report, spacing and publication survive cancellations, kills, failing statements, commits and cleanup, and an operator? |
| `CollectorHistory` | 3 invocations, a new target, totals {1, 3, 7}, interval 2, clock 0..2 | is the accepted history plausible, append-only and published with its first row, even if acknowledgements are lost? |
| `CollectorLockLoss` | 2 invocations, totals {1, 7}, clock 0..1 with steps back | are a success, a skip and a SUCCEEDED run still what they say when the lock is lost, two collectors of a target overlap and acknowledgements are lost? |
| `CollectorLiveness` | 2 invocations, no symmetry, a clock that stands still | does everything end, and who leaves a run RUNNING? |
| `CollectorAckViolation` | 2 invocations | the first finding below |
| `CatalogJob` | the job over 2 targets, 1 other invocation of either | is every target tried, and is an exit code of zero true? |
| `InspectionFamilies` | 2 collections, all families, 2 totals | is a recognised block final, a counter asked for once, a filter checked first, an accepted total this collection's answer, the evidence complete? |
| `InspectionGelbooruViolation` | Gelbooru | the second finding below |
| `CatalogReads` | 3 sources, two of one name; every kind of metrics column in either of two rows; 4 snapshots, totals {3, 4}, clock 0..2; 4 filters | do all reads agree, does every answer validate, are ranks global, pages complete and new rates plausible? |
| `DiscoveryView` | 3 acts of the user, from every address over 2 texts, 2 ratings, 1 category, 2 modes, 2 pages | do address, controls and table agree when nothing is under way, and does the ranking settle? |
| `DiscoverySelectionsViolation` | 2 acts | the third finding below |
| `PanelLoads` | each panel, 2 sources, 1 new snapshot of each, 3 loads or closings | does a ready panel answer the last request and nothing older, is its state explained, and does it settle? |

Two invocations suffice for the races: every property relates one run to
another collector of its target or to the history, and three are used where a
history of three rows matters (the newest of two older rows). With thresholds 2,
6 and 6 the totals {1, 3, 7} of `CollectorHistory` meet the boundaries of the guard: a
drop of exactly the minimum to just below half (3 to 1), a rise of exactly the minimum to
just above the multiple (1 to 7), and ordinary changes. An interval of 1 with
two readings of the clock, or of 2 with three, separates "too recent" from "old
enough" by one tick. Collections of different targets share neither rows nor a
lock key; the job has two targets, the other runs one.
`CHECK_DEADLOCK FALSE`: each invocation runs once and the user's acts are counted,
so the systems really stop.

The job's loop treats its targets alike; with two of them one can fail, or be
skipped because of the other invocation, before or after one that does not.

A reader sees the newest two rows of a source, so histories of up to three (two to
begin with and a new one) show every pair there is to judge; the defective columns
meet a sound one on either side, at equal and at different times. Three sources
give ties of name, of value and of reason, and a page of two that is not full.

An inspection has at most three requests, and `Begin` resets all that it keeps,
so two collections and two totals show whatever leaks from one to the next: a
stale total is told from a new one. The command makes one collection with an
adapter; a second one is what `clear_request_evidence` is written for.

The races of the ranking are between an act of the user, the request it aborts
and the act after it, which may cancel the timer of the first; three acts show
them, from any starting point, since every address is an initial one.

The races of a panel are between a load, the load or the closing that supersedes
it, and one after that, which finds the leftovers of both. One new snapshot tells
an old answer from a new one.

Fairness of the collector (`FairSpec`): weak fairness of each invocation's own steps - the HTTP
client has a timeout and database statements return or fail - and of the server
releasing the locks of closed connections. Starting, faults, the operator and
the clock are free. Liveness is checked with a clock that stands still, since no
step waits for it. Fairness of the ranking: the timer fires, and a request ends in
some way, as browsers give up connections in the end; the user and the
categories are free. Fairness of a panel: the network answers or gives up; the user and
the collectors are free. Fairness of the job: the loop goes on when its call has
returned, and the collector's own fairness; cancellations and kills are free, which
is why `EveryTargetIsTried` excepts them.

## Findings

`CollectorAckViolation`: if the final commit takes effect and the connection
fails before the client learns it, `collect` enters `except Exception`, reloads
the run (now SUCCEEDED) and overwrites it with FAILED. The accepted snapshot
stays in the history beside a failed run, the source may be published, and the
command reports `COLLECTION=FAILED`. The cancellation handler looks for the
snapshot first; the failure handler does not. `docs/ARCHITECTURE.md:137` says
the sequence prevents "a rejected candidate or failed final commit from leaving
an accepted snapshot behind". `CollectorHistory` shows that the history itself
stays sound: the snapshot that survives was plausible, spaced and published
properly.

`InspectionGelbooruViolation`: `GelbooruAdapter` does not know blocks. When the
health check is answered with 403, or with a challenge page, it takes the source
for unhealthy and `inspect` goes on to ask the same URL for the total. If that
is blocked too, the run is recorded as `http_error` or, for a challenge page with
status 200, as `hard_invalid`. `docs/production-collection.md:250` says that a
403 or `cf-mitigated: challenge` "is a source-access failure, not malformed
data. There is no retry or bypass." The comment in `AggregateAdapter.health_check`
shows that a second request after a block is what the other adapters avoid, and
`RecognisedBlockIsFinal` that they do.

`DiscoverySelectionsViolation`: `commitDiscoveryFilters` reads the categories from
the ticked checkboxes. Before `loadCategories` has succeeded, and after it has
failed, there are none, so that a search or a rating committed then replaces the
categories and exclusions restored from the address with none, writes that to
the address, and shows the unfiltered ranking; a later retry ticks nothing.
`README.md:106`: "The homepage restores filters, mode, and page from its URL";
the browser test claims at line 172 that "Category failure and retry restore both
groups and their URL selections", which holds only if nothing is committed in
between. Beside this, the arrival of the categories overwrites a text being
typed, once (`TypedTextStays` says that nothing else does, and that the text last
searched for is back).

## Proofs

`CollectorProofs.tla` proves, for every set of invocations and targets, every
clock bound, interval, thresholds and initial rows:

* `TypeCorrectness`: `Spec => []TypeOK`, one step per action.
* `MutualExclusion`: without lost lock connections,
  `Spec => []OneCollectorPerTarget`. Exclusion alone is not inductive: the
  strengthening `LockHeld` says that a collector inside the lock is the session
  that holds it. `LockSteps` shows that a lock changes hands only between nobody
  and the invocation that moves, so nobody else's hold is disturbed.
* `SuccessesAreTrue` and `OnlyItsHandlerOverwrites`, in every environment: what
  is left when acknowledgements are lost too. The first finding is the only way in
  which database and report part: a SUCCEEDED run has its snapshot, a reported success
  or skip is true (`SuccessIsTrue`), and no step rewrites a terminal status but the
  failure handler of the call that stored the snapshot. The inductive invariant
  `RunInv` ties the location of an invocation to the status of its run: none before
  the RUNNING commit, running up to the final one, open in the cancellation handler
  and, after a lost acknowledgement, succeeded in the failure handler. `ReportInv` adds
  that the outcome set when the body is left already agrees with the run.
* `SnapshotsMatchRuns`, `RunsStayFinished`, `ReportsAreTrue`: if every commit is
  acknowledged or without effect (`"lost_ack" \notin Environment`), the same invariants
  give the full `SnapshotIffSucceeded`, `RunStatusIsFinal` and `ReportIsTrue`, with every
  other fault allowed.
* `LocksAreOwned`, in every environment: no session holds two locks, or one of a target
  it does not collect, and the holder of a lock is at work under it, about to close its
  connection, or gone, when the server may free it. It is the safety half of `LockIsFreed`.
* `InvocationsGoForward`: nothing is retried. `Ahead` counts the awaits that can still lie
  before an invocation; no step adds to it and each of its own steps takes from it, so
  that at most 14 of them end it. It is the safety half of `InvocationsEnd`.
* `StrandedIsExplained`: if the database works and the clock runs forward, a run left
  RUNNING by an invocation that ended was cancelled (`StrandedRunIsExplained`).

There, the steps are reduced by two lemmas: `Frame` (an invocation changes nothing of
another one's) and `HistorySteps` (rows enter `booru_snapshots`, and sources are
shown, only by the effect of the final commit).

`CollectorHistoryProofs.tla` proves what the lock is for. While no lock connection is
lost, and whatever else fails (lost acknowledgements included):

* `HistoryImplemented`: `Spec => ImplementsHistory`, for any number of collectors and
  targets. `Judged` is the heart of it: what an invocation has decided on (publication, a
  plausible candidate) is still true of the history when it commits. It is inductive
  only because of `LockHeld`, by which nobody else can commit to the target in between,
  and of `Fresh`, by which the invocation has not committed itself. `GuardIsPromise` shows
  that the code's guard blocks exactly what `History` does not admit, for every total and
  threshold: neither more nor less.
* `ShownByFirst`: `ShownOnlyByFirstSnapshot`, from the same invariant.
* `SpacingKept`: `UnforcedSpacing`, if moreover the clock is not set back. `Spaced` says
  that the interval judged early still holds of what is committed late.
* `PublishedWithHistory`: `[]PublishedIffAccepted`, if moreover no operator
  interferes and no row is there before the first collector (`Chosen`).

`CatalogJobProofs.tla` proves, for any number of targets:

* `JobIsCollector`: `JobSpec => Spec`. The job is a way to use the collector, so all of
  the above holds of it and of what runs beside it.
* `ZeroIsTrue`: `JobSpec => []ZeroMeansCollected`, in every environment, from
  `ReportInv` for each attempt, from `Noticed` (who is cancelled has no success to report)
  and from `Ledger` (the turns that are over ended without a cancellation, and without a
  failure unless one was counted).
* `JobReportsExactly`: an attempt begins when those before it have ended
  (`AttemptsInOrder`), and a report comes after all of them, with the exact number of
  failures and the exit code that goes with it (`ExitIsExact`). The invariant `InTurn` says that
  `failures` is the cardinality of the failed turns that are over. It is the safety half
  of `EveryTargetIsTried`.

`InspectionProofs.tla` proves, for any totals and number of collections:

* `TypeCorrectness`: `Spec => []TypeOK`.
* `BlocksAreFinal`: `Spec => []RecognisedBlockIsFinal`.
  The strengthening adds that an inspection that has not failed has no failure
  recorded: one that goes on has therefore seen no block, and a new answer is the
  only one to judge (`BlockStep`).
* `CountersAreAskedOnce`: `Spec => []CountedOnce`, from the invariant that while
  the counter is still to be asked for, it has not been.
* `FiltersAreChecked`: `Spec => []FilterCheckedFirst`, from the invariant that
  while the filter counts as checked, its open answer is the last one.
* `AcceptanceIsEarned`: `Spec => []AcceptedIsObserved`. `ObservedInv` says of every stage
  that leads to acceptance that nothing but a health check has gone wrong, and that the
  counter kept or the total taken is that of the last count of this collection.
* `EvidenceOfAllResponses`: `Spec => []EvidenceIsComplete`. The property says that
  some order-preserving map takes the answered requests one to one to the entries of the
  evidence; the proof has such a map in hand and adds a place to it with each answer
  (`OneRequest`, `PlacesGrow`).

`DiscoveryProofs.tla` proves, for any filters, modes, pages and number of events:

* `TypeCorrectness`, `SettledConsistently`, `TablesAreCurrent` and
  `LoadingIsNeverIdle`, from one inductive invariant, `ScreenInv`. It says what
  holds between any two handlers, not only when nothing is under way: which view
  the address and the request name, what each phase of the request means for
  payload and panel, and that the controls may differ only while the timer is
  armed. All that starts a request re-establishes it in the same way, which is
  the lemma `NewRequest`; `CommitStep`, `ShowStep` and `RestoreStep` lead the
  handlers to it.
  The error of an aborted refusal over a request under way is within it: a request that is
  not done allows any panel but a ready one.
* `TypedTextIsKept`: `Spec => TypedTextStays`.

`LoadingIsNeverIdle` is the safety half of `Settles`.

In `InspectionProofs`, `RequestEffect` and `EntriesGrow` say once what appending a
request does to the history and to the evidence.

`PanelProofs.tla` proves, for any sources, any limits of the selection and any number of
events, from one inductive invariant, `Inv` (`Invariance`): `TypeCorrectness`,
`ReadyCurrent`, `ViewExplained`, `NeverBack` and `ClosedClosed`, one for each safety
property of the run. The parts of `Inv`: what was read lies between the beginning of its
load and now, and a load begins no earlier than what is shown was read (`ReadInTime`);
what is ready is the whole of the load that is done (`ReadyIsDrawn`); the panel looks as
its last load ended (`EndIsShown`); and what goes on after an abort had its answers
(`AbortedIsAnswered`). `LoadsComeToAnEnd` is the safety half of `PanelSettles`: a panel that
loads waits for a request of its own load, and the network brings each of them nearer to
its end (`Level`) and sets none back.

`CatalogProofs.tla` proves, for any finite set of sources, any tables to begin with and any
thresholds:

* `TypeCorrectness`: `Spec => []TypeOK`.
* `GrowthIsOne`, `NewestIsOne`: `GrowthAgrees` and `ReadsAgree`. The order of history is
  total because ids are unique (`AfterOrders`, `FirstComesFirst`), so that the three
  queries find the same rows (`LatestIsFirst`, `WindowIsNewest`, `SecondOfAll`), and
  whatever `Compatible` accepts `Validation` does too (`CompatibleIsValid`).
* `AnswersAreValid`: `AnswersValidate`; `PairNumbers` says that a rate has a positive
  interval and, if it is relative, a positive baseline.
* `PlausibleGrowth`: `Spec => NewGrowthIsPlausible`. The invariant is that no snapshot is of
  the future (`Past`): then, if a rate is shown after an acceptance at all, the new
  snapshot is the first of its two rows, and the second is the one the guard compared it
  with.
* `CollectionsKeepPromise`: `Spec => Promise!Spec` from empty tables, where `Promise` is
  `History` with each row as an observation. `Collector` implements `History` too
  (`HistoryImplemented`), so the two modules agree on what a collection may do to the
  tables. The point is that the guard of `Catalog` has a baseline whenever there is a history:
  every row is of the collector's own making (`Collected`), so the newest one, ties
  broken by id, is one that the guard compares with. With older rows of any other make the
  theorem is false: the guard lets everything pass after a row that is no baseline.
* `BlockedUntilItRises`: the totals that pass the guard are an interval around the previous
  one (`PassingTotals`), so a source that fell so far that it is blocked stays blocked, at
  the same baseline, until it reports more than the level it fell to.

`RankingProofs.tla` proves, under the same conditions and for any filters and size of page:

* `RanksOfCatalog`: `RanksAreGlobal`. Cross multiplication is a total preorder of fractions
  (`FractionOrder`), so the sort keys never tie and never go in circles (`RanksOrder`);
  in a strict total order of a finite set each place is taken once (`Places`).
* `PagesOfCatalog`: `PagesAreComplete`, from `Places` and the arithmetic of pages
  (`PageSize`, `PageStart`).

Only model-checked: liveness (`InvocationsEnd`, `LockIsFreed`, `EveryTargetIsTried`, `Settles`,
`PanelSettles`), since fairness and ENABLED are outside the prover. The theorems named above
as their safety halves say what such a proof would rest on: that what is waited for is
there, and that no step undoes progress. The step from there to "eventually" is TLC's.

The assumptions of the theorems are the named ones of the modules (`CollectorAssumption`,
`JobAssumption`, `CatalogAssumption`, ...), which TLC evaluates in each run, and what is said
of `Environment` and `InitialRow`. `lost_ack` is excluded where the first finding makes the
property false.

## Plan

Every part that decides something, except those below, has a module, and every safety property
of a run a proof. What is left, the most important first:

1. `Counters.tla`: the HTML parsers of the counter pages as state machines over
   tokens, against what the page shows; today a body has what was asked for or not.
2. The endpoints that keep no relation to others (health, dashboard, categories), if they
   get state.
3. Reads of several requests across pages while collectors commit: the API offers no
   snapshot of it, and no document promises one.

## Not modelled

Tag tables and the worker shell have no users. Settings, logging and output
wording carry no property. The health, dashboard and categories endpoints answer from one
query or none. FastAPI's validation of query parameters, drawing, navigation between
sections, focus and scrolling in the browser are left out; so is the data of the target
registry, beyond its order, policies and classifications as constants, and the detection
of an adapter. A second cancellation of one invocation, the loss of the database itself,
and a COMMIT still in flight on the server after its client died and its lock was
released are left out.

One hazard has no property: after a genuine large drop every later candidate is
suspicious against the same old baseline (`quality.py:69`), so that the source is not
collected until somebody intervenes or it grows again (`BlockedUntilItRises`). The guard
intends it, and no promise is broken.
