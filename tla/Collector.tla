------------------------------ MODULE Collector ------------------------------
(****************************************************************************)
(* The collection command of BooruRadar: any number of invocations of       *)
(* `python -m booruradar.collect <target> [--force]` over one PostgreSQL    *)
(* database.  Sources: booruradar/collect.py (run_collection and            *)
(* _collect_locked), services/snapshot_collection.py (collect) and          *)
(* services/collection_lock.py (collection_lock).                           *)
(*                                                                          *)
(* An action is what one invocation does between two awaits at which        *)
(* another process, a fault or a cancellation can be seen: one statement or *)
(* one commit.  An invocation creates at most one crawl run, so the run is  *)
(* named by its invocation.  The environment (faults, the clock, the        *)
(* operator) is enabled by the members of Environment.                      *)
(****************************************************************************)
EXTENDS Quality, FiniteSets

CONSTANTS
    Invocation,     \* executions of the command, each at most once
    Target,         \* registered targets (targets.py)
    NoOne,          \* "no session holds this advisory lock"
    NoTarget,       \* the target of an invocation that has not parsed its argv
    Counts,         \* the total_posts a source may report
    Interval,       \* MINIMUM_COLLECTION_INTERVAL
    MaxTime,        \* bound on the clock
    InitialRow,     \* the states a target's booru row may start in
    Environment     \* which faults and external events happen

Faults ==
    { "db_error",      \* a statement or commit fails and has no effect
      "lost_ack",      \* a commit takes effect and the client sees an error
      "lock_loss",     \* the lock's connection dies, the collector does not
      "cancel",        \* the asyncio task is cancelled, once
      "kill",          \* the process dies
      "cleanup_error", \* closing the client, session, lock or engine fails
      "clock_back",    \* the wall clock is stepped back
      "operator" }     \* an operator switches is_enabled

RowStatus == {"absent", "mismatched", "disabled", "enabled"}

ASSUME CollectorAssumption ==
    /\ NoOne \notin Invocation
    /\ NoTarget \notin Target
    /\ Counts \subseteq Nat
    /\ Interval \in Nat \ {0}
    /\ MaxTime \in Nat
    /\ InitialRow \subseteq RowStatus
    /\ Environment \subseteq Faults

VARIABLES
    \* in the database and its server
    holder,          \* holder[t]: the session holding t's advisory lock
    booru,           \* booru[t]: the row of t in boorus
    run,             \* run[p]: the status of p's row in crawl_runs
    started_at,      \* started_at[p]: and its start, once there is a row
    snapshots,       \* the rows of booru_snapshots
    \* in the invocations
    pc,              \* pc[p]: where invocation p is
    target,          \* its argv
    force,
    publish,         \* its decision to publish on success
    candidate,       \* {} before the inspection, {observation} after it
    outcome,         \* how it ends
    interrupted,     \* the invocations that were cancelled
    now              \* the wall clock

database == <<holder, booru, run, started_at, snapshots>>
local == <<target, force, publish, candidate>>
vars == <<database, pc, local, outcome, interrupted, now>>

Locations ==
    { "idle", "lock", "booru", "create", "latest", "begin", "inspect",
      "baseline", "commit", "fail", "reconcile", "close", "unlock", "dispose",
      "done", "dead" }

Ended == {"done", "dead"}

(* The body of `async with collection_lock(...)`, its release included.     *)
UnderLock == Locations \ ({"idle", "lock", "dispose"} \cup Ended)

(* "none": no row.  The status "pending" is only a column default.          *)
RunStatus == {"none", "running", "succeeded", "failed", "cancelled"}
Outcome == {"none", "succeeded", "skipped", "failed", "cancelled"}

Init ==
    /\ holder = [t \in Target |-> NoOne]
    /\ booru \in [Target -> InitialRow]
    /\ run = [p \in Invocation |-> "none"]
    /\ started_at = [p \in Invocation |-> 0]
    /\ snapshots = {}
    /\ pc = [p \in Invocation |-> "idle"]
    /\ target = [p \in Invocation |-> NoTarget]
    /\ force = [p \in Invocation |-> FALSE]
    /\ publish = [p \in Invocation |-> FALSE]
    /\ candidate = [p \in Invocation |-> {}]
    /\ outcome = [p \in Invocation |-> "none"]
    /\ interrupted = {}
    /\ now = 0

------------------------------------------------------------------------------
(* Helpers.                                                                 *)

Goto(p, location) == pc' = [pc EXCEPT ![p] = location]

(* p goes on to `location` and, if nothing changes it there, ends so.       *)
End(p, how, location) ==
    /\ outcome' = [outcome EXCEPT ![p] = how]
    /\ Goto(p, location)

Accepted(t) == {s \in snapshots : s.target = t}

(* Faulty variant of Latest: ascending order.                               *)
LatestAscending(t) ==
    {s \in Accepted(t) : \A other \in Accepted(t) :
        other.captured_at >= s.captured_at}

(* ORDER BY captured_at DESC, id DESC LIMIT 1: the ids are random, so any   *)
(* of the newest rows may come first.                                       *)
Latest(t) ==
    {s \in Accepted(t) : \A other \in Accepted(t) :
        other.captured_at <= s.captured_at}

HasSnapshot(p) == \E s \in snapshots : s.run = p

(* CHECK (finished_at >= started_at) of crawl_runs.                         *)
FinishAllowed(p) == now >= started_at[p]

(* The locals of a process end with it.                                     *)
EndProcess(p) ==
    /\ target' = [target EXCEPT ![p] = NoTarget]
    /\ force' = [force EXCEPT ![p] = FALSE]
    /\ publish' = [publish EXCEPT ![p] = FALSE]
    /\ candidate' = [candidate EXCEPT ![p] = {}]

(* p, at `location`, does something that leaves its arguments alone.        *)
Body(p, location) == pc[p] = location /\ UNCHANGED <<target, force, interrupted, now>>

------------------------------------------------------------------------------
(* Faulty variants of the actions below: mistakes the properties must tell  *)
(* from the code.  None of them is part of Next.                            *)

(* AcquireLock: the result of pg_try_advisory_lock is not looked at.        *)
AcquireUnchecked(p) ==
    /\ Body(p, "lock")
    /\ holder' = [holder EXCEPT ![target[p]] = p]
    /\ Goto(p, "booru")
    /\ UNCHANGED <<booru, run, started_at, snapshots, publish, candidate, outcome>>

(* CreateBooru: the row takes the column's default, is_enabled = TRUE.      *)
CreateShown(p) ==
    /\ Body(p, "create")
    /\ booru[target[p]] = "absent"
    /\ booru' = [booru EXCEPT ![target[p]] = "enabled"]
    /\ publish' = [publish EXCEPT ![p] = FALSE]
    /\ Goto(p, "latest")
    /\ UNCHANGED <<holder, run, started_at, snapshots, candidate, outcome>>

(* TooRecent: off by one.                                                   *)
TooRecentShort(s) == now - s.captured_at < Interval - 1

(* ReadLatest: publication is decided by is_enabled alone.                  *)
ReadLatestShowing(p) ==
    /\ Body(p, "latest")
    /\ force[p] \/ Latest(target[p]) = {}
    /\ Goto(p, "begin")
    /\ UNCHANGED <<database, publish, candidate, outcome>>

(* Inspect: the timestamp is not the collector's own clock.                 *)
InspectAhead(p) ==
    /\ Body(p, "inspect")
    /\ \E total \in Counts :
        candidate' = [candidate EXCEPT ![p] =
                         {[captured_at |-> now + 1, total_posts |-> total]}]
    /\ Goto(p, "baseline")
    /\ UNCHANGED <<database, publish, outcome>>

(* InspectFails: a failed inspection starts over.                           *)
InspectRetries(p) ==
    /\ Body(p, "inspect")
    /\ Goto(p, "begin")
    /\ UNCHANGED <<database, publish, candidate, outcome>>

(* InspectFails: the error leaves collect without a terminal status.        *)
InspectUnmarked(p) ==
    /\ Body(p, "inspect")
    /\ End(p, "failed", "close")
    /\ UNCHANGED <<database, publish, candidate>>

(* UnlockFails: the cleanup starts over until the release succeeds.         *)
UnlockFailsRetries(p) ==
    /\ Body(p, "unlock")
    /\ Environment \cap {"db_error", "cleanup_error"} # {}
    /\ Goto(p, "close")
    /\ UNCHANGED <<database, publish, candidate, outcome>>

(* Reconcile: the run becomes CANCELLED without a look at the snapshot.     *)
ReconcileBlindly(p) ==
    /\ Body(p, "reconcile")
    /\ FinishAllowed(p)
    /\ run' = [run EXCEPT ![p] = "cancelled"]
    /\ End(p, "cancelled", "close")
    /\ UNCHANGED <<holder, booru, started_at, snapshots, publish, candidate>>

(* CloseFails: a cleanup error overrides the outcome.                       *)
CloseOverrides(p) ==
    /\ Body(p, "close")
    /\ "cleanup_error" \in Environment
    /\ End(p, "failed", "unlock")
    /\ UNCHANGED <<database, publish, candidate>>

(* CommitFails: the success is decided before the commit.                   *)
CommitPresumed(p) ==
    /\ Body(p, "commit")
    /\ "db_error" \in Environment \/ ~ FinishAllowed(p)
    /\ End(p, "succeeded", "close")
    /\ UNCHANGED <<database, publish, candidate>>

------------------------------------------------------------------------------
(* run_collection: the arguments, then the lock.                            *)

Start(p, t, f) ==
    /\ pc[p] = "idle"
    /\ target' = [target EXCEPT ![p] = t]
    /\ force' = [force EXCEPT ![p] = f]
    /\ Goto(p, "lock")
    /\ UNCHANGED <<database, publish, candidate, outcome, interrupted, now>>

(* argparse refuses the arguments or the target is not registered.          *)
RejectArguments(p) ==
    /\ Body(p, "idle")
    /\ End(p, "failed", "done")
    /\ UNCHANGED <<database, publish, candidate>>

(* pg_try_advisory_lock on a connection of its own.                         *)
AcquireLock(p) ==
    /\ Body(p, "lock")
    /\ holder[target[p]] = NoOne
    /\ holder' = [holder EXCEPT ![target[p]] = p]
    /\ Goto(p, "booru")
    /\ UNCHANGED <<booru, run, started_at, snapshots, publish, candidate, outcome>>

SkipInProgress(p) ==
    /\ Body(p, "lock")
    /\ holder[target[p]] # NoOne
    /\ End(p, "skipped", "dispose")
    /\ UNCHANGED <<database, publish, candidate>>

(* Connecting or the statement fails; or the lock is granted and the commit *)
(* after it fails, and the lock is released as after a failed body.         *)
LockFails(p) ==
    /\ Body(p, "lock")
    /\ "db_error" \in Environment
    /\ \/ End(p, "failed", "dispose") /\ UNCHANGED holder
       \/ /\ holder[target[p]] = NoOne
          /\ holder' = [holder EXCEPT ![target[p]] = p]
          /\ End(p, "failed", "unlock")
    /\ UNCHANGED <<booru, run, started_at, snapshots, publish, candidate>>

------------------------------------------------------------------------------
(* _collect_locked: the booru row, the interval, the publication decision.  *)

(* The row is read once: is_enabled is not refreshed before it is used.     *)
FindBooru(p) ==
    /\ Body(p, "booru")
    /\ booru[target[p]] \in {"disabled", "enabled"}
    /\ publish' = [publish EXCEPT ![p] = (booru[target[p]] = "disabled")]
    /\ Goto(p, "latest")
    /\ UNCHANGED <<database, candidate, outcome>>

(* The row's adapter family or name is not the target's.                    *)
RejectMismatch(p) ==
    /\ Body(p, "booru")
    /\ booru[target[p]] = "mismatched"
    /\ End(p, "failed", "close")
    /\ UNCHANGED <<database, publish, candidate>>

MissBooru(p) ==
    /\ Body(p, "booru")
    /\ booru[target[p]] = "absent"
    /\ Goto(p, "create")
    /\ UNCHANGED <<database, publish, candidate, outcome>>

CreateBooru(p) ==
    /\ Body(p, "create")
    /\ booru[target[p]] = "absent"
    /\ booru' = [booru EXCEPT ![target[p]] = "disabled"]
    /\ publish' = [publish EXCEPT ![p] = TRUE]
    /\ Goto(p, "latest")
    /\ UNCHANGED <<holder, run, started_at, snapshots, candidate, outcome>>

(* canonical_url is unique: the insert fails if the row has appeared.       *)
CreateConflict(p) ==
    /\ Body(p, "create")
    /\ booru[target[p]] # "absent"
    /\ End(p, "failed", "close")
    /\ UNCHANGED <<database, publish, candidate>>

CreateAckLost(p) ==
    /\ Body(p, "create")
    /\ "lost_ack" \in Environment
    /\ booru[target[p]] = "absent"
    /\ booru' = [booru EXCEPT ![target[p]] = "disabled"]
    /\ End(p, "failed", "close")
    /\ UNCHANGED <<holder, run, started_at, snapshots, publish, candidate>>

TooRecent(s) == now - s.captured_at < Interval

SkipRecent(p) ==
    /\ Body(p, "latest")
    /\ ~ force[p]
    /\ \E s \in Latest(target[p]) : TooRecent(s)
    /\ End(p, "skipped", "close")
    /\ UNCHANGED <<database, publish, candidate>>

(* Publication: is_enabled was FALSE and there is no snapshot.              *)
ReadLatest(p) ==
    /\ Body(p, "latest")
    /\ \/ Latest(target[p]) = {}
       \/ force[p]
       \/ \E s \in Latest(target[p]) : ~ TooRecent(s)
    /\ publish' = [publish EXCEPT ![p] = @ /\ Latest(target[p]) = {}]
    /\ Goto(p, "begin")
    /\ UNCHANGED <<database, candidate, outcome>>

(* A failed statement ends the body with its error.                         *)
QueryFails(p) ==
    /\ "db_error" \in Environment
    /\ \E location \in {"booru", "create", "latest", "begin"} : Body(p, location)
    /\ End(p, "failed", "close")
    /\ UNCHANGED <<database, publish, candidate>>

------------------------------------------------------------------------------
(* SnapshotCollectionService.collect.                                       *)

(* The RUNNING row is committed before the first request.                   *)
BeginRun(p) ==
    /\ Body(p, "begin")
    /\ run' = [run EXCEPT ![p] = "running"]
    /\ started_at' = [started_at EXCEPT ![p] = now]
    /\ Goto(p, "inspect")
    /\ UNCHANGED <<holder, booru, snapshots, publish, candidate, outcome>>

BeginAckLost(p) ==
    /\ Body(p, "begin")
    /\ "lost_ack" \in Environment
    /\ run' = [run EXCEPT ![p] = "running"]
    /\ started_at' = [started_at EXCEPT ![p] = now]
    /\ End(p, "failed", "close")
    /\ UNCHANGED <<holder, booru, snapshots, publish, candidate>>

(* The inspection: a valid candidate, stamped when its statistics came.     *)
Inspect(p) ==
    /\ Body(p, "inspect")
    /\ \E total \in Counts :
        candidate' = [candidate EXCEPT ![p] =
                         {[captured_at |-> now, total_posts |-> total]}]
    /\ Goto(p, "baseline")
    /\ UNCHANGED <<database, publish, outcome>>

(* HTTP error, timeout, blocked source, malformed or hard-invalid response. *)
InspectFails(p) ==
    /\ Body(p, "inspect")
    /\ Goto(p, "fail")
    /\ UNCHANGED <<database, publish, candidate, outcome>>

(* The newest accepted total, read anew, against the candidate.             *)
PassBaseline(p) ==
    /\ Body(p, "baseline")
    /\ \/ Latest(target[p]) = {}
       \/ \E s \in Latest(target[p]), c \in candidate[p] :
            ~ Suspicious(s.total_posts, c.total_posts)
    /\ Goto(p, "commit")
    /\ UNCHANGED <<database, publish, candidate, outcome>>

BlockSuspicious(p) ==
    /\ Body(p, "baseline")
    /\ \E s \in Latest(target[p]), c \in candidate[p] :
        Suspicious(s.total_posts, c.total_posts)
    /\ Goto(p, "fail")
    /\ UNCHANGED <<database, publish, candidate, outcome>>

BaselineFails(p) ==
    /\ Body(p, "baseline")
    /\ "db_error" \in Environment
    /\ Goto(p, "fail")
    /\ UNCHANGED <<database, publish, candidate, outcome>>

(* The effect of the final commit: snapshot, SUCCEEDED and publication.     *)
AcceptCandidate(p) ==
    /\ FinishAllowed(p)
    /\ run' = [run EXCEPT ![p] = "succeeded"]
    /\ \E c \in candidate[p] :
        snapshots' = snapshots \cup
            {[run |-> p, target |-> target[p],
              captured_at |-> c.captured_at, total_posts |-> c.total_posts]}
    /\ booru' = [booru EXCEPT ![target[p]] = IF publish[p] THEN "enabled" ELSE @]
    /\ UNCHANGED <<holder, started_at>>

CommitSnapshot(p) ==
    /\ Body(p, "commit")
    /\ AcceptCandidate(p)
    /\ End(p, "succeeded", "close")
    /\ UNCHANGED <<publish, candidate>>

(* The commit is refused or fails: every part of it is rolled back.         *)
CommitFails(p) ==
    /\ Body(p, "commit")
    /\ "db_error" \in Environment \/ ~ FinishAllowed(p)
    /\ Goto(p, "fail")
    /\ UNCHANGED <<database, publish, candidate, outcome>>

CommitAckLost(p) ==
    /\ Body(p, "commit")
    /\ "lost_ack" \in Environment
    /\ AcceptCandidate(p)
    /\ Goto(p, "fail")
    /\ UNCHANGED <<publish, candidate, outcome>>

(* `except Exception`: the reloaded run becomes FAILED, whatever it was.    *)
MarkFailed(p) ==
    /\ Body(p, "fail")
    /\ FinishAllowed(p)
    /\ run' = [run EXCEPT ![p] = "failed"]
    /\ End(p, "failed", "close")
    /\ UNCHANGED <<holder, booru, started_at, snapshots, publish, candidate>>

(* That commit fails too: the original error or this one ends the body.     *)
MarkFailedFails(p) ==
    /\ Body(p, "fail")
    /\ "db_error" \in Environment \/ ~ FinishAllowed(p)
    /\ End(p, "failed", "close")
    /\ UNCHANGED <<database, publish, candidate>>

(* `except CancelledError`: an accepted snapshot keeps its SUCCEEDED run.   *)
Reconcile(p) ==
    /\ Body(p, "reconcile")
    /\ HasSnapshot(p) \/ FinishAllowed(p)
    /\ run' = [run EXCEPT ![p] = IF HasSnapshot(p) THEN @ ELSE "cancelled"]
    /\ End(p, "cancelled", "close")
    /\ UNCHANGED <<holder, booru, started_at, snapshots, publish, candidate>>

(* An error here replaces the CancelledError: the body fails.               *)
ReconcileFails(p) ==
    /\ Body(p, "reconcile")
    /\ \/ "db_error" \in Environment
       \/ ~ HasSnapshot(p) /\ ~ FinishAllowed(p)
    /\ End(p, "failed", "close")
    /\ UNCHANGED <<database, publish, candidate>>

------------------------------------------------------------------------------
(* Leaving: client and session, lock, engine.                               *)

Close(p) ==
    /\ Body(p, "close")
    /\ Goto(p, "unlock")
    /\ UNCHANGED <<database, publish, candidate, outcome>>

(* After a result this only warns; otherwise the new error is the failure.  *)
CloseFails(p) ==
    /\ Body(p, "close")
    /\ "cleanup_error" \in Environment
    /\ \/ outcome[p] \in {"succeeded", "skipped"} /\ Goto(p, "unlock") /\ UNCHANGED outcome
       \/ outcome[p] \notin {"succeeded", "skipped"} /\ End(p, "failed", "unlock")
    /\ UNCHANGED <<database, publish, candidate>>

Unlock(p) ==
    /\ Body(p, "unlock")
    /\ holder[target[p]] = p
    /\ holder' = [holder EXCEPT ![target[p]] = NoOne]
    /\ Goto(p, "dispose")
    /\ UNCHANGED <<booru, run, started_at, snapshots, publish, candidate, outcome>>

(* The lock is not held, the statement fails or the commit after it does:   *)
(* the connection is closed.  The error is dropped after a failed body and  *)
(* only warns after an outcome.                                             *)
UnlockFails(p) ==
    /\ Body(p, "unlock")
    /\ \/ holder[target[p]] # p /\ UNCHANGED holder
       \/ /\ holder[target[p]] = p
          /\ Environment \cap {"db_error", "cleanup_error"} # {}
          /\ \/ UNCHANGED holder
             \/ holder' = [holder EXCEPT ![target[p]] = NoOne]
    /\ Goto(p, "dispose")
    /\ UNCHANGED <<booru, run, started_at, snapshots, publish, candidate, outcome>>

(* Disposing of the engine may fail: that only warns.                       *)
Dispose(p) ==
    /\ pc[p] = "dispose"
    /\ Goto(p, "done")
    /\ EndProcess(p)
    /\ UNCHANGED <<database, outcome, interrupted, now>>

------------------------------------------------------------------------------
(* Cancellation (once per invocation).  psycopg waits for the statement in  *)
(* flight, so a cancelled commit has or has not taken effect by the time    *)
(* the handler runs.                                                        *)

CancelBody(p) ==
    /\ pc[p] \in {"booru", "create", "latest", "begin"}
    /\ \/ UNCHANGED <<booru, run, started_at>>
       \/ /\ pc[p] = "create" /\ booru[target[p]] = "absent"
          /\ booru' = [booru EXCEPT ![target[p]] = "disabled"]
          /\ UNCHANGED <<run, started_at>>
       \/ /\ pc[p] = "begin"
          /\ run' = [run EXCEPT ![p] = "running"]
          /\ started_at' = [started_at EXCEPT ![p] = now]
          /\ UNCHANGED booru
    /\ End(p, "cancelled", "close")
    /\ UNCHANGED <<holder, snapshots>>

CancelCollect(p) ==
    /\ pc[p] \in {"inspect", "baseline", "commit"}
    /\ \/ UNCHANGED database
       \/ pc[p] = "commit" /\ AcceptCandidate(p)
    /\ Goto(p, "reconcile")
    /\ UNCHANGED outcome

CancelRecovery(p) ==
    /\ pc[p] = "fail"
    /\ \/ UNCHANGED run
       \/ FinishAllowed(p) /\ run' = [run EXCEPT ![p] = "failed"]
    /\ End(p, "cancelled", "close")
    /\ UNCHANGED <<holder, booru, started_at, snapshots>>

(* A lock granted to a statement that was cancelled is not unlocked: it     *)
(* goes with its connection.  At the release a cancellation closes the      *)
(* connection and is swallowed if the body had failed.                      *)
CancelLocking(p) ==
    /\ \/ /\ pc[p] = "lock"
          /\ \/ End(p, "cancelled", "dispose") /\ UNCHANGED holder
             \/ /\ holder[target[p]] = NoOne
                /\ holder' = [holder EXCEPT ![target[p]] = p]
                /\ \E location \in {"unlock", "dispose"} : End(p, "cancelled", location)
       \/ pc[p] = "close" /\ End(p, "cancelled", "unlock") /\ UNCHANGED holder
       \/ /\ pc[p] = "unlock"
          /\ \/ UNCHANGED holder
             \/ /\ holder[target[p]] = p
                /\ holder' = [holder EXCEPT ![target[p]] = NoOne]
          /\ End(p, IF outcome[p] = "failed" THEN "failed" ELSE "cancelled", "dispose")
    /\ UNCHANGED <<booru, run, started_at, snapshots>>

CancelDispose(p) ==
    /\ pc[p] = "dispose"
    /\ End(p, "cancelled", "done")
    /\ EndProcess(p)
    /\ UNCHANGED database

Cancel(p) ==
    /\ "cancel" \in Environment
    /\ p \notin interrupted
    /\ interrupted' = interrupted \cup {p}
    /\ \/ /\ CancelBody(p) \/ CancelCollect(p) \/ CancelRecovery(p) \/ CancelLocking(p)
          /\ UNCHANGED local
       \/ CancelDispose(p)
    /\ UNCHANGED now

------------------------------------------------------------------------------
(* The rest of the world.                                                   *)

Kill(p) ==
    /\ "kill" \in Environment
    /\ pc[p] \notin {"idle"} \cup Ended
    /\ Goto(p, "dead")
    /\ EndProcess(p)
    /\ UNCHANGED <<database, outcome, interrupted, now>>

(* The server releases the lock of a session whose connection is closed.    *)
Reap(t) ==
    /\ \E p \in Invocation : holder[t] = p /\ pc[p] \in Ended
    /\ holder' = [holder EXCEPT ![t] = NoOne]
    /\ UNCHANGED <<booru, run, started_at, snapshots, pc, local, outcome, interrupted, now>>

LoseLock(p) ==
    /\ "lock_loss" \in Environment
    /\ pc[p] \in UnderLock
    /\ holder[target[p]] = p
    /\ holder' = [holder EXCEPT ![target[p]] = NoOne]
    /\ UNCHANGED <<booru, run, started_at, snapshots, pc, local, outcome, interrupted, now>>

OperatorSwitch(t) ==
    /\ "operator" \in Environment
    /\ booru[t] \in {"enabled", "disabled"}
    /\ booru' = [booru EXCEPT ![t] = IF @ = "enabled" THEN "disabled" ELSE "enabled"]
    /\ UNCHANGED <<holder, run, started_at, snapshots, pc, local, outcome, interrupted, now>>

Clock ==
    /\ \/ now < MaxTime /\ now' = now + 1
       \/ "clock_back" \in Environment /\ now > 0 /\ now' = now - 1
    /\ UNCHANGED <<database, pc, local, outcome, interrupted>>

------------------------------------------------------------------------------

Locking(p) == AcquireLock(p) \/ SkipInProgress(p) \/ LockFails(p)

Preparing(p) ==
    \/ FindBooru(p) \/ RejectMismatch(p) \/ MissBooru(p)
    \/ CreateBooru(p) \/ CreateConflict(p) \/ CreateAckLost(p)
    \/ SkipRecent(p) \/ ReadLatest(p) \/ QueryFails(p)

Collecting(p) ==
    \/ BeginRun(p) \/ BeginAckLost(p)
    \/ Inspect(p) \/ InspectFails(p)
    \/ PassBaseline(p) \/ BlockSuspicious(p) \/ BaselineFails(p)
    \/ CommitSnapshot(p) \/ CommitFails(p) \/ CommitAckLost(p)
    \/ MarkFailed(p) \/ MarkFailedFails(p)
    \/ Reconcile(p) \/ ReconcileFails(p)

Leaving(p) == Close(p) \/ CloseFails(p) \/ Unlock(p) \/ UnlockFails(p) \/ Dispose(p)

(* What a started invocation does by itself.                                *)
Step(p) == Locking(p) \/ Preparing(p) \/ Collecting(p) \/ Leaving(p)

Next ==
    \/ \E p \in Invocation :
        \/ \E t \in Target, f \in BOOLEAN : Start(p, t, f)
        \/ RejectArguments(p)
        \/ Step(p)
        \/ Cancel(p) \/ Kill(p) \/ LoseLock(p)
    \/ \E t \in Target : Reap(t) \/ OperatorSwitch(t)
    \/ Clock

Spec == Init /\ [][Next]_vars

(* Every await of a live invocation returns (the HTTP client has a timeout, *)
(* statements return or fail), and the server notices a closed connection.  *)
(* Nothing is assumed of Start, of the faults or of the clock.              *)
Fairness ==
    /\ \A p \in Invocation : WF_vars(Step(p))
    /\ \A t \in Target : WF_vars(Reap(t))

FairSpec == Spec /\ Fairness

------------------------------------------------------------------------------
(* Properties.                                                              *)

Observation == [captured_at : 0 .. MaxTime, total_posts : Counts]

SnapshotRow ==
    [run : Invocation, target : Target, captured_at : 0 .. MaxTime, total_posts : Counts]

(* Every variable has its type, and a working invocation has a target.      *)
TypeOK ==
    /\ holder \in [Target -> Invocation \cup {NoOne}]
    /\ booru \in [Target -> RowStatus]
    /\ run \in [Invocation -> RunStatus]
    /\ started_at \in [Invocation -> 0 .. MaxTime]
    /\ snapshots \subseteq SnapshotRow
    /\ pc \in [Invocation -> Locations]
    /\ target \in [Invocation -> Target \cup {NoTarget}]
    /\ \A p \in Invocation : pc[p] \in Locations \ (Ended \cup {"idle"}) => target[p] \in Target
    /\ force \in [Invocation -> BOOLEAN]
    /\ publish \in [Invocation -> BOOLEAN]
    /\ candidate \in [Invocation -> SUBSET Observation]
    /\ outcome \in [Invocation -> Outcome]
    /\ interrupted \subseteq Invocation
    /\ now \in 0 .. MaxTime

(* Two collectors of one target are never inside the lock together          *)
(* (collection_lock around _collect_locked).                                *)
OneCollectorPerTarget ==
    \A p, q \in Invocation :
        /\ pc[p] \in UnderLock
        /\ pc[q] \in UnderLock
        /\ target[p] = target[q]
        => p = q

(* An accepted snapshot and the SUCCEEDED status of its run exist together  *)
(* or not at all, through every commit, failure and cancellation path of    *)
(* SnapshotCollectionService.collect; and a run has at most one snapshot.   *)
SnapshotIffSucceeded ==
    /\ \A p \in Invocation : HasSnapshot(p) <=> run[p] = "succeeded"
    /\ \A s, s2 \in snapshots : s.run = s2.run => s = s2

(* What the command tells its caller: COLLECTION=FAILED without a           *)
(* cancellation means no snapshot, COLLECTION=SUCCEEDED means one, and      *)
(* COLLECTION=SKIPPED means that there was not even a crawl run.  Cleanup   *)
(* errors after the outcome (run_collection) change none of this.           *)
ReportIsTrue ==
    \A p \in Invocation : pc[p] = "done" =>
        /\ outcome[p] = "failed" /\ p \notin interrupted => ~ HasSnapshot(p)
        /\ outcome[p] = "succeeded" => HasSnapshot(p)
        /\ outcome[p] = "skipped" => run[p] = "none"

(* What is left of the two when an acknowledgement is lost, too: the only   *)
(* other status that a run with a snapshot can have is FAILED, a SUCCEEDED  *)
(* run has one, and what is reported as SUCCEEDED or SKIPPED is so.         *)
SuccessIsTrue ==
    /\ \A p \in Invocation : run[p] = "succeeded" => HasSnapshot(p)
    /\ \A s \in snapshots : run[s.run] \in {"succeeded", "failed"}
    /\ \A s, s2 \in snapshots : s.run = s2.run => s = s2
    /\ \A p \in Invocation : pc[p] = "done" =>
        /\ outcome[p] = "succeeded" => run[p] = "succeeded"
        /\ outcome[p] = "skipped" => run[p] = "none"

(* A RUNNING row is left behind only by a killed process or a cancelled     *)
(* one (collect's two commits and their handlers), if the database works    *)
(* and the clock runs forward.                                              *)
StrandedRunIsExplained ==
    \A p \in Invocation :
        run[p] = "running" /\ pc[p] = "done" => p \in interrupted

(* A row that a collector created is shown exactly when its target has an   *)
(* accepted snapshot: publication and first acceptance are one commit.      *)
PublishedIffAccepted ==
    \A t \in Target : booru[t] = "enabled" <=> Accepted(t) # {}

(* A terminal run keeps its status: no handler of collect rewrites a run    *)
(* that another commit has already finished.                                *)
RunStatusIsFinal ==
    [][\A p \in Invocation :
        run[p] \in {"succeeded", "failed", "cancelled"} => run'[p] = run[p]]_vars

(* Without --force, an accepted observation comes at least the minimum      *)
(* interval after every earlier one, although the interval was judged       *)
(* several awaits before the commit (_collect_locked).                      *)
UnforcedSpacing ==
    [][\A s \in snapshots' \ snapshots :
        ~ force[s.run] => \A earlier \in Accepted(s.target) :
                              s.captured_at - earlier.captured_at >= Interval]_vars

(* Only the operator, or a commit that stores the first snapshot of the     *)
(* target, shows a hidden source: a source that was switched off after it   *)
(* had history stays off (publish_on_success, read before the requests).    *)
ShownOnlyByFirstSnapshot ==
    [][\A t \in Target :
        /\ booru[t] # "enabled"
        /\ booru'[t] = "enabled"
        /\ ~ OperatorSwitch(t)
        => Accepted(t) = {} /\ Accepted(t)' # {}]_vars

(* The abstract history: what the accepted rows amount to.                  *)
Abstract == INSTANCE History WITH
    Run <- Invocation,
    Instant <- 0 .. MaxTime,
    Total <- Counts,
    Operator <- "operator" \in Environment,
    history <- [t \in Target |-> Accepted(t)],
    published <- {t \in Target : booru[t] = "enabled"}

(* The collector implements the append-only history of History.tla: one     *)
(* whole observation at a time, plausible against the newest one at the     *)
(* moment of its commit, however old the baseline query is by then.         *)
ImplementsHistory == Abstract!Spec

(* An invocation that has started ends.                                     *)
InvocationsEnd ==
    \A p \in Invocation : pc[p] = "lock" ~> pc[p] \in Ended

(* A target's lock is not held for ever by the same session: the release,   *)
(* the closed connection or the server frees it.                            *)
LockIsFreed ==
    \A p \in Invocation, t \in Target : holder[t] = p ~> holder[t] # p

==============================================================================
