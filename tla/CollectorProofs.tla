--------------------------- MODULE CollectorProofs ---------------------------
(****************************************************************************)
(* Theorems about Collector.tla, for every set of invocations and targets,  *)
(* every clock bound and every threshold.                                   *)
(****************************************************************************)
EXTENDS Collector, TLAPS

USE DEF database, local, Goto, End, Body, EndProcess

------------------------------------------------------------------------------
(* Type correctness.                                                        *)

(* Every state in which the command can find the database has its type.     *)
LEMMA TypeInit == Init => TypeOK
<1> SUFFICES ASSUME Init PROVE TypeOK
  OBVIOUS
<1>1. booru \in [Target -> RowStatus]
  BY CollectorAssumption, InitialRow \subseteq RowStatus DEF Init
<1>2. candidate \in [Invocation -> SUBSET Observation] /\ snapshots \subseteq SnapshotRow
  BY DEF Init
<1>3. pc \in [Invocation -> Locations] /\ \A p \in Invocation : pc[p] = "idle"
  BY DEF Init, Locations
<1> QED
  BY <1>1, <1>2, <1>3, CollectorAssumption DEF Init, TypeOK, RunStatus, Outcome

(* Type correctness is inductive under the steps of run_collection and      *)
(* _collect_locked.                                                         *)
LEMMA TypePreparing ==
    ASSUME TypeOK, NEW p \in Invocation, Locking(p) \/ Preparing(p)
    PROVE  TypeOK'
<1> USE CollectorAssumption DEF TypeOK, RowStatus, RunStatus, Outcome, Locations, Ended
<1>1. CASE AcquireLock(p)
  BY <1>1 DEF AcquireLock
<1>2. CASE SkipInProgress(p)
  BY <1>2 DEF SkipInProgress
<1>3. CASE LockFails(p)
  BY <1>3 DEF LockFails
<1>4. CASE FindBooru(p)
  BY <1>4 DEF FindBooru
<1>5. CASE RejectMismatch(p)
  BY <1>5 DEF RejectMismatch
<1>6. CASE MissBooru(p)
  BY <1>6 DEF MissBooru
<1>7. CASE CreateBooru(p)
  BY <1>7 DEF CreateBooru
<1>8. CASE CreateConflict(p)
  BY <1>8 DEF CreateConflict
<1>9. CASE CreateAckLost(p)
  BY <1>9 DEF CreateAckLost
<1>10. CASE SkipRecent(p)
  BY <1>10 DEF SkipRecent
<1>11. CASE ReadLatest(p)
  BY <1>11 DEF ReadLatest
<1>12. CASE QueryFails(p)
  BY <1>12 DEF QueryFails
<1> QED
  BY <1>1, <1>2, <1>3, <1>4, <1>5, <1>6, <1>7, <1>8, <1>9, <1>10, <1>11, <1>12
     DEF Locking, Preparing

(* ... of SnapshotCollectionService.collect. *)
LEMMA TypeCollecting ==
    ASSUME TypeOK, NEW p \in Invocation, Collecting(p)
    PROVE  TypeOK'
<1> USE CollectorAssumption DEF TypeOK, RowStatus, RunStatus, Outcome, Locations, Ended
<1>1. CASE BeginRun(p)
  BY <1>1 DEF BeginRun
<1>2. CASE BeginAckLost(p)
  BY <1>2 DEF BeginAckLost
<1>3. CASE Inspect(p)
  <2>1. PICK total \in Counts :
            candidate' = [candidate EXCEPT ![p] =
                             {[captured_at |-> now, total_posts |-> total]}]
    BY <1>3 DEF Inspect
  <2>2. [captured_at |-> now, total_posts |-> total] \in Observation
    BY DEF Observation
  <2>3. candidate' \in [Invocation -> SUBSET Observation]
    BY <2>1, <2>2
  <2> QED
    BY <1>3, <2>3 DEF Inspect
<1>4. CASE InspectFails(p)
  BY <1>4 DEF InspectFails
<1>5. CASE PassBaseline(p)
  BY <1>5 DEF PassBaseline
<1>6. CASE BlockSuspicious(p)
  BY <1>6 DEF BlockSuspicious
<1>7. CASE BaselineFails(p)
  BY <1>7 DEF BaselineFails
<1>8. CASE CommitSnapshot(p)
  BY <1>8 DEF CommitSnapshot, AcceptCandidate, SnapshotRow, Observation
<1>9. CASE CommitFails(p)
  BY <1>9 DEF CommitFails
<1>10. CASE CommitAckLost(p)
  BY <1>10 DEF CommitAckLost, AcceptCandidate, SnapshotRow, Observation
<1>11. CASE MarkFailed(p)
  BY <1>11 DEF MarkFailed
<1>12. CASE MarkFailedFails(p)
  BY <1>12 DEF MarkFailedFails
<1>13. CASE Reconcile(p)
  BY <1>13 DEF Reconcile
<1>14. CASE ReconcileFails(p)
  BY <1>14 DEF ReconcileFails
<1> QED
  BY <1>1, <1>2, <1>3, <1>4, <1>5, <1>6, <1>7, <1>8, <1>9, <1>10, <1>11, <1>12, <1>13, <1>14
     DEF Collecting

(* ... of the ways out. *)
LEMMA TypeLeaving ==
    ASSUME TypeOK, NEW p \in Invocation, Leaving(p)
    PROVE  TypeOK'
<1> USE CollectorAssumption DEF TypeOK, RowStatus, RunStatus, Outcome, Locations, Ended
<1>1. CASE Close(p)
  BY <1>1 DEF Close
<1>2. CASE CloseFails(p)
  BY <1>2 DEF CloseFails
<1>3. CASE Unlock(p)
  BY <1>3 DEF Unlock
<1>4. CASE UnlockFails(p)
  BY <1>4 DEF UnlockFails
<1>5. CASE Dispose(p)
  BY <1>5 DEF Dispose
<1> QED
  BY <1>1, <1>2, <1>3, <1>4, <1>5
     DEF Leaving

(* ... and of a cancellation, wherever it arrives.                          *)
LEMMA TypeCancel ==
    ASSUME TypeOK, NEW p \in Invocation, Cancel(p)
    PROVE  TypeOK'
<1> USE CollectorAssumption DEF TypeOK, RowStatus, RunStatus, Outcome, Locations, Ended
<1>1. CASE CancelBody(p) /\ UNCHANGED local
  BY <1>1 DEF Cancel, CancelBody
<1>2. CASE CancelCollect(p) /\ UNCHANGED local
  <2>1. CASE UNCHANGED database
    BY <1>2, <2>1 DEF Cancel, CancelCollect
  <2>2. CASE AcceptCandidate(p)
    BY <1>2, <2>2 DEF Cancel, CancelCollect, AcceptCandidate, SnapshotRow, Observation
  <2> QED
    BY <1>2, <2>1, <2>2 DEF CancelCollect
<1>3. CASE CancelRecovery(p) /\ UNCHANGED local
  BY <1>3 DEF Cancel, CancelRecovery
<1>4. CASE CancelLocking(p) /\ UNCHANGED local
  BY <1>4 DEF Cancel, CancelLocking
<1>5. CASE CancelDispose(p)
  BY <1>5 DEF Cancel, CancelDispose
<1> QED
  BY <1>1, <1>2, <1>3, <1>4, <1>5 DEF Cancel

(* Every step preserves type correctness.                                   *)
LEMMA TypeNext == TypeOK /\ [Next]_vars => TypeOK'
<1> SUFFICES ASSUME TypeOK, [Next]_vars PROVE TypeOK'
  OBVIOUS
<1>1. ASSUME NEW p \in Invocation, NEW t \in Target, NEW f \in BOOLEAN, Start(p, t, f)
      PROVE  TypeOK'
  BY <1>1 DEF Start, TypeOK, Locations, Ended
<1>2. ASSUME NEW p \in Invocation, RejectArguments(p) PROVE TypeOK'
  BY <1>2 DEF RejectArguments, TypeOK, Locations, Ended, Outcome
<1>3. ASSUME NEW p \in Invocation, Step(p) PROVE TypeOK'
  BY <1>3, TypePreparing, TypeCollecting, TypeLeaving DEF Step
<1>4. ASSUME NEW p \in Invocation, Cancel(p) PROVE TypeOK'
  BY <1>4, TypeCancel
<1>5. ASSUME NEW p \in Invocation, Kill(p) PROVE TypeOK'
  BY <1>5 DEF Kill, TypeOK, Locations, Ended
<1>6. ASSUME NEW p \in Invocation, LoseLock(p) PROVE TypeOK'
  BY <1>6 DEF LoseLock, TypeOK
<1>7. ASSUME NEW t \in Target, Reap(t) PROVE TypeOK'
  BY <1>7 DEF Reap, TypeOK
<1>8. ASSUME NEW t \in Target, OperatorSwitch(t) PROVE TypeOK'
  BY <1>8 DEF OperatorSwitch, TypeOK, RowStatus
<1>9. CASE Clock
  BY <1>9, CollectorAssumption DEF Clock, TypeOK
<1>10. CASE UNCHANGED vars
  BY <1>10 DEF vars, TypeOK
<1> QED
  BY <1>1, <1>2, <1>3, <1>4, <1>5, <1>6, <1>7, <1>8, <1>9, <1>10 DEF Next

(* The variables of Collector.tla always have their types.                  *)
THEOREM TypeCorrectness == Spec => []TypeOK
<1>1. Init => TypeOK
  BY TypeInit
<1>2. TypeOK /\ [Next]_vars => TypeOK'
  BY TypeNext
<1> QED
  BY <1>1, <1>2, PTL DEF Spec

------------------------------------------------------------------------------
(* What a step leaves alone.                                                *)

(* The steps that belong to invocation p.                                   *)
Moves(p) ==
    \/ \E t \in Target, f \in BOOLEAN : Start(p, t, f)
    \/ RejectArguments(p) \/ Step(p) \/ Cancel(p) \/ Kill(p) \/ LoseLock(p)

(* Nothing of invocation q changes, neither its locals nor its crawl run.   *)
Same(q) ==
    /\ pc'[q] = pc[q]
    /\ run'[q] = run[q]
    /\ started_at'[q] = started_at[q]
    /\ target'[q] = target[q]
    /\ force'[q] = force[q]
    /\ publish'[q] = publish[q]
    /\ candidate'[q] = candidate[q]
    /\ outcome'[q] = outcome[q]
    /\ (q \in interrupted' <=> q \in interrupted)

(* No invocation touches another one's locals or crawl run.                 *)
LEMMA Frame ==
    ASSUME TypeOK, NEW p \in Invocation, Moves(p), NEW q \in Invocation, q # p
    PROVE  Same(q)
<1> USE DEF TypeOK, Same
<1>1. CASE \E t \in Target, f \in BOOLEAN : Start(p, t, f)
  BY <1>1 DEF Start
<1>2. CASE RejectArguments(p)
  BY <1>2 DEF RejectArguments
<1>3. CASE Locking(p) \/ Preparing(p)
  BY <1>3
  DEF Locking, Preparing, AcquireLock, SkipInProgress, LockFails, FindBooru,
          RejectMismatch, MissBooru, CreateBooru, CreateConflict,
          CreateAckLost, SkipRecent, ReadLatest, QueryFails
<1>4. CASE Collecting(p)
  BY <1>4
  DEF Collecting, BeginRun, BeginAckLost, Inspect, InspectFails, PassBaseline,
          BlockSuspicious, BaselineFails, CommitSnapshot, CommitFails,
          CommitAckLost, MarkFailed, MarkFailedFails, Reconcile,
          ReconcileFails, AcceptCandidate
<1>5. CASE Leaving(p)
  BY <1>5 DEF Leaving, Close, CloseFails, Unlock, UnlockFails, Dispose
<1>6. CASE Cancel(p)
  BY <1>6 DEF Cancel, CancelBody, CancelCollect, CancelRecovery, CancelLocking,
          CancelDispose, AcceptCandidate
<1>7. CASE Kill(p)
  BY <1>7 DEF Kill
<1>8. CASE LoseLock(p)
  BY <1>8 DEF LoseLock
<1> QED
  BY <1>1, <1>2, <1>3, <1>4, <1>5, <1>6, <1>7, <1>8 DEF Moves, Step

(* A lock changes hands only between nobody and the invocation that moves.  *)
LEMMA LockSteps ==
    ASSUME TypeOK, NEW p \in Invocation, Moves(p), NEW u \in Target, holder'[u] # holder[u]
    PROVE  u = target[p] /\ holder[u] \in {NoOne, p}
<1> USE DEF TypeOK
<1>1. CASE \E t \in Target, f \in BOOLEAN : Start(p, t, f)
  BY <1>1 DEF Start
<1>2. CASE RejectArguments(p)
  BY <1>2 DEF RejectArguments
<1>3. CASE Locking(p) \/ Preparing(p)
  BY <1>3
  DEF Locking, Preparing, AcquireLock, SkipInProgress, LockFails, FindBooru,
          RejectMismatch, MissBooru, CreateBooru, CreateConflict,
          CreateAckLost, SkipRecent, ReadLatest, QueryFails
<1>4. CASE Collecting(p)
  BY <1>4
  DEF Collecting, BeginRun, BeginAckLost, Inspect, InspectFails, PassBaseline,
          BlockSuspicious, BaselineFails, CommitSnapshot, CommitFails,
          CommitAckLost, MarkFailed, MarkFailedFails, Reconcile,
          ReconcileFails, AcceptCandidate
<1>5. CASE Leaving(p)
  BY <1>5 DEF Leaving, Close, CloseFails, Unlock, UnlockFails, Dispose
<1>6. CASE Cancel(p)
  BY <1>6 DEF Cancel, CancelBody, CancelCollect, CancelRecovery, CancelLocking,
          CancelDispose, AcceptCandidate
<1>7. CASE Kill(p)
  BY <1>7 DEF Kill
<1>8. CASE LoseLock(p)
  BY <1>8 DEF LoseLock
<1> QED
  BY <1>1, <1>2, <1>3, <1>4, <1>5, <1>6, <1>7, <1>8 DEF Moves, Step

(* Rows enter booru_snapshots, and sources are shown, by one effect only.   *)
LEMMA HistorySteps ==
    ASSUME TypeOK, NEW p \in Invocation, Moves(p)
    PROVE  \/ pc[p] = "commit" /\ AcceptCandidate(p)
           \/ /\ snapshots' = snapshots
              /\ \A t \in Target : booru'[t] = "enabled" <=> booru[t] = "enabled"
<1> USE DEF TypeOK
<1>1. CASE \E t \in Target, f \in BOOLEAN : Start(p, t, f)
  BY <1>1 DEF Start
<1>2. CASE RejectArguments(p)
  BY <1>2 DEF RejectArguments
<1>3. CASE Locking(p) \/ Preparing(p)
  BY <1>3
  DEF Locking, Preparing, AcquireLock, SkipInProgress, LockFails, FindBooru,
          RejectMismatch, MissBooru, CreateBooru, CreateConflict,
          CreateAckLost, SkipRecent, ReadLatest, QueryFails
<1>4. CASE Collecting(p)
  BY <1>4
  DEF Collecting, BeginRun, BeginAckLost, Inspect, InspectFails, PassBaseline,
          BlockSuspicious, BaselineFails, CommitSnapshot, CommitFails,
          CommitAckLost, MarkFailed, MarkFailedFails, Reconcile,
          ReconcileFails
<1>5. CASE Leaving(p)
  BY <1>5 DEF Leaving, Close, CloseFails, Unlock, UnlockFails, Dispose
<1>6. CASE Cancel(p)
  BY <1>6 DEF Cancel, CancelBody, CancelCollect, CancelRecovery, CancelLocking,
          CancelDispose
<1>7. CASE Kill(p)
  BY <1>7 DEF Kill
<1>8. CASE LoseLock(p)
  BY <1>8 DEF LoseLock
<1> QED
  BY <1>1, <1>2, <1>3, <1>4, <1>5, <1>6, <1>7, <1>8 DEF Moves, Step

(* Time passes between the steps of the invocations.                        *)
LEMMA MoversKeepTime ==
    ASSUME NEW p \in Invocation, Moves(p)
    PROVE  now' = now
<1>1. CASE \E t \in Target, f \in BOOLEAN : Start(p, t, f)
  BY <1>1 DEF Start
<1>2. CASE RejectArguments(p) \/ Kill(p) \/ LoseLock(p) \/ Cancel(p)
  BY <1>2 DEF RejectArguments, Kill, LoseLock, Cancel
<1>3. CASE Locking(p) \/ Preparing(p)
  BY <1>3
  DEF Locking, Preparing, AcquireLock, SkipInProgress, LockFails, FindBooru,
          RejectMismatch, MissBooru, CreateBooru, CreateConflict,
          CreateAckLost, SkipRecent, ReadLatest, QueryFails
<1>4. CASE Collecting(p)
  BY <1>4
  DEF Collecting, BeginRun, BeginAckLost, Inspect, InspectFails, PassBaseline,
          BlockSuspicious, BaselineFails, CommitSnapshot, CommitFails,
          CommitAckLost, MarkFailed, MarkFailedFails, Reconcile, ReconcileFails
<1>5. CASE Leaving(p)
  BY <1>5 DEF Leaving, Close, CloseFails, Unlock, UnlockFails, Dispose
<1> QED
  BY <1>1, <1>2, <1>3, <1>4, <1>5 DEF Moves, Step

------------------------------------------------------------------------------
(* Mutual exclusion.                                                        *)

(* A collector inside the lock is the session that holds it.                *)
LockHeld ==
    \A p \in Invocation : pc[p] \in UnderLock => holder[target[p]] = p

(* The only way into the body is the lock, and the ways out let go of it.   *)
LEMMA LockHeldMover ==
    ASSUME TypeOK, LockHeld, "lock_loss" \notin Environment,
           NEW p \in Invocation, Moves(p), pc'[p] \in UnderLock
    PROVE  holder'[target'[p]] = p
<1> USE DEF TypeOK, LockHeld, UnderLock, Locations, Ended
<1>1. CASE \E t \in Target, f \in BOOLEAN : Start(p, t, f)
  BY <1>1 DEF Start
<1>2. CASE RejectArguments(p)
  BY <1>2 DEF RejectArguments
<1>3. CASE Locking(p) \/ Preparing(p)
  BY <1>3
  DEF Locking, Preparing, AcquireLock, SkipInProgress, LockFails, FindBooru,
          RejectMismatch, MissBooru, CreateBooru, CreateConflict,
          CreateAckLost, SkipRecent, ReadLatest, QueryFails
<1>4. CASE Collecting(p)
  BY <1>4
  DEF Collecting, BeginRun, BeginAckLost, Inspect, InspectFails, PassBaseline,
          BlockSuspicious, BaselineFails, CommitSnapshot, CommitFails,
          CommitAckLost, MarkFailed, MarkFailedFails, Reconcile,
          ReconcileFails, AcceptCandidate
<1>5. CASE Leaving(p)
  BY <1>5 DEF Leaving, Close, CloseFails, Unlock, UnlockFails, Dispose
<1>6. CASE Cancel(p)
  BY <1>6 DEF Cancel, CancelBody, CancelCollect, CancelRecovery, CancelLocking,
          CancelDispose, AcceptCandidate
<1>7. CASE Kill(p)
  BY <1>7 DEF Kill
<1>8. CASE LoseLock(p)
  BY <1>8 DEF LoseLock
<1> QED
  BY <1>1, <1>2, <1>3, <1>4, <1>5, <1>6, <1>7, <1>8 DEF Moves, Step

(* ... and nobody else takes it away.                                       *)
LEMMA LockHeldNext ==
    ASSUME TypeOK, LockHeld, "lock_loss" \notin Environment, [Next]_vars
    PROVE  LockHeld'
<1> SUFFICES ASSUME NEW q \in Invocation, pc'[q] \in UnderLock
             PROVE  holder'[target'[q]] = q
  BY DEF LockHeld
<1>1. ASSUME NEW p \in Invocation, Moves(p) PROVE holder'[target'[q]] = q
  <2>1. CASE p = q
    BY <1>1, <2>1, LockHeldMover
  <2>2. CASE p # q
    <3>1. pc[q] \in UnderLock /\ target'[q] = target[q] /\ target[q] \in Target
      BY <1>1, <2>2, Frame DEF Same, TypeOK, UnderLock, Locations, Ended
    <3>2. holder[target[q]] = q
      BY <3>1 DEF LockHeld
    <3>3. holder'[target[q]] = holder[target[q]]
      BY <1>1, <2>2, <3>1, <3>2, LockSteps, CollectorAssumption
    <3> QED
      BY <3>1, <3>2, <3>3
  <2> QED
    BY <2>1, <2>2
<1>2. ASSUME NEW t \in Target, Reap(t) PROVE holder'[target'[q]] = q
  BY <1>2 DEF Reap, TypeOK, LockHeld, UnderLock, Locations, Ended
<1>3. ASSUME NEW t \in Target, OperatorSwitch(t) PROVE holder'[target'[q]] = q
  BY <1>3 DEF OperatorSwitch, LockHeld
<1>4. CASE Clock
  BY <1>4 DEF Clock, LockHeld
<1>5. CASE UNCHANGED vars
  BY <1>5 DEF vars, LockHeld
<1> QED
  BY <1>1, <1>2, <1>3, <1>4, <1>5 DEF Next, Moves

(* If no lock connection is lost, the lock excludes two collectors of one   *)
(* target, whatever else fails.                                             *)
THEOREM MutualExclusion ==
    ASSUME "lock_loss" \notin Environment
    PROVE  Spec => []OneCollectorPerTarget
<1>1. Init => TypeOK /\ LockHeld
  BY TypeInit DEF Init, LockHeld, UnderLock
<1>2. TypeOK /\ LockHeld /\ [Next]_vars => (TypeOK /\ LockHeld)'
  BY TypeNext, LockHeldNext
<1>3. TypeOK /\ LockHeld => OneCollectorPerTarget
  BY DEF LockHeld, OneCollectorPerTarget
<1> QED
  BY <1>1, <1>2, <1>3, PTL DEF Spec

------------------------------------------------------------------------------
(* Who holds a lock.                                                        *)

(* A session holds the lock of its own target only, from the statement that *)
(* grants it to the end of its process at the latest.                       *)
Owned(p) ==
    \A t \in Target : holder[t] = p =>
        \/ pc[p] \in Ended
        \/ target[p] = t /\ pc[p] \in UnderLock \cup {"dispose"}

OneLockEach ==
    \A t, u \in Target : holder[t] = holder[u] /\ holder[t] # NoOne => t = u

(* An invocation asks for one lock, of the target it has been started for.  *)
LEMMA OwnedMover ==
    ASSUME TypeOK, NEW p \in Invocation, Moves(p), Owned(p)
    PROVE  Owned(p)'
<1> USE CollectorAssumption DEF TypeOK, Owned, UnderLock, Locations, Ended
<1>1. CASE \E t \in Target, f \in BOOLEAN : Start(p, t, f)
  BY <1>1 DEF Start
<1>2. CASE RejectArguments(p)
  BY <1>2 DEF RejectArguments
<1>3. CASE Locking(p) \/ Preparing(p)
  BY <1>3
  DEF Locking, Preparing, AcquireLock, SkipInProgress, LockFails, FindBooru,
          RejectMismatch, MissBooru, CreateBooru, CreateConflict,
          CreateAckLost, SkipRecent, ReadLatest, QueryFails
<1>4. CASE Collecting(p)
  BY <1>4
  DEF Collecting, BeginRun, BeginAckLost, Inspect, InspectFails, PassBaseline,
          BlockSuspicious, BaselineFails, CommitSnapshot, CommitFails,
          CommitAckLost, MarkFailed, MarkFailedFails, Reconcile,
          ReconcileFails, AcceptCandidate
<1>5. CASE Leaving(p)
  BY <1>5 DEF Leaving, Close, CloseFails, Unlock, UnlockFails, Dispose
<1>6. CASE Cancel(p)
  BY <1>6 DEF Cancel, CancelBody, CancelCollect, CancelRecovery, CancelLocking,
          CancelDispose, AcceptCandidate
<1>7. CASE Kill(p)
  BY <1>7 DEF Kill
<1>8. CASE LoseLock(p)
  BY <1>8 DEF LoseLock
<1> QED
  BY <1>1, <1>2, <1>3, <1>4, <1>5, <1>6, <1>7, <1>8 DEF Moves, Step

(* Granted to p is a lock that is free, when p holds none.                  *)
LEMMA Granted ==
    ASSUME TypeOK, NEW p \in Invocation, Moves(p), NEW u \in Target, holder'[u] # holder[u]
    PROVE  \/ holder'[u] = NoOne
           \/ pc[p] = "lock" /\ holder'[u] = p
<1> USE DEF TypeOK
<1>1. CASE \E t \in Target, f \in BOOLEAN : Start(p, t, f)
  BY <1>1 DEF Start
<1>2. CASE RejectArguments(p)
  BY <1>2 DEF RejectArguments
<1>3. CASE Locking(p) \/ Preparing(p)
  BY <1>3
  DEF Locking, Preparing, AcquireLock, SkipInProgress, LockFails, FindBooru,
          RejectMismatch, MissBooru, CreateBooru, CreateConflict,
          CreateAckLost, SkipRecent, ReadLatest, QueryFails
<1>4. CASE Collecting(p)
  BY <1>4
  DEF Collecting, BeginRun, BeginAckLost, Inspect, InspectFails, PassBaseline,
          BlockSuspicious, BaselineFails, CommitSnapshot, CommitFails,
          CommitAckLost, MarkFailed, MarkFailedFails, Reconcile,
          ReconcileFails, AcceptCandidate
<1>5. CASE Leaving(p)
  BY <1>5 DEF Leaving, Close, CloseFails, Unlock, UnlockFails, Dispose
<1>6. CASE Cancel(p)
  BY <1>6 DEF Cancel, CancelBody, CancelCollect, CancelRecovery, CancelLocking,
          CancelDispose, AcceptCandidate
<1>7. CASE Kill(p)
  BY <1>7 DEF Kill
<1>8. CASE LoseLock(p)
  BY <1>8 DEF LoseLock
<1> QED
  BY <1>1, <1>2, <1>3, <1>4, <1>5, <1>6, <1>7, <1>8 DEF Moves, Step

(* Every step keeps the owners of the locks in order.                       *)
LEMMA OwnersNext ==
    ASSUME TypeOK, \A p \in Invocation : Owned(p), OneLockEach, [Next]_vars
    PROVE  (\A p \in Invocation : Owned(p))' /\ OneLockEach'
<1>1. ASSUME NEW p \in Invocation, Moves(p)
      PROVE  (\A q \in Invocation : Owned(q))' /\ OneLockEach'
  <2>1. Owned(p)'
    BY <1>1, OwnedMover
  <2>2. ASSUME NEW q \in Invocation, q # p PROVE Owned(q)'
    <3>1. Same(q)
      BY <1>1, <2>2, Frame
    <3>2. \A t \in Target : holder'[t] = q => holder[t] = q
      BY <1>1, <2>2, Granted, CollectorAssumption
    <3> QED
      BY <3>1, <3>2 DEF Same, Owned
  <2>3. ASSUME NEW t \in Target, NEW u \in Target, holder'[t] = holder'[u], holder'[t] # NoOne
        PROVE  t = u
    <3>1. CASE holder'[t] = holder[t] /\ holder'[u] = holder[u]
      BY <2>3, <3>1 DEF OneLockEach
    <3>2. CASE holder'[t] # holder[t] \/ holder'[u] # holder[u]
      <4>1. pc[p] = "lock" /\ holder'[t] = p
        BY <1>1, <2>3, <3>2, Granted
      <4>2. \A v \in Target : holder[v] # p
        BY <4>1 DEF Owned, Ended, UnderLock
      <4>3. holder'[t] # holder[t] /\ holder'[u] # holder[u]
        BY <2>3, <4>1, <4>2
      <4> QED
        BY <1>1, <4>3, LockSteps
    <3> QED
      BY <3>1, <3>2
  <2> QED
    BY <2>1, <2>2, <2>3 DEF OneLockEach
<1>2. ASSUME NEW t \in Target, Reap(t)
      PROVE  (\A q \in Invocation : Owned(q))' /\ OneLockEach'
  BY <1>2, CollectorAssumption DEF Reap, TypeOK, Owned, OneLockEach
<1>3. CASE (\E t \in Target : OperatorSwitch(t)) \/ Clock \/ UNCHANGED vars
  BY <1>3 DEF OperatorSwitch, Clock, vars, Owned, OneLockEach
<1> QED
  BY <1>1, <1>2, <1>3 DEF Next, Moves

(* Whatever fails, no session holds two locks or the lock of a target that  *)
(* it does not collect, and the holder of a lock is at work under it, about *)
(* to close its connection (dispose, where run_collection leaves it to the  *)
(* engine), or gone, in which case the server frees the lock (Reap).        *)
THEOREM LocksAreOwned == Spec => [](OneLockEach /\ \A p \in Invocation : Owned(p))
<1> DEFINE Owners == \A p \in Invocation : Owned(p)
<1>1. Init => TypeOK /\ OneLockEach /\ Owners
  BY TypeInit, CollectorAssumption DEF Init, OneLockEach, Owned
<1>2. TypeOK /\ OneLockEach /\ Owners /\ [Next]_vars => (TypeOK /\ OneLockEach /\ Owners)'
  BY TypeNext, OwnersNext
<1> HIDE DEF Owners
<1>3. QED
  <2>1. Spec => [](OneLockEach /\ Owners)
    BY <1>1, <1>2, PTL DEF Spec
  <2> QED
    BY <2>1 DEF Owners

------------------------------------------------------------------------------
(* The crawl run and its snapshot.                                          *)

BeforeRun == {"idle", "lock", "booru", "create", "latest", "begin"}
DuringRun == {"inspect", "baseline", "commit"}

(* Where an invocation is tells the status of its run; only a cancellation  *)
(* during the final commit, or the loss of its acknowledgement, leaves it   *)
(* open whether the commit took effect.  A snapshot may outlive the         *)
(* SUCCEEDED status of its run in the second case.                          *)
RunMatches(p) ==
    /\ run[p] = "succeeded" => HasSnapshot(p)
    /\ HasSnapshot(p) => \/ run[p] = "succeeded"
                         \/ run[p] = "failed" /\ "lost_ack" \in Environment
    /\ pc[p] \in BeforeRun => run[p] = "none"
    /\ pc[p] \in DuringRun => run[p] = "running"
    /\ pc[p] = "fail" => \/ run[p] = "running"
                         \/ run[p] = "succeeded" /\ "lost_ack" \in Environment
    /\ pc[p] = "reconcile" => run[p] \in {"running", "succeeded"}

OneSnapshotPerRun ==
    \A s, s2 \in snapshots : s.run = s2.run => s = s2

RunInv == OneSnapshotPerRun /\ \A p \in Invocation : RunMatches(p)

(* The final commit stores a snapshot of this run and its status together.  *)
LEMMA AcceptEffect ==
    ASSUME TypeOK, NEW p \in Invocation, AcceptCandidate(p)
    PROVE  HasSnapshot(p)' /\ run'[p] = "succeeded"
<1> DEFINE Row(c) == [run |-> p, target |-> target[p],
                      captured_at |-> c.captured_at, total_posts |-> c.total_posts]
<1>1. PICK c \in candidate[p] : snapshots' = snapshots \cup {Row(c)}
  BY DEF AcceptCandidate
<1>2. Row(c) \in snapshots' /\ Row(c).run = p
  BY <1>1
<1>3. HasSnapshot(p)'
  BY <1>2 DEF HasSnapshot
<1> QED
  BY <1>3 DEF AcceptCandidate, TypeOK

(* No run has begun, and there are no snapshots.                            *)
LEMMA RunInit == Init => RunInv
  BY DEF Init, RunInv, RunMatches, HasSnapshot, OneSnapshotPerRun, BeforeRun, DuringRun

(* An invocation keeps its run and its snapshot in step, whatever fails.    *)
LEMMA RunMatchesMover ==
    ASSUME TypeOK, RunInv, NEW p \in Invocation, Moves(p)
    PROVE  RunMatches(p)'
<1> USE DEF TypeOK, RunInv, RunMatches, HasSnapshot, BeforeRun, DuringRun
<1>1. CASE \E t \in Target, f \in BOOLEAN : Start(p, t, f)
  BY <1>1 DEF Start
<1>2. CASE RejectArguments(p)
  BY <1>2 DEF RejectArguments
<1>3. CASE Locking(p) \/ Preparing(p)
  BY <1>3
  DEF Locking, Preparing, AcquireLock, SkipInProgress, LockFails, FindBooru,
          RejectMismatch, MissBooru, CreateBooru, CreateConflict,
          CreateAckLost, SkipRecent, ReadLatest, QueryFails
<1>4. CASE Collecting(p)
  <2>1. CASE BeginRun(p)
    BY <2>1 DEF BeginRun
  <2>2. CASE BeginAckLost(p)
    BY <2>2 DEF BeginAckLost
  <2>3. CASE Inspect(p)
    BY <2>3 DEF Inspect
  <2>4. CASE InspectFails(p)
    BY <2>4 DEF InspectFails
  <2>5. CASE PassBaseline(p)
    BY <2>5 DEF PassBaseline
  <2>6. CASE BlockSuspicious(p)
    BY <2>6 DEF BlockSuspicious
  <2>7. CASE BaselineFails(p)
    BY <2>7 DEF BaselineFails
  <2>8. CASE CommitSnapshot(p)
    BY <2>8, AcceptEffect DEF CommitSnapshot
  <2>9. CASE CommitFails(p)
    BY <2>9 DEF CommitFails
  <2>10. CASE CommitAckLost(p)
    BY <2>10, AcceptEffect DEF CommitAckLost
  <2>11. CASE MarkFailed(p)
    BY <2>11 DEF MarkFailed
  <2>12. CASE MarkFailedFails(p)
    BY <2>12 DEF MarkFailedFails
  <2>13. CASE Reconcile(p)
    BY <2>13 DEF Reconcile
  <2>14. CASE ReconcileFails(p)
    BY <2>14 DEF ReconcileFails
  <2> QED
    BY <1>4, <2>1, <2>2, <2>3, <2>4, <2>5, <2>6, <2>7, <2>8, <2>9, <2>10,
       <2>11, <2>12, <2>13, <2>14
       DEF Collecting
<1>5. CASE Leaving(p)
  BY <1>5 DEF Leaving, Close, CloseFails, Unlock, UnlockFails, Dispose
<1>6. CASE Cancel(p)
  <2>1. CASE CancelBody(p) /\ UNCHANGED local
    BY <1>6, <2>1 DEF Cancel, CancelBody
  <2>2. CASE CancelCollect(p) /\ UNCHANGED local
    <3>1. CASE UNCHANGED database
      BY <2>2, <3>1 DEF CancelCollect
    <3>2. CASE pc[p] = "commit" /\ AcceptCandidate(p)
      BY <2>2, <3>2, AcceptEffect DEF CancelCollect
    <3> QED
      BY <2>2, <3>1, <3>2 DEF CancelCollect
  <2>3. CASE CancelRecovery(p) /\ UNCHANGED local
    BY <1>6, <2>3 DEF Cancel, CancelRecovery
  <2>4. CASE CancelLocking(p) /\ UNCHANGED local
    BY <1>6, <2>4 DEF Cancel, CancelLocking
  <2>5. CASE CancelDispose(p)
    BY <1>6, <2>5 DEF Cancel, CancelDispose
  <2> QED
    BY <1>6, <2>1, <2>2, <2>3, <2>4, <2>5 DEF Cancel
<1>7. CASE Kill(p)
  BY <1>7 DEF Kill
<1>8. CASE LoseLock(p)
  BY <1>8 DEF LoseLock
<1> QED
  BY <1>1, <1>2, <1>3, <1>4, <1>5, <1>6, <1>7, <1>8 DEF Moves, Step

(* ... and no other step disturbs them.                                     *)
LEMMA RunInvNext ==
    ASSUME TypeOK, RunInv, [Next]_vars
    PROVE  RunInv'
<1>1. ASSUME NEW p \in Invocation, Moves(p) PROVE RunInv'
  <2>1. RunMatches(p)'
    BY <1>1, RunMatchesMover
  <2>2. ASSUME NEW q \in Invocation, q # p PROVE RunMatches(q)'
    <3>1. Same(q)
      BY <1>1, <2>2, Frame
    <3>2. HasSnapshot(q)' <=> HasSnapshot(q)
      BY <1>1, <2>2, HistorySteps DEF HasSnapshot, AcceptCandidate
    <3> QED
      BY <3>1, <3>2 DEF Same, RunInv, RunMatches
  <2>3. OneSnapshotPerRun'
    <3>1. CASE snapshots' = snapshots
      BY <3>1 DEF RunInv, OneSnapshotPerRun
    <3>2. CASE pc[p] = "commit" /\ AcceptCandidate(p)
      BY <3>2 DEF AcceptCandidate, RunInv, RunMatches, OneSnapshotPerRun, HasSnapshot, DuringRun
    <3> QED
      BY <1>1, <3>1, <3>2, HistorySteps
  <2> QED
    BY <2>1, <2>2, <2>3 DEF RunInv
<1>2. ASSUME NEW t \in Target, Reap(t) \/ OperatorSwitch(t) PROVE RunInv'
  BY <1>2 DEF Reap, OperatorSwitch, RunInv, RunMatches, HasSnapshot, OneSnapshotPerRun
<1>3. CASE Clock \/ UNCHANGED vars
  BY <1>3 DEF Clock, vars, RunInv, RunMatches, HasSnapshot, OneSnapshotPerRun
<1> QED
  BY <1>1, <1>2, <1>3 DEF Next, Moves

(* If every commit is acknowledged or without effect, an accepted snapshot  *)
(* and its SUCCEEDED run stand and fall together, under lost locks, kills,  *)
(* cancellations, database errors and clock steps.                          *)
THEOREM SnapshotsMatchRuns ==
    ASSUME "lost_ack" \notin Environment
    PROVE  Spec => []SnapshotIffSucceeded
<1>1. Init => TypeOK /\ RunInv
  BY TypeInit, RunInit
<1>2. TypeOK /\ RunInv /\ [Next]_vars => (TypeOK /\ RunInv)'
  BY TypeNext, RunInvNext
<1>3. RunInv => SnapshotIffSucceeded
  BY DEF RunInv, RunMatches, OneSnapshotPerRun, SnapshotIffSucceeded
<1> QED
  BY <1>1, <1>2, <1>3, PTL DEF Spec

Terminal == {"succeeded", "failed", "cancelled"}

(* The handler of collect marks FAILED a run that its own commit, of which  *)
(* it has not heard, has made SUCCEEDED.                                    *)
Overwrites(p) ==
    /\ "lost_ack" \in Environment
    /\ pc[p] = "fail"
    /\ HasSnapshot(p)
    /\ run[p] = "succeeded"
    /\ run'[p] = "failed"

(* An invocation rewrites a terminal status in no other way.                *)
LEMMA FinalMover ==
    ASSUME TypeOK, RunInv, NEW p \in Invocation, Moves(p), run[p] \in Terminal
    PROVE  run'[p] = run[p] \/ Overwrites(p)
<1> USE DEF TypeOK, RunInv, RunMatches, BeforeRun, DuringRun, Terminal, Overwrites
<1>1. CASE \E t \in Target, f \in BOOLEAN : Start(p, t, f)
  BY <1>1 DEF Start
<1>2. CASE RejectArguments(p)
  BY <1>2 DEF RejectArguments
<1>3. CASE Locking(p) \/ Preparing(p)
  BY <1>3
  DEF Locking, Preparing, AcquireLock, SkipInProgress, LockFails, FindBooru,
          RejectMismatch, MissBooru, CreateBooru, CreateConflict,
          CreateAckLost, SkipRecent, ReadLatest, QueryFails
<1>4. CASE Collecting(p)
  BY <1>4
  DEF Collecting, BeginRun, BeginAckLost, Inspect, InspectFails, PassBaseline,
          BlockSuspicious, BaselineFails, CommitSnapshot, CommitFails,
          CommitAckLost, MarkFailed, MarkFailedFails, Reconcile,
          ReconcileFails, AcceptCandidate
<1>5. CASE Leaving(p)
  BY <1>5 DEF Leaving, Close, CloseFails, Unlock, UnlockFails, Dispose
<1>6. CASE Cancel(p)
  BY <1>6 DEF Cancel, CancelBody, CancelCollect, CancelRecovery, CancelLocking,
          CancelDispose, AcceptCandidate
<1>7. CASE Kill(p)
  BY <1>7 DEF Kill
<1>8. CASE LoseLock(p)
  BY <1>8 DEF LoseLock
<1> QED
  BY <1>1, <1>2, <1>3, <1>4, <1>5, <1>6, <1>7, <1>8 DEF Moves, Step

(* ... nor does anything else rewrite one.                                  *)
LEMMA FinalNext ==
    ASSUME TypeOK, RunInv, [Next]_vars, NEW q \in Invocation, run[q] \in Terminal
    PROVE  run'[q] = run[q] \/ Overwrites(q)
<1>1. ASSUME NEW p \in Invocation, Moves(p) PROVE run'[q] = run[q] \/ Overwrites(q)
  BY <1>1, FinalMover, Frame DEF Same
<1>2. ASSUME NEW t \in Target, Reap(t) \/ OperatorSwitch(t) PROVE run'[q] = run[q]
  BY <1>2 DEF Reap, OperatorSwitch
<1>3. CASE Clock \/ UNCHANGED vars
  BY <1>3 DEF Clock, vars
<1> QED
  BY <1>1, <1>2, <1>3 DEF Next, Moves

(* If every commit is acknowledged or without effect, no handler rewrites a *)
(* run that has finished.                                                   *)
THEOREM RunsStayFinished ==
    ASSUME "lost_ack" \notin Environment
    PROVE  Spec => RunStatusIsFinal
<1>1. Init => TypeOK /\ RunInv
  BY TypeInit, RunInit
<1>2. TypeOK /\ RunInv /\ [Next]_vars => (TypeOK /\ RunInv)'
  BY TypeNext, RunInvNext
<1>3. TypeOK /\ RunInv /\ [Next]_vars =>
        [\A p \in Invocation :
            run[p] \in {"succeeded", "failed", "cancelled"} => run'[p] = run[p]]_vars
  BY FinalNext DEF Overwrites, Terminal
<1> QED
  BY <1>1, <1>2, <1>3, PTL DEF Spec, RunStatusIsFinal

(* Whatever the environment does: a FAILED or CANCELLED run keeps its       *)
(* status, and a SUCCEEDED one loses it only to `except Exception` of the   *)
(* very call of collect that has stored its snapshot (MarkFailed, or a      *)
(* cancellation in the midst of it) after a lost acknowledgement.           *)
THEOREM OnlyItsHandlerOverwrites ==
    Spec => [][\A p \in Invocation :
                  run[p] \in Terminal => run'[p] = run[p] \/ Overwrites(p)]_vars
<1>1. Init => TypeOK /\ RunInv
  BY TypeInit, RunInit
<1>2. TypeOK /\ RunInv /\ [Next]_vars => (TypeOK /\ RunInv)'
  BY TypeNext, RunInvNext
<1>3. TypeOK /\ RunInv /\ [Next]_vars =>
        [\A p \in Invocation : run[p] \in Terminal => run'[p] = run[p] \/ Overwrites(p)]_vars
  BY FinalNext
<1> QED
  BY <1>1, <1>2, <1>3, PTL DEF Spec

------------------------------------------------------------------------------
(* The outcome that is reported.                                            *)

Unfinished == BeforeRun \cup DuringRun \cup {"fail", "reconcile"}

(* The outcome is set when the body is left, and already agrees with the    *)
(* database then; nothing after that is an error for a success.             *)
ReportMatches(p) ==
    /\ pc[p] \in Unfinished => outcome[p] = "none"
    /\ pc[p] = "reconcile" => p \in interrupted
    /\ pc[p] \in {"close", "unlock", "dispose", "done"} =>
        /\ outcome[p] # "none"
        /\ outcome[p] = "failed" /\ p \notin interrupted =>
               run[p] # "succeeded" \/ "lost_ack" \in Environment
        /\ outcome[p] = "succeeded" => run[p] = "succeeded"
        /\ outcome[p] = "skipped" => run[p] = "none"
        /\ outcome[p] = "cancelled" => p \in interrupted

ReportInv == \A p \in Invocation : ReportMatches(p)

(* Nothing is to be reported yet.                                           *)
LEMMA ReportInit == Init => ReportInv
  BY DEF Init, ReportInv, ReportMatches, Unfinished, BeforeRun, DuringRun

(* Every way out of the body sets an outcome that is true, and no way out   *)
(* of the lock changes it into one that is not.                             *)
LEMMA ReportMover ==
    ASSUME TypeOK, RunInv, ReportInv, NEW p \in Invocation, Moves(p)
    PROVE  ReportMatches(p)'
<1> USE DEF TypeOK, RunInv, RunMatches, ReportInv, ReportMatches,
            Unfinished, BeforeRun, DuringRun
<1>1. CASE \E t \in Target, f \in BOOLEAN : Start(p, t, f)
  BY <1>1 DEF Start
<1>2. CASE RejectArguments(p)
  BY <1>2 DEF RejectArguments
<1>3. CASE Locking(p) \/ Preparing(p)
  BY <1>3
  DEF Locking, Preparing, AcquireLock, SkipInProgress, LockFails, FindBooru,
          RejectMismatch, MissBooru, CreateBooru, CreateConflict,
          CreateAckLost, SkipRecent, ReadLatest, QueryFails
<1>4. CASE Collecting(p)
  BY <1>4
  DEF Collecting, BeginRun, BeginAckLost, Inspect, InspectFails, PassBaseline,
          BlockSuspicious, BaselineFails, CommitSnapshot, CommitFails,
          CommitAckLost, MarkFailed, MarkFailedFails, Reconcile,
          ReconcileFails, AcceptCandidate
<1>5. CASE Leaving(p)
  <2>1. CASE Close(p)
    BY <2>1 DEF Close
  <2>2. CASE CloseFails(p)
    BY <2>2 DEF CloseFails, Outcome
  <2>3. CASE Unlock(p)
    BY <2>3 DEF Unlock
  <2>4. CASE UnlockFails(p)
    BY <2>4 DEF UnlockFails
  <2>5. CASE Dispose(p)
    BY <2>5 DEF Dispose
  <2> QED
    BY <1>5, <2>1, <2>2, <2>3, <2>4, <2>5
       DEF Leaving
<1>6. CASE Cancel(p)
  BY <1>6 DEF Cancel, CancelBody, CancelCollect, CancelRecovery, CancelLocking,
          CancelDispose, AcceptCandidate
<1>7. CASE Kill(p)
  BY <1>7 DEF Kill
<1>8. CASE LoseLock(p)
  BY <1>8 DEF LoseLock
<1> QED
  BY <1>1, <1>2, <1>3, <1>4, <1>5, <1>6, <1>7, <1>8 DEF Moves, Step

(* ... nor does any other step.                                             *)
LEMMA ReportNext ==
    ASSUME TypeOK, RunInv, ReportInv, [Next]_vars
    PROVE  ReportInv'
<1> SUFFICES ASSUME NEW q \in Invocation PROVE ReportMatches(q)'
  BY DEF ReportInv
<1>1. ASSUME NEW p \in Invocation, Moves(p) PROVE ReportMatches(q)'
  BY <1>1, ReportMover, Frame DEF Same, ReportInv, ReportMatches
<1>2. ASSUME NEW t \in Target, Reap(t) \/ OperatorSwitch(t) PROVE ReportMatches(q)'
  BY <1>2 DEF Reap, OperatorSwitch, ReportInv, ReportMatches
<1>3. CASE Clock \/ UNCHANGED vars
  BY <1>3 DEF Clock, vars, ReportInv, ReportMatches
<1> QED
  BY <1>1, <1>2, <1>3 DEF Next, Moves

(* If every commit is acknowledged or without effect, what the command      *)
(* reports is what the database holds.                                      *)
THEOREM ReportsAreTrue ==
    ASSUME "lost_ack" \notin Environment
    PROVE  Spec => []ReportIsTrue
<1>1. Init => TypeOK /\ RunInv /\ ReportInv
  BY TypeInit, RunInit, ReportInit
<1>2. TypeOK /\ RunInv /\ ReportInv /\ [Next]_vars => (TypeOK /\ RunInv /\ ReportInv)'
  BY TypeNext, RunInvNext, ReportNext
<1>3. RunInv /\ ReportInv => ReportIsTrue
  <2> SUFFICES ASSUME RunInv, ReportInv, NEW p \in Invocation, pc[p] = "done"
               PROVE  /\ outcome[p] = "failed" /\ p \notin interrupted => ~ HasSnapshot(p)
                      /\ outcome[p] = "succeeded" => HasSnapshot(p)
                      /\ outcome[p] = "skipped" => run[p] = "none"
    BY DEF ReportIsTrue
  <2> QED
    BY DEF RunInv, RunMatches, ReportInv, ReportMatches
<1> QED
  BY <1>1, <1>2, <1>3, PTL DEF Spec

(* Whatever fails, lost acknowledgements included: a SUCCEEDED run has its  *)
(* snapshot, a snapshot has a run that is SUCCEEDED or was overwritten by   *)
(* FAILED, and a command that reports SUCCEEDED or SKIPPED tells the truth. *)
THEOREM SuccessesAreTrue == Spec => []SuccessIsTrue
<1>1. Init => TypeOK /\ RunInv /\ ReportInv
  BY TypeInit, RunInit, ReportInit
<1>2. TypeOK /\ RunInv /\ ReportInv /\ [Next]_vars => (TypeOK /\ RunInv /\ ReportInv)'
  BY TypeNext, RunInvNext, ReportNext
<1>3. ASSUME TypeOK, RunInv, ReportInv PROVE SuccessIsTrue
  <2>1. ASSUME NEW s \in snapshots PROVE run[s.run] \in {"succeeded", "failed"}
    <3>1. s.run \in Invocation /\ HasSnapshot(s.run)
      BY <1>3, <2>1 DEF TypeOK, SnapshotRow, HasSnapshot
    <3> QED
      BY <1>3, <3>1 DEF RunInv, RunMatches
  <2>2. \A p \in Invocation : run[p] = "succeeded" => HasSnapshot(p)
    BY <1>3 DEF RunInv, RunMatches
  <2>3. \A p \in Invocation : pc[p] = "done" =>
            /\ outcome[p] = "succeeded" => run[p] = "succeeded"
            /\ outcome[p] = "skipped" => run[p] = "none"
    BY <1>3 DEF ReportInv, ReportMatches
  <2>4. OneSnapshotPerRun
    BY <1>3 DEF RunInv
  <2> QED
    BY <2>1, <2>2, <2>3, <2>4 DEF SuccessIsTrue, OneSnapshotPerRun
<1> QED
  BY <1>1, <1>2, <1>3, PTL DEF Spec

------------------------------------------------------------------------------
(* The runs that are left RUNNING.                                          *)

(* A run starts no later than now, and no error but a cancellation leaves   *)
(* it without a terminal status.                                            *)
Accounted(p) ==
    /\ run[p] = "running" => started_at[p] <= now
    /\ pc[p] \in {"close", "unlock", "dispose", "done"} /\ run[p] = "running" => p \in interrupted

(* An invocation that cannot finish its run has been cancelled.             *)
LEMMA AccountedMover ==
    ASSUME TypeOK, RunInv, ReportInv, Environment \cap {"lost_ack", "db_error", "clock_back"} = {},
           NEW p \in Invocation, Moves(p), Accounted(p)
    PROVE  Accounted(p)'
<1> USE DEF TypeOK, RunInv, RunMatches, ReportInv, ReportMatches, Accounted, BeforeRun, DuringRun
<1>1. CASE \E t \in Target, f \in BOOLEAN : Start(p, t, f)
  BY <1>1 DEF Start
<1>2. CASE RejectArguments(p)
  BY <1>2 DEF RejectArguments
<1>3. CASE Locking(p) \/ Preparing(p)
  BY <1>3
  DEF Locking, Preparing, AcquireLock, SkipInProgress, LockFails, FindBooru,
          RejectMismatch, MissBooru, CreateBooru, CreateConflict,
          CreateAckLost, SkipRecent, ReadLatest, QueryFails
<1>4. CASE Collecting(p)
  BY <1>4
  DEF Collecting, BeginRun, BeginAckLost, Inspect, InspectFails, PassBaseline,
          BlockSuspicious, BaselineFails, CommitSnapshot, CommitFails,
          CommitAckLost, MarkFailed, MarkFailedFails, Reconcile,
          ReconcileFails, AcceptCandidate, FinishAllowed
<1>5. CASE Leaving(p)
  BY <1>5 DEF Leaving, Close, CloseFails, Unlock, UnlockFails, Dispose
<1>6. CASE Cancel(p)
  BY <1>6 DEF Cancel, CancelBody, CancelCollect, CancelRecovery, CancelLocking,
          CancelDispose, AcceptCandidate
<1>7. CASE Kill(p)
  BY <1>7 DEF Kill
<1>8. CASE LoseLock(p)
  BY <1>8 DEF LoseLock
<1> QED
  BY <1>1, <1>2, <1>3, <1>4, <1>5, <1>6, <1>7, <1>8 DEF Moves, Step

(* ... and no other step leaves a run behind.                               *)
LEMMA AccountedNext ==
    ASSUME TypeOK, RunInv, ReportInv, Environment \cap {"lost_ack", "db_error", "clock_back"} = {},
           \A p \in Invocation : Accounted(p), [Next]_vars, NEW q \in Invocation
    PROVE  Accounted(q)'
<1>1. ASSUME NEW p \in Invocation, Moves(p), p # q PROVE Accounted(q)'
  BY <1>1, Frame, MoversKeepTime DEF Same, Accounted
<1>2. CASE Moves(q)
  BY <1>2, AccountedMover
<1>3. ASSUME NEW t \in Target, Reap(t) \/ OperatorSwitch(t) PROVE Accounted(q)'
  BY <1>3 DEF Reap, OperatorSwitch, Accounted
<1>4. CASE Clock \/ UNCHANGED vars
  BY <1>4 DEF Clock, vars, Accounted, TypeOK
<1> QED
  BY <1>1, <1>2, <1>3, <1>4 DEF Next, Moves

(* If the database works and the clock runs forward, an invocation that     *)
(* ended and left its run RUNNING was cancelled.                            *)
THEOREM StrandedIsExplained ==
    ASSUME Environment \cap {"lost_ack", "db_error", "clock_back"} = {}
    PROVE  Spec => []StrandedRunIsExplained
<1> DEFINE AccountedInv == TypeOK /\ RunInv /\ ReportInv /\ \A p \in Invocation : Accounted(p)
<1>1. Init => AccountedInv
  BY TypeInit, RunInit, ReportInit DEF Init, Accounted
<1>2. AccountedInv /\ [Next]_vars => AccountedInv'
  BY TypeNext, RunInvNext, ReportNext, AccountedNext
<1>3. AccountedInv => StrandedRunIsExplained
  BY DEF Accounted, StrandedRunIsExplained
<1> HIDE DEF AccountedInv
<1> QED
  BY <1>1, <1>2, <1>3, PTL DEF Spec

------------------------------------------------------------------------------
(* Invocations do not go back.                                              *)

(* An upper bound on the awaits that an invocation at `location` still has  *)
(* before it, faults and a cancellation included.                           *)
Ahead(location) ==
    CASE location = "idle" -> 14
      [] location = "lock" -> 13
      [] location = "booru" -> 12
      [] location = "create" -> 11
      [] location = "latest" -> 10
      [] location = "begin" -> 9
      [] location = "inspect" -> 8
      [] location = "baseline" -> 7
      [] location = "commit" -> 6
      [] location = "fail" -> 5
      [] location = "reconcile" -> 4
      [] location = "close" -> 3
      [] location = "unlock" -> 2
      [] location = "dispose" -> 1
      [] OTHER -> 0

(* The loss of its lock leaves p where it is; all that p does, and all else *)
(* that happens to it, takes it forward.                                    *)
LEMMA ForwardMover ==
    ASSUME TypeOK, NEW p \in Invocation,
           \/ \E t \in Target, f \in BOOLEAN : Start(p, t, f)
           \/ RejectArguments(p) \/ Step(p) \/ Cancel(p) \/ Kill(p)
    PROVE  Ahead(pc'[p]) < Ahead(pc[p])
<1> USE DEF TypeOK, Ahead, Locations, Ended
<1>1. CASE \E t \in Target, f \in BOOLEAN : Start(p, t, f)
  BY <1>1 DEF Start
<1>2. CASE RejectArguments(p)
  BY <1>2 DEF RejectArguments
<1>3. CASE Locking(p) \/ Preparing(p)
  BY <1>3
  DEF Locking, Preparing, AcquireLock, SkipInProgress, LockFails, FindBooru,
          RejectMismatch, MissBooru, CreateBooru, CreateConflict,
          CreateAckLost, SkipRecent, ReadLatest, QueryFails
<1>4. CASE Collecting(p)
  BY <1>4
  DEF Collecting, BeginRun, BeginAckLost, Inspect, InspectFails, PassBaseline,
          BlockSuspicious, BaselineFails, CommitSnapshot, CommitFails,
          CommitAckLost, MarkFailed, MarkFailedFails, Reconcile,
          ReconcileFails, AcceptCandidate
<1>5. CASE Leaving(p)
  BY <1>5 DEF Leaving, Close, CloseFails, Unlock, UnlockFails, Dispose
<1>6. CASE Cancel(p)
  BY <1>6 DEF Cancel, CancelBody, CancelCollect, CancelRecovery, CancelLocking,
          CancelDispose, AcceptCandidate
<1>7. CASE Kill(p)
  BY <1>7 DEF Kill
<1> QED
  BY <1>1, <1>2, <1>3, <1>4, <1>5, <1>6, <1>7 DEF Step

(* No invocation returns to an await that it has left, and every step of    *)
(* its own, a cancellation and a kill too, takes it nearer to its end: with *)
(* the fairness of its steps this is why it ends, after at most 14 of them  *)
(* (nothing in run_collection, _collect_locked or collect is retried).      *)
THEOREM InvocationsGoForward ==
    Spec => [][\A p \in Invocation :
                  /\ pc'[p] # pc[p] => Ahead(pc'[p]) < Ahead(pc[p])
                  /\ Step(p) \/ Cancel(p) \/ Kill(p) => pc'[p] # pc[p]]_vars
<1>1. Init => TypeOK
  BY TypeInit
<1>2. TypeOK /\ [Next]_vars => TypeOK'
  BY TypeNext
<1>3. ASSUME TypeOK, [Next]_vars, NEW p \in Invocation, pc'[p] # pc[p]
      PROVE  Ahead(pc'[p]) < Ahead(pc[p])
  <2>1. ASSUME NEW q \in Invocation, Moves(q) PROVE Ahead(pc'[p]) < Ahead(pc[p])
    <3>1. p = q /\ ~ LoseLock(p)
      BY <1>3, <2>1, Frame DEF Same, LoseLock
    <3> QED
      BY <1>3, <2>1, <3>1, ForwardMover DEF Moves
  <2>2. CASE (\E t \in Target : Reap(t) \/ OperatorSwitch(t)) \/ Clock \/ UNCHANGED vars
    BY <1>3, <2>2 DEF Reap, OperatorSwitch, Clock, vars
  <2> QED
    BY <1>3, <2>1, <2>2 DEF Next, Moves
<1>4. ASSUME TypeOK, NEW p \in Invocation, Step(p) \/ Cancel(p) \/ Kill(p) PROVE pc'[p] # pc[p]
  <2>1. Ahead(pc'[p]) < Ahead(pc[p]) /\ Ahead(pc[p]) \in Nat
    BY <1>4, ForwardMover DEF Ahead
  <2> QED
    BY <2>1
<1>5. TypeOK /\ [Next]_vars =>
        [\A p \in Invocation :
            /\ pc'[p] # pc[p] => Ahead(pc'[p]) < Ahead(pc[p])
            /\ Step(p) \/ Cancel(p) \/ Kill(p) => pc'[p] # pc[p]]_vars
  BY <1>3, <1>4
<1> QED
  BY <1>1, <1>2, <1>5, PTL DEF Spec
==============================================================================
