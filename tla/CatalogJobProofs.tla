---------------------------- MODULE CatalogJobProofs ----------------------------
(****************************************************************************)
(* Theorems about CatalogJob.tla, for every catalog, every set of other     *)
(* invocations and every threshold.                                         *)
(****************************************************************************)
EXTENDS CatalogJob, CollectorProofs, FiniteSetTheorems

USE DEF database, local, Goto, End, Body, EndProcess

------------------------------------------------------------------------------
(* The job is an environment of the collector.                              *)

(* Whatever the job does, its attempts behave as invocations of the         *)
(* collection command.                                                      *)
LEMMA JobStepIsStep ==
    ASSUME JobTypeOK, [JobNext]_allVars
    PROVE  [Next]_vars
<1>1. CASE Attempt
  <2>1. turn \in 1 .. Size
    BY <1>1, JobAssumption DEF Attempt, JobTypeOK
  <2>2. Attempts[turn] \in Invocation /\ DailyTargets[turn] \in Target
    BY <2>1, JobAssumption
  <2> QED
    BY <1>1, <2>2 DEF Attempt, Next
<1>2. CASE Advance \/ Report \/ Break
  BY <1>2 DEF Advance, Report, Break
<1>3. CASE World
  BY <1>3 DEF World, Next, Others
<1>4. CASE UNCHANGED allVars
  BY <1>4 DEF allVars
<1> QED
  BY <1>1, <1>2, <1>3, <1>4 DEF JobNext, Job

(* The job's own variables have their types; it counts at most one failure  *)
(* per finished turn.                                                       *)
LEMMA JobTypeNext ==
    ASSUME JobTypeOK, failures < turn, [JobNext]_allVars
    PROVE  JobTypeOK' /\ (failures < turn)'
<1>1. TypeOK'
  BY JobStepIsStep, TypeNext DEF JobTypeOK
<1>2. CASE Advance
  BY <1>1, <1>2, JobAssumption DEF Advance, JobTypeOK, Counted
<1>3. CASE Attempt \/ Report \/ Break \/ World \/ UNCHANGED allVars
  BY <1>1, <1>3 DEF Attempt, Report, Break, World, allVars, jobVars, JobTypeOK
<1> QED
  BY <1>2, <1>3 DEF JobNext, Job

(* Every theorem about the collection command holds of the job's attempts   *)
(* and of the invocations beside it.                                        *)
THEOREM JobIsCollector == JobSpec => Spec
<1>1. JobInit => Init /\ JobTypeOK /\ failures < turn
  BY TypeInit, JobAssumption DEF JobInit, JobTypeOK
<1>2. JobTypeOK /\ failures < turn /\ [JobNext]_allVars =>
        [Next]_vars /\ JobTypeOK' /\ (failures < turn)'
  BY JobStepIsStep, JobTypeNext
<1> QED
  BY <1>1, <1>2, PTL DEF JobSpec, Spec

------------------------------------------------------------------------------
(* What is known of an attempt that has ended.                              *)

(* An invocation that is done does nothing more.                            *)
LEMMA DoneMover ==
    ASSUME TypeOK, NEW p \in Invocation, pc[p] = "done"
    PROVE  ~ Moves(p)
<1> USE DEF UnderLock, Ended
<1>1. \A t \in Target, f \in BOOLEAN : ~ Start(p, t, f)
  BY DEF Start
<1>2. ~ RejectArguments(p) /\ ~ Kill(p) /\ ~ LoseLock(p)
  BY DEF RejectArguments, Kill, LoseLock
<1>3. ~ Locking(p) /\ ~ Preparing(p)
  BY DEF Locking, Preparing, AcquireLock, SkipInProgress, LockFails, FindBooru,
          RejectMismatch, MissBooru, CreateBooru, CreateConflict,
          CreateAckLost, SkipRecent, ReadLatest, QueryFails
<1>4. ~ Collecting(p)
  BY DEF Collecting, BeginRun, BeginAckLost, Inspect, InspectFails, PassBaseline,
          BlockSuspicious, BaselineFails, CommitSnapshot, CommitFails,
          CommitAckLost, MarkFailed, MarkFailedFails, Reconcile, ReconcileFails
<1>5. ~ Leaving(p)
  BY DEF Leaving, Close, CloseFails, Unlock, UnlockFails, Dispose
<1>6. ~ Cancel(p)
  BY DEF Cancel, CancelBody, CancelCollect, CancelRecovery, CancelLocking, CancelDispose
<1> QED
  BY <1>1, <1>2, <1>3, <1>4, <1>5, <1>6 DEF Moves, Step

(* ... and nothing else moves it or changes its outcome.                    *)
LEMMA DoneStays ==
    ASSUME TypeOK, [Next]_vars, NEW q \in Invocation, pc[q] = "done"
    PROVE  pc'[q] = "done" /\ outcome'[q] = outcome[q]
<1>1. ASSUME NEW p \in Invocation, Moves(p)
      PROVE  pc'[q] = "done" /\ outcome'[q] = outcome[q]
  BY <1>1, DoneMover, Frame DEF Same
<1>2. ASSUME NEW t \in Target, Reap(t) \/ OperatorSwitch(t)
      PROVE  pc'[q] = "done" /\ outcome'[q] = outcome[q]
  BY <1>2 DEF Reap, OperatorSwitch
<1>3. CASE Clock \/ UNCHANGED vars
  BY <1>3 DEF Clock, vars
<1> QED
  BY <1>1, <1>2, <1>3 DEF Next, Moves

(* An invocation that was cancelled goes straight for the way out, and has  *)
(* no success to report.                                                    *)
Noticed(p) ==
    p \in interrupted =>
        /\ pc[p] \in {"reconcile", "close", "unlock", "dispose"} \cup Ended
        /\ pc[p] \in {"close", "unlock", "dispose", "done"} => outcome[p] \in {"failed", "cancelled"}

(* No handler on the way out turns a cancellation into a success.           *)
LEMMA NoticedMover ==
    ASSUME TypeOK, NEW p \in Invocation, Moves(p), Noticed(p)
    PROVE  Noticed(p)'
<1> USE DEF TypeOK, Noticed, Ended
<1>1. CASE \E t \in Target, f \in BOOLEAN : Start(p, t, f)
  BY <1>1 DEF Start
<1>2. CASE RejectArguments(p)
  BY <1>2 DEF RejectArguments
<1>3. CASE Locking(p) \/ Preparing(p)
  BY <1>3
  DEF Locking, Preparing, AcquireLock, SkipInProgress, LockFails, FindBooru,
          RejectMismatch, MissBooru, CreateBooru, CreateConflict,
          CreateAckLost, SkipRecent, ReadLatest, QueryFails
<1>4. CASE Collecting(p)
  BY <1>4
  DEF Collecting, BeginRun, BeginAckLost, Inspect, InspectFails, PassBaseline,
          BlockSuspicious, BaselineFails, CommitSnapshot, CommitFails,
          CommitAckLost, MarkFailed, MarkFailedFails, Reconcile, ReconcileFails
<1>5. CASE Leaving(p)
  BY <1>5 DEF Leaving, Close, CloseFails, Unlock, UnlockFails, Dispose
<1>6. CASE Cancel(p)
  BY <1>6 DEF Cancel, CancelBody, CancelCollect, CancelRecovery, CancelLocking,
          CancelDispose
<1>7. CASE Kill(p)
  BY <1>7 DEF Kill
<1>8. CASE LoseLock(p)
  BY <1>8 DEF LoseLock
<1> QED
  BY <1>1, <1>2, <1>3, <1>4, <1>5, <1>6, <1>7, <1>8 DEF Moves, Step

(* ... nor does any other step.                                             *)
LEMMA NoticedNext ==
    ASSUME TypeOK, [Next]_vars, NEW q \in Invocation, Noticed(q)
    PROVE  Noticed(q)'
<1>1. ASSUME NEW p \in Invocation, Moves(p) PROVE Noticed(q)'
  BY <1>1, NoticedMover, Frame DEF Same, Noticed
<1>2. ASSUME NEW t \in Target, Reap(t) \/ OperatorSwitch(t) PROVE Noticed(q)'
  BY <1>2 DEF Reap, OperatorSwitch, Noticed
<1>3. CASE Clock \/ UNCHANGED vars
  BY <1>3 DEF Clock, vars, Noticed
<1> QED
  BY <1>1, <1>2, <1>3 DEF Next, Moves

------------------------------------------------------------------------------
(* The exit code.                                                           *)

(* The turns that are over ended without a cancellation, and without a      *)
(* failure if none was counted.                                             *)
Ledger ==
    /\ \A i \in 1 .. Size : i < turn =>
        /\ pc[Attempts[i]] = "done"
        /\ outcome[Attempts[i]] # "cancelled"
        /\ failures = 0 => outcome[Attempts[i]] # "failed"
    /\ exit = "zero" => turn > Size /\ failures = 0

(* The turn that ends is entered as it ended, and an entry does not change. *)
LEMMA LedgerNext ==
    ASSUME JobTypeOK, failures < turn, Ledger, [JobNext]_allVars
    PROVE  Ledger'
<1>1. [Next]_vars /\ TypeOK
  BY JobStepIsStep DEF JobTypeOK
<1>2. \A i \in 1 .. Size : Attempts[i] \in Invocation
  BY JobAssumption
<1>3. \A i \in 1 .. Size : pc[Attempts[i]] = "done" =>
        pc'[Attempts[i]] = "done" /\ outcome'[Attempts[i]] = outcome[Attempts[i]]
  BY <1>1, <1>2, DoneStays
<1>4. turn \in Nat /\ failures \in Nat /\ Size \in Nat
  BY JobAssumption DEF JobTypeOK
<1>5. CASE Advance
  <2>1. /\ turn' = turn + 1 /\ exit' = exit /\ exit = "none" /\ UNCHANGED <<pc, outcome>>
        /\ pc[Attempts[turn]] = "done" /\ outcome[Attempts[turn]] # "cancelled"
        /\ failures' = failures + Counted(outcome[Attempts[turn]])
    BY <1>5 DEF Advance, Finished, vars
  <2>2. failures' = 0 => failures = 0 /\ outcome[Attempts[turn]] # "failed"
    BY <1>4, <2>1 DEF Counted
  <2>3. \A i \in 1 .. Size : i < turn' => i < turn \/ i = turn
    BY <1>4, <2>1
  <2> QED
    BY <2>1, <2>2, <2>3 DEF Ledger
<1>6. CASE Report
  BY <1>4, <1>6 DEF Report, vars, Ledger
<1>7. CASE Break
  BY <1>7 DEF Break, vars, Ledger
<1>8. CASE UNCHANGED jobVars
  BY <1>3, <1>8 DEF jobVars, Ledger
<1> QED
  BY <1>5, <1>6, <1>7, <1>8 DEF JobNext, Job, Attempt, World, allVars

(* CATALOG_FAILURES=0 means that every target was collected or skipped and  *)
(* that nobody cancelled the job, whatever fails in it and beside it, lost  *)
(* acknowledgements included.                                               *)
THEOREM ZeroIsTrue == JobSpec => []ZeroMeansCollected
<1> DEFINE JobInv == /\ JobTypeOK
                     /\ failures < turn
                     /\ RunInv /\ ReportInv
                     /\ \A p \in Invocation : Noticed(p)
                     /\ Ledger
<1>1. ASSUME JobInit PROVE JobInv
  <2>1. Init /\ TypeOK
    BY <1>1, TypeInit DEF JobInit
  <2>2. RunInv /\ ReportInv /\ \A p \in Invocation : Noticed(p)
    BY <2>1, RunInit, ReportInit DEF Init, Noticed
  <2>3. JobTypeOK /\ failures < turn /\ Ledger
    BY <1>1, <2>1, JobAssumption DEF JobInit, JobTypeOK, Ledger
  <2> QED
    BY <2>2, <2>3
<1>2. ASSUME JobInv, [JobNext]_allVars PROVE JobInv'
  <2>1. TypeOK /\ [Next]_vars
    BY <1>2, JobStepIsStep DEF JobTypeOK
  <2>2. JobTypeOK' /\ (failures < turn)' /\ Ledger'
    BY <1>2, JobTypeNext, LedgerNext
  <2>3. RunInv' /\ ReportInv'
    BY <1>2, <2>1, RunInvNext, ReportNext
  <2>4. \A p \in Invocation : Noticed(p)'
    BY <1>2, <2>1, NoticedNext
  <2> QED
    BY <2>2, <2>3, <2>4
<1>3. ASSUME JobInv, exit = "zero", NEW i \in 1 .. Size
      PROVE  LET p == Attempts[i]
             IN  /\ pc[p] = "done"
                 /\ p \notin interrupted
                 /\ \/ outcome[p] = "succeeded" /\ HasSnapshot(p) /\ run[p] = "succeeded"
                    \/ outcome[p] = "skipped" /\ run[p] = "none"
  <2> DEFINE p == Attempts[i]
  <2>1. p \in Invocation /\ i < turn /\ failures = 0
    BY <1>3, JobAssumption DEF Ledger, JobTypeOK
  <2>2. pc[p] = "done" /\ outcome[p] \notin {"failed", "cancelled"}
    BY <1>3, <2>1 DEF Ledger
  <2>3. outcome[p] \in {"succeeded", "skipped"}
    BY <1>3, <2>1, <2>2 DEF ReportInv, ReportMatches, JobTypeOK, TypeOK, Outcome
  <2>4. p \notin interrupted
    BY <1>3, <2>1, <2>2 DEF Noticed
  <2>5. \/ outcome[p] = "succeeded" /\ HasSnapshot(p) /\ run[p] = "succeeded"
        \/ outcome[p] = "skipped" /\ run[p] = "none"
    BY <1>3, <2>1, <2>2, <2>3 DEF ReportInv, ReportMatches, RunInv, RunMatches
  <2> QED
    BY <2>2, <2>4, <2>5
<1>4. JobInv => ZeroMeansCollected
  BY <1>3 DEF ZeroMeansCollected
<1> HIDE DEF JobInv
<1> QED
  BY <1>1, <1>2, <1>4, PTL DEF JobSpec

------------------------------------------------------------------------------
(* The order of the attempts, and the number of failures.                   *)

(* The turns that are over and ended as failures.                           *)
FailedTurns == {i \in 1 .. Size : i < turn /\ outcome[Attempts[i]] = "failed"}

(* Earlier attempts are over, later ones have not begun, and what has been  *)
(* counted is what has failed.                                              *)
InTurn ==
    /\ \A i \in 1 .. Size :
        /\ i < turn => pc[Attempts[i]] = "done" /\ outcome[Attempts[i]] # "cancelled"
        /\ i > turn => pc[Attempts[i]] = "idle"
    /\ failures = Cardinality(FailedTurns)
    /\ exit \in {"zero", "one"} => turn > Size
    /\ exit = "zero" => failures = 0
    /\ exit = "one" => failures # 0

(* An invocation that has not been started does nothing but start.          *)
LEMMA IdleMover ==
    ASSUME NEW p \in Invocation, pc[p] = "idle"
    PROVE  ~ (Step(p) \/ Cancel(p) \/ Kill(p) \/ LoseLock(p))
<1>1. ~ Kill(p) /\ ~ LoseLock(p)
  BY DEF Kill, LoseLock, UnderLock
<1>2. ~ Locking(p) /\ ~ Preparing(p)
  BY DEF Locking, Preparing, AcquireLock, SkipInProgress, LockFails, FindBooru,
          RejectMismatch, MissBooru, CreateBooru, CreateConflict,
          CreateAckLost, SkipRecent, ReadLatest, QueryFails
<1>3. ~ Collecting(p)
  BY DEF Collecting, BeginRun, BeginAckLost, Inspect, InspectFails, PassBaseline,
          BlockSuspicious, BaselineFails, CommitSnapshot, CommitFails,
          CommitAckLost, MarkFailed, MarkFailedFails, Reconcile, ReconcileFails
<1>4. ~ Leaving(p)
  BY DEF Leaving, Close, CloseFails, Unlock, UnlockFails, Dispose
<1>5. ~ Cancel(p)
  BY DEF Cancel, CancelBody, CancelCollect, CancelRecovery, CancelLocking, CancelDispose
<1> QED
  BY <1>1, <1>2, <1>3, <1>4, <1>5 DEF Step

(* Only the job starts its attempts, each at its turn.                      *)
LEMMA IdleStays ==
    ASSUME JobTypeOK, [JobNext]_allVars,
           NEW i \in 1 .. Size, i # turn, pc[Attempts[i]] = "idle"
    PROVE  pc'[Attempts[i]] = "idle"
<1> DEFINE q == Attempts[i]
<1>1. q \in Invocation /\ pc[q] = "idle" /\ TypeOK
  BY JobAssumption DEF JobTypeOK
<1>2. ASSUME NEW p \in Invocation, p # q, Moves(p) PROVE pc'[q] = "idle"
  BY <1>1, <1>2, Frame DEF Same
<1>3. CASE Attempt
  <2>1. turn \in 1 .. Size /\ Attempts[turn] # q
    BY <1>3, JobAssumption DEF Attempt, JobTypeOK
  <2>2. Moves(Attempts[turn]) /\ Attempts[turn] \in Invocation
    BY <1>3, <2>1, JobAssumption DEF Attempt, Moves
  <2> QED
    BY <1>2, <2>1, <2>2
<1>4. CASE World
  <2>1. ASSUME NEW p \in Others, RejectArguments(p) \/ \E t \in Target, f \in BOOLEAN : Start(p, t, f)
        PROVE  pc'[q] = "idle"
    BY <1>2, <2>1 DEF Others, Moves
  <2>2. ASSUME NEW p \in Invocation, Step(p) \/ Cancel(p) \/ Kill(p) \/ LoseLock(p)
        PROVE  pc'[q] = "idle"
    BY <1>1, <1>2, <2>2, IdleMover DEF Moves
  <2>3. CASE (\E t \in Target : Reap(t) \/ OperatorSwitch(t)) \/ Clock
    BY <1>1, <2>3 DEF Reap, OperatorSwitch, Clock
  <2> QED
    BY <1>4, <2>1, <2>2, <2>3 DEF World
<1>5. CASE Advance \/ Report \/ Break \/ UNCHANGED allVars
  BY <1>1, <1>5 DEF Advance, Report, Break, allVars, vars
<1> QED
  BY <1>3, <1>4, <1>5 DEF JobNext, Job

(* The count of failures goes up by one exactly when a failed turn ends.    *)
LEMMA CountAdvances ==
    ASSUME JobTypeOK, InTurn, Advance
    PROVE  (failures = Cardinality(FailedTurns))'
<1>1. turn \in 1 .. Size /\ turn' = turn + 1 /\ outcome' = outcome
  BY JobAssumption DEF Advance, JobTypeOK, vars
<1>2. IsFiniteSet(FailedTurns)
  <2>1. IsFiniteSet(1 .. Size) /\ FailedTurns \subseteq 1 .. Size
    BY FS_Interval, JobAssumption DEF FailedTurns
  <2> QED
    BY <2>1, FS_Subset
<1>3. turn \notin FailedTurns
  BY <1>1 DEF FailedTurns
<1>4. CASE outcome[Attempts[turn]] = "failed"
  <2>1. FailedTurns' = FailedTurns \cup {turn}
    BY <1>1, <1>4 DEF FailedTurns
  <2>2. Cardinality(FailedTurns \cup {turn}) = Cardinality(FailedTurns) + 1
    BY <1>2, <1>3, FS_AddElement
  <2>3. failures' = failures + 1
    BY <1>4 DEF Advance, Counted
  <2> QED
    BY <2>1, <2>2, <2>3 DEF InTurn
<1>5. CASE outcome[Attempts[turn]] # "failed"
  <2>1. FailedTurns' = FailedTurns
    BY <1>1, <1>5 DEF FailedTurns
  <2>2. failures' = failures
    BY <1>5 DEF Advance, Counted, JobTypeOK
  <2> QED
    BY <2>1, <2>2 DEF InTurn
<1> QED
  BY <1>4, <1>5

(* Every step keeps the attempts in turn.                                   *)
LEMMA InTurnNext ==
    ASSUME JobTypeOK, InTurn, [JobNext]_allVars
    PROVE  InTurn'
<1>1. [Next]_vars /\ TypeOK
  BY JobStepIsStep DEF JobTypeOK
<1>2. \A i \in 1 .. Size : Attempts[i] \in Invocation
  BY JobAssumption
<1>3. \A i \in 1 .. Size : pc[Attempts[i]] = "done" =>
        pc'[Attempts[i]] = "done" /\ outcome'[Attempts[i]] = outcome[Attempts[i]]
  BY <1>1, <1>2, DoneStays
<1>4. turn \in Nat /\ failures \in Nat /\ Size \in Nat
  BY JobAssumption DEF JobTypeOK
<1>5. CASE Advance
  <2>1. /\ turn' = turn + 1 /\ exit' = exit /\ exit = "none" /\ UNCHANGED <<pc, outcome>>
        /\ pc[Attempts[turn]] = "done" /\ outcome[Attempts[turn]] # "cancelled"
    BY <1>5 DEF Advance, Finished, vars
  <2>2. \A i \in 1 .. Size : (i < turn' => i < turn \/ i = turn) /\ (i > turn' => i > turn)
    BY <1>4, <2>1
  <2>3. (failures = Cardinality(FailedTurns))'
    BY <1>5, CountAdvances
  <2> QED
    BY <2>1, <2>2, <2>3 DEF InTurn
<1>6. CASE Report \/ Break
  <2>1. FailedTurns' = FailedTurns
    BY <1>6 DEF Report, Break, vars, FailedTurns
  <2> QED
    BY <1>4, <1>6, <2>1 DEF Report, Break, vars, InTurn
<1>7. CASE UNCHANGED jobVars
  <2>1. \A i \in 1 .. Size : i > turn => pc'[Attempts[i]] = "idle"
    BY <1>4, IdleStays DEF InTurn
  <2>2. FailedTurns' = FailedTurns
    BY <1>3, <1>7 DEF jobVars, FailedTurns, InTurn
  <2> QED
    BY <1>3, <1>7, <2>1, <2>2 DEF jobVars, InTurn
<1> QED
  BY <1>5, <1>6, <1>7 DEF JobNext, Job, Attempt, World, allVars

(* The attempts are made one at a time and in the order of the catalog: one *)
(* is under way only after all before it have ended and before any after it *)
(* has started (run_catalog_collection awaits each call).                   *)
AttemptsInOrder ==
    \A i, j \in 1 .. Size :
        i < j /\ pc[Attempts[j]] # "idle" => pc[Attempts[i]] = "done"

(* When the job reports, every target has been attempted, CATALOG_FAILURES  *)
(* is the number of the attempts that failed, and the exit code is 1 if and *)
(* only if there was one.                                                   *)
ExitIsExact ==
    exit \in {"zero", "one"} =>
        /\ \A i \in 1 .. Size : pc[Attempts[i]] = "done"
        /\ failures = Cardinality({i \in 1 .. Size : outcome[Attempts[i]] = "failed"})
        /\ exit = "one" <=> \E i \in 1 .. Size : outcome[Attempts[i]] = "failed"

(* Whatever fails in an attempt or beside the job, the next one waits for   *)
(* its end and is made after all, and the job's report is exact.            *)
THEOREM JobReportsExactly == JobSpec => []AttemptsInOrder /\ []ExitIsExact
<1> DEFINE JobInv == JobTypeOK /\ failures < turn /\ InTurn
<1>1. ASSUME JobInit PROVE JobInv
  <2>1. JobTypeOK /\ failures < turn
    BY <1>1, TypeInit, JobAssumption DEF JobInit, JobTypeOK
  <2>2. FailedTurns = {}
    BY <1>1, JobAssumption DEF JobInit, FailedTurns
  <2>3. Cardinality(FailedTurns) = 0
    BY <2>2, FS_EmptySet
  <2> QED
    BY <1>1, <2>1, <2>3, JobAssumption DEF JobInit, Init, InTurn
<1>2. JobInv /\ [JobNext]_allVars => JobInv'
  BY JobTypeNext, InTurnNext
<1>3. JobInv => AttemptsInOrder
  BY JobAssumption DEF InTurn, AttemptsInOrder, JobTypeOK
<1>4. ASSUME JobInv, exit \in {"zero", "one"} PROVE ExitIsExact
  <2> DEFINE Failed == {i \in 1 .. Size : outcome[Attempts[i]] = "failed"}
  <2>1. FailedTurns = Failed
    BY <1>4, JobAssumption DEF FailedTurns, InTurn, JobTypeOK
  <2>2. IsFiniteSet(Failed)
    BY FS_Interval, FS_Subset, JobAssumption
  <2>3. Failed = {} <=> failures = 0
    BY <1>4, <2>1, <2>2, FS_EmptySet DEF InTurn
  <2>4. exit = "one" <=> failures # 0
    BY <1>4 DEF InTurn
  <2>5. \A i \in 1 .. Size : pc[Attempts[i]] = "done"
    BY <1>4, JobAssumption DEF InTurn, JobTypeOK
  <2>6. failures = Cardinality(Failed)
    BY <1>4, <2>1 DEF InTurn
  <2>7. exit = "one" <=> \E i \in 1 .. Size : outcome[Attempts[i]] = "failed"
    BY <2>3, <2>4
  <2> QED
    BY <2>5, <2>6, <2>7 DEF ExitIsExact
<1>5. JobInv => ExitIsExact
  BY <1>4 DEF ExitIsExact
<1> HIDE DEF JobInv
<1> QED
  BY <1>1, <1>2, <1>3, <1>5, PTL DEF JobSpec
==============================================================================
