------------------------- MODULE CollectorHistoryProofs -------------------------
(****************************************************************************)
(* Theorems about what the collectors of one target do to its history: what *)
(* one of them has read of it stays true until it commits, because it is    *)
(* inside the lock, and so the commits implement History.tla.               *)
(****************************************************************************)
EXTENDS CollectorProofs

USE DEF database, local, Goto, End, Body, EndProcess

------------------------------------------------------------------------------
(* How the four awaits between the decision and the commit are reached.     *)

(* From the decision that the interval is over to the commit.               *)
Decided == {"begin", "inspect", "baseline", "commit"}

(* The steps of an invocation that lead there.                              *)
LEMMA Path ==
    ASSUME TypeOK, "lock_loss" \notin Environment,
           NEW p \in Invocation, Moves(p), pc'[p] \in Decided
    PROVE  ReadLatest(p) \/ BeginRun(p) \/ Inspect(p) \/ PassBaseline(p)
<1> USE DEF TypeOK, Decided
<1>1. CASE \E t \in Target, f \in BOOLEAN : Start(p, t, f)
  BY <1>1 DEF Start
<1>2. CASE RejectArguments(p)
  BY <1>2 DEF RejectArguments
<1>3. CASE Locking(p) \/ Preparing(p)
  BY <1>3
  DEF Locking, Preparing, AcquireLock, SkipInProgress, LockFails, FindBooru,
          RejectMismatch, MissBooru, CreateBooru, CreateConflict,
          CreateAckLost, SkipRecent, QueryFails
<1>4. CASE Collecting(p)
  BY <1>4
  DEF Collecting, BeginAckLost, InspectFails,
          BlockSuspicious, BaselineFails, CommitSnapshot, CommitFails,
          CommitAckLost, MarkFailed, MarkFailedFails, Reconcile, ReconcileFails
<1>5. CASE Leaving(p)
  BY <1>5 DEF Leaving, Close, CloseFails, Unlock, UnlockFails, Dispose
<1>6. CASE Cancel(p)
  BY <1>6 DEF Cancel, CancelBody, CancelCollect, CancelRecovery, CancelLocking,
          CancelDispose
<1>7. CASE Kill(p)
  BY <1>7 DEF Kill
<1>8. CASE LoseLock(p)
  BY <1>8 DEF LoseLock
<1> QED
  BY <1>1, <1>2, <1>3, <1>4, <1>5, <1>6, <1>7, <1>8 DEF Moves, Step

(* Before the commit an invocation has been nowhere after it.               *)
Early == BeforeRun \cup Decided

(* No step leads back before the commit.                                    *)
LEMMA EarlyStaysEarly ==
    ASSUME TypeOK, NEW p \in Invocation, Moves(p), pc'[p] \in Early
    PROVE  pc[p] \in Early
<1> USE DEF TypeOK, Early, BeforeRun, Decided
<1>1. CASE \E t \in Target, f \in BOOLEAN : Start(p, t, f)
  BY <1>1 DEF Start
<1>2. CASE RejectArguments(p)
  BY <1>2 DEF RejectArguments
<1>3. CASE Locking(p) \/ Preparing(p)
  BY <1>3
  DEF Locking, Preparing, AcquireLock, SkipInProgress, LockFails, FindBooru,
          RejectMismatch, MissBooru, CreateBooru, CreateConflict,
          CreateAckLost, SkipRecent, ReadLatest, QueryFails
<1>4. CASE Collecting(p)
  BY <1>4
  DEF Collecting, BeginRun, BeginAckLost, Inspect, InspectFails, PassBaseline,
          BlockSuspicious, BaselineFails, CommitSnapshot, CommitFails,
          CommitAckLost, MarkFailed, MarkFailedFails, Reconcile, ReconcileFails
<1>5. CASE Leaving(p)
  BY <1>5 DEF Leaving, Close, CloseFails, Unlock, UnlockFails, Dispose
<1>6. CASE Cancel(p)
  BY <1>6 DEF Cancel, CancelBody, CancelCollect, CancelRecovery, CancelLocking,
          CancelDispose
<1>7. CASE Kill(p)
  BY <1>7 DEF Kill
<1>8. CASE LoseLock(p)
  BY <1>8 DEF LoseLock
<1> QED
  BY <1>1, <1>2, <1>3, <1>4, <1>5, <1>6, <1>7, <1>8 DEF Moves, Step

(* An invocation at its commit does not stay there.                         *)
LEMMA CommitLeaves ==
    ASSUME TypeOK, NEW p \in Invocation, Moves(p), pc[p] = "commit", AcceptCandidate(p)
    PROVE  snapshots' = snapshots \/ pc'[p] \notin Early
<1> USE DEF TypeOK, Early, BeforeRun, Decided
<1>1. CASE \E t \in Target, f \in BOOLEAN : Start(p, t, f)
  BY <1>1 DEF Start
<1>2. CASE RejectArguments(p)
  BY <1>2 DEF RejectArguments
<1>3. CASE Locking(p) \/ Preparing(p)
  BY <1>3
  DEF Locking, Preparing, AcquireLock, SkipInProgress, LockFails, FindBooru,
          RejectMismatch, MissBooru, CreateBooru, CreateConflict,
          CreateAckLost, SkipRecent, ReadLatest, QueryFails
<1>4. CASE Collecting(p)
  BY <1>4
  DEF Collecting, BeginRun, BeginAckLost, Inspect, InspectFails, PassBaseline,
          BlockSuspicious, BaselineFails, CommitSnapshot, CommitFails,
          CommitAckLost, MarkFailed, MarkFailedFails, Reconcile, ReconcileFails
<1>5. CASE Leaving(p)
  BY <1>5 DEF Leaving, Close, CloseFails, Unlock, UnlockFails, Dispose
<1>6. CASE Cancel(p)
  BY <1>6 DEF Cancel, CancelBody, CancelCollect, CancelRecovery, CancelLocking,
          CancelDispose
<1>7. CASE Kill(p)
  BY <1>7 DEF Kill
<1>8. CASE LoseLock(p)
  BY <1>8 DEF LoseLock
<1> QED
  BY <1>1, <1>2, <1>3, <1>4, <1>5, <1>6, <1>7, <1>8 DEF Moves, Step

------------------------------------------------------------------------------
(* The history of a target.                                                 *)

(* The row that the final commit of p adds.                                 *)
Row(p, c) ==
    [run |-> p, target |-> target[p], captured_at |-> c.captured_at, total_posts |-> c.total_posts]

(* A commit adds one row to its own target's history and to no other's.     *)
LEMMA CommitEffect ==
    ASSUME TypeOK, NEW p \in Invocation, pc[p] = "commit", AcceptCandidate(p)
    PROVE  /\ target[p] \in Target
           /\ \E c \in candidate[p] :
                /\ c \in Observation
                /\ \A u \in Target :
                    Accepted(u)' = IF u = target[p] THEN Accepted(u) \cup {Row(p, c)} ELSE Accepted(u)
           /\ booru' = [booru EXCEPT ![target[p]] = IF publish[p] THEN "enabled" ELSE @]
<1>1. target[p] \in Target
  BY DEF TypeOK, Locations, Ended
<1>2. PICK c \in candidate[p] : snapshots' = snapshots \cup {Row(p, c)}
  BY DEF AcceptCandidate, Row
<1>3. c \in Observation
  BY <1>2 DEF TypeOK
<1>4. Row(p, c).target = target[p]
  BY DEF Row
<1>5. ASSUME NEW u \in Target
      PROVE  Accepted(u)' = IF u = target[p] THEN Accepted(u) \cup {Row(p, c)} ELSE Accepted(u)
  BY <1>2, <1>4 DEF Accepted
<1>6. booru' = [booru EXCEPT ![target[p]] = IF publish[p] THEN "enabled" ELSE @]
  BY DEF AcceptCandidate
<1> QED
  BY <1>1, <1>2, <1>3, <1>5, <1>6

(* Inside the lock, nobody else adds to the history.                        *)
LEMMA HistoryIsHeld ==
    ASSUME TypeOK, LockHeld, NEW p \in Invocation, Moves(p),
           NEW q \in Invocation, q # p, pc[q] \in UnderLock
    PROVE  /\ target[q] \in Target /\ target'[q] = target[q]
           /\ \A t \in Target : t = target[q] => Accepted(t)' = Accepted(t)
<1>1. target[q] \in Target /\ holder[target[q]] = q
  BY DEF TypeOK, LockHeld, UnderLock, Locations, Ended
<1>2. target'[q] = target[q]
  BY Frame DEF Same
<1>3. CASE pc[p] = "commit" /\ AcceptCandidate(p)
  <2>1. holder[target[p]] = p
    BY <1>3 DEF LockHeld, UnderLock, Locations, Ended
  <2>2. target[q] # target[p]
    BY <1>1, <2>1
  <2> QED
    BY <1>1, <1>2, <1>3, <2>2, CommitEffect
<1>4. CASE snapshots' = snapshots
  BY <1>1, <1>2, <1>4 DEF Accepted
<1> QED
  BY <1>3, <1>4, HistorySteps

(* What is accepted has a time.                                             *)
LEMMA AcceptedType ==
    ASSUME TypeOK, NEW t \in Target, NEW s \in Accepted(t)
    PROVE  s.captured_at \in Nat /\ s.captured_at <= MaxTime
BY CollectorAssumption DEF TypeOK, Accepted, SnapshotRow

(* Steps that are nobody's leave every history and every invocation alone.  *)
LEMMA WorldSteps ==
    ASSUME [Next]_vars, \A p \in Invocation : ~ Moves(p)
    PROVE  /\ UNCHANGED <<snapshots, pc, target, force, publish, candidate, outcome, run, started_at, interrupted>>
           /\ \A t \in Target : Accepted(t)' = Accepted(t) /\ Latest(t)' = Latest(t)
<1>1. CASE \E t \in Target : Reap(t) \/ OperatorSwitch(t)
  BY <1>1 DEF Reap, OperatorSwitch, Accepted, Latest
<1>2. CASE Clock \/ UNCHANGED vars
  BY <1>2 DEF Clock, vars, Accepted, Latest
<1> QED
  BY <1>1, <1>2 DEF Next, Moves

------------------------------------------------------------------------------
(* An invocation before its commit has no snapshot.                         *)

Fresh == \A p \in Invocation : pc[p] \in Early => ~ HasSnapshot(p)

(* Only the commit stores one, and it goes on from there.                   *)
LEMMA FreshNext ==
    ASSUME TypeOK, Fresh, [Next]_vars
    PROVE  Fresh'
<1> SUFFICES ASSUME NEW q \in Invocation, pc'[q] \in Early
             PROVE  ~ HasSnapshot(q)'
  BY DEF Fresh
<1>1. ASSUME NEW p \in Invocation, Moves(p) PROVE ~ HasSnapshot(q)'
  <2>1. pc[q] \in Early
    BY <1>1, Frame, EarlyStaysEarly DEF Same
  <2>2. ~ HasSnapshot(q)
    BY <2>1 DEF Fresh
  <2>3. CASE snapshots' = snapshots
    BY <2>2, <2>3 DEF HasSnapshot
  <2>4. CASE pc[p] = "commit" /\ AcceptCandidate(p) /\ p # q
    BY <2>2, <2>4 DEF HasSnapshot, AcceptCandidate
  <2> QED
    BY <1>1, <2>3, <2>4, HistorySteps, CommitLeaves
<1>2. CASE \A p \in Invocation : ~ Moves(p)
  BY <1>2, WorldSteps DEF Fresh, HasSnapshot
<1> QED
  BY <1>1, <1>2

(* A history that is not empty has a newest observation.                    *)
NewestExists == \A t \in Target : Accepted(t) # {} => Latest(t) # {}

(* A new observation is the newest, or leaves the newest where it was.      *)
LEMMA NewestExistsNext ==
    ASSUME TypeOK, TypeOK', NewestExists, [Next]_vars
    PROVE  NewestExists'
<1>1. ASSUME NEW p \in Invocation, pc[p] = "commit", AcceptCandidate(p), NEW t \in Target
      PROVE  Accepted(t)' # {} => Latest(t)' # {}
  <2>1. PICK c \in candidate[p] :
          /\ c \in Observation
          /\ Accepted(t)' = IF t = target[p] THEN Accepted(t) \cup {Row(p, c)} ELSE Accepted(t)
    BY <1>1, CommitEffect
  <2>2. Latest(t)' = {s \in Accepted(t)' : \A other \in Accepted(t)' : other.captured_at <= s.captured_at}
    BY DEF Latest
  <2>3. CASE t # target[p]
    BY <2>1, <2>2, <2>3 DEF NewestExists, Latest
  <2>4. CASE t = target[p] /\ Accepted(t) = {}
    <3>1. Row(p, c).captured_at \in Nat
      BY <2>1, CollectorAssumption DEF Row, Observation
    <3> QED
      BY <2>1, <2>2, <2>4, <3>1
  <2>5. CASE t = target[p] /\ Accepted(t) # {}
    <3>1. PICK s \in Accepted(t) : \A other \in Accepted(t) : other.captured_at <= s.captured_at
      BY <2>5 DEF NewestExists, Latest
    <3>2. Row(p, c).captured_at \in Nat /\ \A other \in Accepted(t) : other.captured_at \in Nat
      BY <2>1, AcceptedType, CollectorAssumption DEF Row, Observation
    <3>3. CASE Row(p, c).captured_at <= s.captured_at
      BY <2>1, <2>2, <2>5, <3>1, <3>3
    <3>4. CASE ~ Row(p, c).captured_at <= s.captured_at
      <4>1. \A other \in Accepted(t)' : other.captured_at <= Row(p, c).captured_at
        BY <2>1, <2>5, <3>1, <3>2, <3>4
      <4> QED
        BY <2>1, <2>2, <2>5, <4>1
    <3> QED
      BY <3>3, <3>4
  <2> QED
    BY <2>3, <2>4, <2>5
<1>2. CASE snapshots' = snapshots
  BY <1>2 DEF NewestExists, Latest, Accepted
<1>3. CASE \A p \in Invocation : ~ Moves(p)
  BY <1>3, WorldSteps DEF NewestExists
<1> QED
  BY <1>1, <1>2, <1>3, HistorySteps DEF NewestExists

------------------------------------------------------------------------------
(* What was judged stays true until the commit.                             *)

(* An invocation that will publish has no history before it, and what it    *)
(* is about to commit is plausible against the newest observation there is. *)
Judged(p) ==
    /\ pc[p] \in Decided /\ publish[p] => Accepted(target[p]) = {}
    /\ pc[p] \in {"baseline", "commit"} => \A c, d \in candidate[p] : c = d
    /\ pc[p] = "commit" =>
        \A c \in candidate[p] :
            \/ Latest(target[p]) = {}
            \/ \E s \in Latest(target[p]) : ~ Suspicious(s.total_posts, c.total_posts)

(* Nothing changes between the judgement and the commit: under the lock     *)
(* only the invocation itself adds to the history of its target.            *)
LEMMA JudgedNext ==
    ASSUME TypeOK, LockHeld, NewestExists, "lock_loss" \notin Environment,
           \A p \in Invocation : Judged(p), [Next]_vars, NEW q \in Invocation
    PROVE  Judged(q)'
<1>1. CASE pc'[q] \notin Decided
  BY <1>1 DEF Judged, Decided
<1>2. CASE Moves(q) /\ pc'[q] \in Decided
  <2> USE <1>2 DEF TypeOK, Judged, Decided, Latest, Accepted
  <2>1. CASE ReadLatest(q)
    <3>1. publish'[q] => Latest(target[q]) = {} /\ target[q] \in Target
      BY <2>1 DEF ReadLatest, Locations, Ended
    <3>2. publish'[q] => Accepted(target[q]) = {}
      BY <3>1 DEF NewestExists
    <3> QED
      BY <2>1, <3>2 DEF ReadLatest
  <2>2. CASE BeginRun(q)
    BY <2>2 DEF BeginRun
  <2>3. CASE Inspect(q)
    BY <2>3 DEF Inspect
  <2>4. CASE PassBaseline(q)
    BY <2>4 DEF PassBaseline
  <2> QED
    BY <2>1, <2>2, <2>3, <2>4, Path
<1>3. ASSUME NEW p \in Invocation, Moves(p), p # q, pc'[q] \in Decided
      PROVE  Judged(q)'
  <2>1. Same(q)
    BY <1>3, Frame
  <2>2. pc[q] \in UnderLock
    BY <1>3, <2>1 DEF Same, Decided, UnderLock, Locations, Ended
  <2>3. target[q] \in Target /\ target'[q] = target[q]
    BY <1>3, <2>2, HistoryIsHeld
  <2>4. Accepted(target[q])' = Accepted(target[q]) /\ Latest(target[q])' = Latest(target[q])
    BY <1>3, <2>2, <2>3, HistoryIsHeld DEF Latest
  <2> QED
    BY <2>1, <2>4 DEF Judged, Same
<1>4. CASE \A p \in Invocation : ~ Moves(p)
  <2>1. pc[q] \in Decided => target[q] \in Target
    BY DEF TypeOK, Decided, Locations, Ended
  <2> QED
    BY <1>4, <2>1, WorldSteps DEF Judged, Accepted, Latest
<1> QED
  BY <1>1, <1>2, <1>3, <1>4

------------------------------------------------------------------------------
(* The refinement.                                                          *)

HistoryInv ==
    /\ TypeOK
    /\ LockHeld
    /\ Fresh
    /\ NewestExists
    /\ \A p \in Invocation : Judged(p)

(* It holds before the first invocation.                                    *)
LEMMA HistoryInvInit == Init => HistoryInv
<1> SUFFICES ASSUME Init PROVE HistoryInv
  OBVIOUS
<1>1. Fresh /\ NewestExists
  BY DEF Init, Fresh, HasSnapshot, NewestExists, Accepted
<1>2. LockHeld /\ \A p \in Invocation : Judged(p)
  BY DEF Init, LockHeld, UnderLock, Judged, Decided
<1> QED
  BY <1>1, <1>2, TypeInit DEF HistoryInv

(* It is inductive.                                                         *)
LEMMA HistoryInvNext ==
    ASSUME "lock_loss" \notin Environment, HistoryInv, [Next]_vars
    PROVE  HistoryInv'
<1>1. TypeOK'
  BY TypeNext DEF HistoryInv
<1>2. LockHeld' /\ Fresh' /\ NewestExists'
  BY <1>1, LockHeldNext, FreshNext, NewestExistsNext DEF HistoryInv
<1>3. \A p \in Invocation : Judged(p)'
  BY JudgedNext DEF HistoryInv
<1> QED
  BY <1>1, <1>2, <1>3 DEF HistoryInv

(* The anomaly guard blocks exactly the totals that the history does not    *)
(* admit, for any thresholds and at their boundaries.                       *)
LEMMA GuardIsPromise ==
    ASSUME NEW previous \in Nat, NEW total \in Nat
    PROVE  Abstract!Plausible(previous, total) <=> ~ Suspicious(previous, total)
<1> USE ThresholdAssumption
<1>1. CatastrophicDrop(previous, total) <=>
        ~ (previous <= 2 * total \/ previous - total < DropMinimum)
  BY DEF CatastrophicDrop
<1>2. previous * GrowthMultiplier \in Nat
  OBVIOUS
<1>3. CatastrophicGrowth(previous, total) <=>
        ~ (total <= previous * GrowthMultiplier \/ total - previous < GrowthMinimum)
  BY <1>2 DEF CatastrophicGrowth
<1> QED
  BY <1>1, <1>3 DEF Suspicious, Abstract!Plausible

(* A commit is an acceptance.                                               *)
LEMMA CommitAccepts ==
    ASSUME HistoryInv, NEW p \in Invocation, pc[p] = "commit", AcceptCandidate(p)
    PROVE  \E t \in Target, r \in Invocation, at \in 0 .. MaxTime, total \in Counts :
                Abstract!Accept(t, r, at, total)
<1> DEFINE t == target[p]
           history == [u \in Target |-> Accepted(u)]
           published == {u \in Target : booru[u] = "enabled"}
<1>1. PICK c \in candidate[p] :
        /\ c \in Observation
        /\ \A u \in Target : Accepted(u)' = IF u = t THEN Accepted(u) \cup {Row(p, c)} ELSE Accepted(u)
  BY CommitEffect DEF HistoryInv
<1>2. t \in Target /\ booru' = [booru EXCEPT ![t] = IF publish[p] THEN "enabled" ELSE @]
  BY CommitEffect DEF HistoryInv
<1>3. c.captured_at \in 0 .. MaxTime /\ c.total_posts \in Counts
  BY <1>1 DEF Observation
<1>4. \A o \in history[t] : o.run # p
  BY <1>2 DEF HistoryInv, Fresh, Early, Decided, HasSnapshot, Accepted
<1>5. history[t] = {} \/ \E o \in Abstract!Newest(history[t]) : Abstract!Plausible(o.total_posts, c.total_posts)
  <2>1. Abstract!Newest(Accepted(t)) = Latest(t)
    BY DEF Abstract!Newest, Latest
  <2>2. Latest(t) = {} \/ \E o \in Latest(t) : ~ Suspicious(o.total_posts, c.total_posts)
    BY <1>1 DEF HistoryInv, Judged
  <2>3. Latest(t) = {} => Accepted(t) = {}
    BY <1>2 DEF HistoryInv, NewestExists
  <2>4. \A o \in Latest(t) : o.total_posts \in Nat /\ c.total_posts \in Nat
    BY <1>3, CollectorAssumption DEF HistoryInv, TypeOK, SnapshotRow, Latest, Accepted
  <2> QED
    BY <1>2, <2>1, <2>2, <2>3, <2>4, GuardIsPromise
<1>6. history' = [history EXCEPT ![t] = @ \cup
            {[run |-> p, target |-> t, captured_at |-> c.captured_at, total_posts |-> c.total_posts]}]
  <2>1. [run |-> p, target |-> t, captured_at |-> c.captured_at, total_posts |-> c.total_posts] = Row(p, c)
    BY DEF Row
  <2>2. history' = [u \in Target |-> Accepted(u)']
    OBVIOUS
  <2> HIDE DEF t
  <2> QED
    BY <1>1, <1>2, <2>1, <2>2
<1>7. \/ published' = published
      \/ history[t] = {} /\ published' = published \cup {t}
  <2>1. CASE publish[p]
    <3>1. Accepted(t) = {}
      BY <2>1 DEF HistoryInv, Judged, Decided
    <3>2. published' = published \cup {t}
      BY <1>2, <2>1 DEF HistoryInv, TypeOK
    <3> QED
      BY <1>2, <3>1, <3>2
  <2>2. CASE ~ publish[p]
    BY <1>2, <2>2 DEF HistoryInv, TypeOK
  <2> QED
    BY <2>1, <2>2
<1>8. Abstract!Accept(t, p, c.captured_at, c.total_posts)
  BY <1>4, <1>5, <1>6, <1>7 DEF Abstract!Accept
<1> HIDE DEF t
<1> QED
  BY <1>2, <1>3, <1>8

(* Every step is an abstract step or changes nothing abstract.              *)
LEMMA StepRefines ==
    ASSUME HistoryInv, [Next]_vars
    PROVE  [Abstract!Next]_(Abstract!vars)
<1>1. ASSUME snapshots' = snapshots,
             \A t \in Target : booru'[t] = "enabled" <=> booru[t] = "enabled"
      PROVE  UNCHANGED Abstract!vars
  BY <1>1 DEF Abstract!vars, Accepted
<1>2. ASSUME NEW p \in Invocation, Moves(p)
      PROVE  [Abstract!Next]_(Abstract!vars)
  BY <1>1, <1>2, HistorySteps, CommitAccepts DEF Abstract!Next, HistoryInv
<1>3. ASSUME NEW t \in Target, Reap(t)
      PROVE  [Abstract!Next]_(Abstract!vars)
  BY <1>1, <1>3 DEF Reap
<1>4. ASSUME NEW t \in Target, OperatorSwitch(t)
      PROVE  [Abstract!Next]_(Abstract!vars)
  <2>1. Abstract!Switch(t)
    BY <1>4 DEF OperatorSwitch, Abstract!Switch, HistoryInv, TypeOK, Accepted
  <2> QED
    BY <2>1 DEF Abstract!Next
<1>5. CASE Clock \/ UNCHANGED vars
  BY <1>1, <1>5 DEF Clock, vars
<1> QED
  BY <1>2, <1>3, <1>4, <1>5 DEF Next, Moves

(* If no lock connection is lost, the collectors implement the append-only, *)
(* plausible history of History.tla, with lost acknowledgements, kills,     *)
(* cancellations, clock steps and an operator beside them.                  *)
THEOREM HistoryImplemented ==
    ASSUME "lock_loss" \notin Environment
    PROVE  Spec => ImplementsHistory
<1>1. Init => Abstract!Init
  BY DEF Init, Abstract!Init, Accepted
<1>2. Init => HistoryInv
  BY HistoryInvInit
<1>3. HistoryInv /\ [Next]_vars => HistoryInv'
  BY HistoryInvNext
<1>4. HistoryInv /\ [Next]_vars => [Abstract!Next]_(Abstract!vars)
  BY StepRefines
<1> QED
  BY <1>1, <1>2, <1>3, <1>4, PTL DEF Spec, ImplementsHistory, Abstract!Spec

(* If no lock connection is lost, only the operator and the commit of the   *)
(* first snapshot show a hidden source.                                     *)
THEOREM ShownByFirst ==
    ASSUME "lock_loss" \notin Environment
    PROVE  Spec => ShownOnlyByFirstSnapshot
<1>1. ASSUME HistoryInv, [Next]_vars, NEW t \in Target,
             booru[t] # "enabled", booru'[t] = "enabled", ~ OperatorSwitch(t)
      PROVE  Accepted(t) = {} /\ Accepted(t)' # {}
  <2>1. ASSUME NEW p \in Invocation, Moves(p)
        PROVE  Accepted(t) = {} /\ Accepted(t)' # {}
    <3>1. pc[p] = "commit" /\ AcceptCandidate(p)
      BY <1>1, <2>1, HistorySteps DEF HistoryInv
    <3>2. t = target[p] /\ publish[p]
      BY <1>1, <3>1, CommitEffect DEF HistoryInv, TypeOK
    <3>3. Accepted(t) = {}
      BY <1>1, <3>1, <3>2 DEF HistoryInv, Judged, Decided
    <3> QED
      BY <1>1, <3>1, <3>2, <3>3, CommitEffect DEF HistoryInv
  <2>2. ASSUME NEW u \in Target, OperatorSwitch(u)
        PROVE  booru'[t] = booru[t]
    BY <1>1, <2>2 DEF OperatorSwitch, HistoryInv, TypeOK
  <2>3. (\E u \in Target : Reap(u)) \/ Clock \/ UNCHANGED vars => booru'[t] = booru[t]
    BY DEF Reap, Clock, vars
  <2> QED
    BY <1>1, <2>1, <2>2, <2>3 DEF Next, Moves
<1>2. HistoryInv /\ [Next]_vars =>
        [\A t \in Target :
            /\ booru[t] # "enabled"
            /\ booru'[t] = "enabled"
            /\ ~ OperatorSwitch(t)
            => Accepted(t) = {} /\ Accepted(t)' # {}]_vars
  BY <1>1
<1> QED
  BY <1>2, HistoryInvInit, HistoryInvNext, PTL DEF Spec, ShownOnlyByFirstSnapshot

------------------------------------------------------------------------------
(* The minimum interval.                                                    *)

(* An interval that was over when it was judged is over for the candidate,  *)
(* because nobody else adds to the history and the clock runs forward.      *)
Spaced(p) ==
    ~ force[p] =>
        \A s \in Accepted(target[p]) :
            /\ pc[p] \in {"begin", "inspect"} => now - s.captured_at >= Interval
            /\ pc[p] \in {"baseline", "commit"} =>
                \A c \in candidate[p] : c.captured_at - s.captured_at >= Interval

(* It stays so until the commit.                                            *)
LEMMA SpacedNext ==
    ASSUME TypeOK, LockHeld, NewestExists, Environment \cap {"lock_loss", "clock_back"} = {},
           \A p \in Invocation : Spaced(p), [Next]_vars, NEW q \in Invocation
    PROVE  Spaced(q)'
<1>1. CASE pc'[q] \notin Decided
  BY <1>1 DEF Spaced, Decided
<1>2. CASE Moves(q) /\ pc'[q] \in Decided
  <2> USE <1>2 DEF TypeOK, Spaced
  <2>1. CASE ReadLatest(q)
    <3>1. ~ force[q] =>
            \A s \in Accepted(target[q]) : now - s.captured_at >= Interval
      <4>1. target[q] \in Target
        BY <2>1 DEF ReadLatest, Locations, Ended
      <4>2. CASE Latest(target[q]) = {}
        BY <4>1, <4>2 DEF NewestExists
      <4>3. ASSUME NEW s \in Latest(target[q]), ~ TooRecent(s), NEW other \in Accepted(target[q])
            PROVE  now - other.captured_at >= Interval
        <5>1. s \in Accepted(target[q]) /\ other.captured_at <= s.captured_at
          BY <4>3 DEF Latest
        <5>2. s.captured_at \in Nat /\ other.captured_at \in Nat /\ now \in Nat /\ Interval \in Nat
          BY <4>1, <4>3, <5>1, AcceptedType, CollectorAssumption
        <5> QED
          BY <4>3, <5>1, <5>2 DEF TooRecent
      <4> QED
        BY <2>1, <4>1, <4>2, <4>3 DEF ReadLatest
    <3>2. /\ pc'[q] = "begin" /\ UNCHANGED <<target, force, snapshots, now>>
          /\ Accepted(target[q])' = Accepted(target[q])
      BY <2>1 DEF ReadLatest, Accepted
    <3> QED
      BY <3>1, <3>2
  <2>2. CASE BeginRun(q)
    BY <2>2 DEF BeginRun, Accepted
  <2>3. CASE Inspect(q)
    <3>1. \A c \in candidate'[q] : c.captured_at = now
      BY <2>3 DEF Inspect
    <3>2. /\ pc[q] = "inspect" /\ pc'[q] = "baseline" /\ UNCHANGED <<target, force, snapshots>>
          /\ Accepted(target[q])' = Accepted(target[q])
      BY <2>3 DEF Inspect, Accepted
    <3> QED
      BY <3>1, <3>2
  <2>4. CASE PassBaseline(q)
    BY <2>4 DEF PassBaseline, Accepted
  <2> QED
    BY <2>1, <2>2, <2>3, <2>4, Path
<1>3. ASSUME NEW p \in Invocation, Moves(p), p # q, pc'[q] \in Decided
      PROVE  Spaced(q)'
  <2>1. Same(q)
    BY <1>3, Frame
  <2>2. pc[q] \in UnderLock
    BY <1>3, <2>1 DEF Same, Decided, UnderLock, Locations, Ended
  <2>3. target[q] \in Target /\ target'[q] = target[q]
    BY <1>3, <2>2, HistoryIsHeld
  <2>4. Accepted(target[q])' = Accepted(target[q])
    BY <1>3, <2>2, <2>3, HistoryIsHeld
  <2>5. now' = now
    BY <1>3, MoversKeepTime
  <2> QED
    BY <2>1, <2>4, <2>5 DEF Spaced, Same
<1>4. CASE (\A p \in Invocation : ~ Moves(p)) /\ pc'[q] \in Decided
  <2>1. target[q] \in Target
    BY <1>4, WorldSteps DEF TypeOK, Decided, Locations, Ended
  <2>2. now' >= now /\ now \in Nat /\ now' \in Nat
    BY <1>4, CollectorAssumption DEF TypeOK, Next, Moves, Reap, OperatorSwitch, Clock, vars
  <2>3. Accepted(target[q])' = Accepted(target[q])
    BY <1>4, WorldSteps DEF Accepted
  <2>4. \A s \in Accepted(target[q]) : s.captured_at \in Nat
    BY <2>1, AcceptedType
  <2> QED
    BY <1>4, <2>2, <2>3, <2>4, WorldSteps, CollectorAssumption DEF Spaced
<1> QED
  BY <1>1, <1>2, <1>3, <1>4

(* If no lock connection is lost and the clock runs forward, observations   *)
(* that nobody forced keep the minimum interval.                            *)
THEOREM SpacingKept ==
    ASSUME Environment \cap {"lock_loss", "clock_back"} = {}
    PROVE  Spec => UnforcedSpacing
<1> DEFINE SpacingInv == HistoryInv /\ \A p \in Invocation : Spaced(p)
<1>1. Init => SpacingInv
  BY HistoryInvInit DEF Init, Spaced, Decided
<1>2. SpacingInv /\ [Next]_vars => SpacingInv'
  BY HistoryInvNext, SpacedNext DEF HistoryInv
<1>3. ASSUME SpacingInv, [Next]_vars, NEW s \in snapshots' \ snapshots, ~ force[s.run],
             NEW earlier \in Accepted(s.target)
      PROVE  s.captured_at - earlier.captured_at >= Interval
  <2>1. PICK p \in Invocation : Moves(p) /\ snapshots' # snapshots
    BY <1>3, WorldSteps
  <2>2. pc[p] = "commit" /\ AcceptCandidate(p)
    BY <1>3, <2>1, HistorySteps DEF HistoryInv
  <2>3. PICK c \in candidate[p] : s = Row(p, c)
    BY <1>3, <2>2 DEF AcceptCandidate, Row
  <2>4. s.run = p /\ s.target = target[p] /\ s.captured_at = c.captured_at
    BY <2>3 DEF Row
  <2> QED
    BY <1>3, <2>2, <2>4 DEF Spaced
<1>4. SpacingInv /\ [Next]_vars =>
        [\A s \in snapshots' \ snapshots :
            ~ force[s.run] => \A earlier \in Accepted(s.target) :
                                  s.captured_at - earlier.captured_at >= Interval]_vars
  BY <1>3
<1> HIDE DEF SpacingInv
<1> QED
  BY <1>1, <1>2, <1>4, PTL DEF Spec, UnforcedSpacing

------------------------------------------------------------------------------
(* Publication.                                                             *)

(* How an invocation comes to know whether its source is shown.             *)
LEMMA PathToLatest ==
    ASSUME TypeOK, "lock_loss" \notin Environment,
           NEW p \in Invocation, Moves(p), pc'[p] = "latest"
    PROVE  FindBooru(p) \/ CreateBooru(p)
<1> USE DEF TypeOK
<1>1. CASE \E t \in Target, f \in BOOLEAN : Start(p, t, f)
  BY <1>1 DEF Start
<1>2. CASE RejectArguments(p)
  BY <1>2 DEF RejectArguments
<1>3. CASE Locking(p) \/ Preparing(p)
  BY <1>3
  DEF Locking, Preparing, AcquireLock, SkipInProgress, LockFails,
          RejectMismatch, MissBooru, CreateConflict,
          CreateAckLost, SkipRecent, ReadLatest, QueryFails
<1>4. CASE Collecting(p)
  BY <1>4
  DEF Collecting, BeginRun, BeginAckLost, Inspect, InspectFails, PassBaseline,
          BlockSuspicious, BaselineFails, CommitSnapshot, CommitFails,
          CommitAckLost, MarkFailed, MarkFailedFails, Reconcile, ReconcileFails
<1>5. CASE Leaving(p)
  BY <1>5 DEF Leaving, Close, CloseFails, Unlock, UnlockFails, Dispose
<1>6. CASE Cancel(p)
  BY <1>6 DEF Cancel, CancelBody, CancelCollect, CancelRecovery, CancelLocking,
          CancelDispose
<1>7. CASE Kill(p)
  BY <1>7 DEF Kill
<1>8. CASE LoseLock(p)
  BY <1>8 DEF LoseLock
<1> QED
  BY <1>1, <1>2, <1>3, <1>4, <1>5, <1>6, <1>7, <1>8 DEF Moves, Step

(* The decision to publish is, until the commit, that there is no history.  *)
Chosen(p) ==
    pc[p] \in {"latest"} \cup Decided => (publish[p] <=> Accepted(target[p]) = {})

(* No step between changes the history of the target.                       *)
LEMMA ChosenNext ==
    ASSUME TypeOK, LockHeld, NewestExists, PublishedIffAccepted, "lock_loss" \notin Environment,
           \A p \in Invocation : Chosen(p), [Next]_vars, NEW q \in Invocation
    PROVE  Chosen(q)'
<1>1. CASE pc'[q] \notin {"latest"} \cup Decided
  BY <1>1 DEF Chosen
<1>2. CASE Moves(q) /\ pc'[q] = "latest"
  <2>1. pc[q] \in {"booru", "create"} /\ UNCHANGED <<target, snapshots>>
    BY <1>2, PathToLatest DEF FindBooru, CreateBooru
  <2>2. target[q] \in Target
    BY <2>1 DEF TypeOK, Locations, Ended
  <2>3. publish'[q] <=> booru[target[q]] # "enabled"
    BY <1>2, PathToLatest DEF FindBooru, CreateBooru, TypeOK
  <2>4. publish'[q] <=> Accepted(target[q]) = {}
    BY <2>2, <2>3 DEF PublishedIffAccepted
  <2> QED
    BY <2>1, <2>4 DEF Chosen, Accepted
<1>3. CASE Moves(q) /\ pc'[q] \in Decided
  <2> USE <1>3 DEF TypeOK, Chosen, Decided
  <2>1. CASE ReadLatest(q)
    <3>1. Accepted(target[q]) = {} => Latest(target[q]) = {}
      BY DEF Latest
    <3>2. publish'[q] <=> Accepted(target[q]) = {}
      BY <2>1, <3>1 DEF ReadLatest
    <3> QED
      BY <2>1, <3>2 DEF ReadLatest, Accepted
  <2>2. CASE BeginRun(q)
    BY <2>2 DEF BeginRun, Accepted
  <2>3. CASE Inspect(q)
    BY <2>3 DEF Inspect, Accepted
  <2>4. CASE PassBaseline(q)
    BY <2>4 DEF PassBaseline, Accepted
  <2> QED
    BY <2>1, <2>2, <2>3, <2>4, Path
<1>4. ASSUME NEW p \in Invocation, Moves(p), p # q, pc'[q] \in {"latest"} \cup Decided
      PROVE  Chosen(q)'
  <2>1. Same(q)
    BY <1>4, Frame
  <2>2. pc[q] \in UnderLock
    BY <1>4, <2>1 DEF Same, Decided, UnderLock, Locations, Ended
  <2>3. target[q] \in Target /\ target'[q] = target[q]
    BY <1>4, <2>2, HistoryIsHeld
  <2>4. Accepted(target[q])' = Accepted(target[q])
    BY <1>4, <2>2, <2>3, HistoryIsHeld
  <2> QED
    BY <2>1, <2>4 DEF Chosen, Same
<1>5. CASE \A p \in Invocation : ~ Moves(p)
  BY <1>5, WorldSteps DEF Chosen, Accepted
<1> QED
  BY <1>1, <1>2, <1>3, <1>4, <1>5

(* If no row is there before its collector, no operator interferes and no   *)
(* lock connection is lost, a source is shown exactly when it has history.  *)
THEOREM PublishedWithHistory ==
    ASSUME InitialRow \cap {"enabled", "disabled"} = {},
           Environment \cap {"lock_loss", "operator"} = {}
    PROVE  Spec => []PublishedIffAccepted
<1> DEFINE PublicationInv ==
             HistoryInv /\ PublishedIffAccepted /\ \A p \in Invocation : Chosen(p)
<1>1. Init => PublicationInv
  BY HistoryInvInit DEF Init, PublishedIffAccepted, Accepted, Chosen, Decided
<1>2. ASSUME PublicationInv, [Next]_vars
      PROVE  PublishedIffAccepted'
  <2>1. ASSUME NEW p \in Invocation, Moves(p), NEW t \in Target
        PROVE  booru'[t] = "enabled" <=> Accepted(t)' # {}
    <3>1. CASE pc[p] = "commit" /\ AcceptCandidate(p)
      <4>1. PICK c \in candidate[p] :
              Accepted(t)' = IF t = target[p] THEN Accepted(t) \cup {Row(p, c)} ELSE Accepted(t)
        BY <1>2, <3>1, CommitEffect DEF HistoryInv
      <4>2. publish[p] <=> Accepted(target[p]) = {}
        BY <1>2, <3>1 DEF Chosen, Decided
      <4>3. booru'[t] = IF t = target[p] /\ publish[p] THEN "enabled" ELSE booru[t]
        BY <1>2, <3>1, CommitEffect DEF HistoryInv, TypeOK
      <4>4. booru[t] = "enabled" <=> Accepted(t) # {}
        BY <1>2 DEF PublishedIffAccepted
      <4>5. CASE t = target[p]
        BY <4>1, <4>2, <4>3, <4>4, <4>5
      <4>6. CASE t # target[p]
        BY <4>1, <4>3, <4>4, <4>6
      <4> QED
        BY <4>5, <4>6
    <3>2. CASE snapshots' = snapshots /\ (booru'[t] = "enabled" <=> booru[t] = "enabled")
      BY <1>2, <3>2 DEF PublishedIffAccepted, Accepted
    <3> QED
      BY <1>2, <2>1, <3>1, <3>2, HistorySteps DEF HistoryInv
  <2>2. CASE \A p \in Invocation : ~ Moves(p)
    <3>1. booru' = booru
      BY <1>2, <2>2 DEF Next, Moves, Reap, OperatorSwitch, Clock, vars
    <3> QED
      BY <1>2, <2>2, <3>1, WorldSteps DEF PublishedIffAccepted
  <2> QED
    BY <2>1, <2>2 DEF PublishedIffAccepted
<1>3. PublicationInv /\ [Next]_vars => PublicationInv'
  BY <1>2, HistoryInvNext, ChosenNext DEF HistoryInv
<1>4. PublicationInv => PublishedIffAccepted
  OBVIOUS
<1> HIDE DEF PublicationInv
<1> QED
  BY <1>1, <1>3, <1>4, PTL DEF Spec
==============================================================================
