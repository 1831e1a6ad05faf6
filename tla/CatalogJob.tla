------------------------------ MODULE CatalogJob ------------------------------
(****************************************************************************)
(* The daily job: one process that runs the collection command for every    *)
(* target of the catalog in turn, beside other invocations of the command.  *)
(* Source: booruradar/collect_catalog.py.                                   *)
(*                                                                          *)
(* The job's attempts are invocations of Collector.  A cancellation of the  *)
(* job is one of the attempt it is in, and so is a kill.                    *)
(****************************************************************************)
EXTENDS Collector

CONSTANTS
    Size,           \* the number of targets of the job
    DailyTargets,   \* DAILY_TARGETS, a sequence
    Attempts        \* the invocations that are its calls of run_collection

ASSUME JobAssumption ==
    /\ Size \in Nat
    /\ DailyTargets \in [1 .. Size -> Target]
    /\ \A i, j \in 1 .. Size : DailyTargets[i] = DailyTargets[j] => i = j
    /\ Attempts \in [1 .. Size -> Invocation]
    /\ \A i, j \in 1 .. Size : Attempts[i] = Attempts[j] => i = j

VARIABLES
    turn,           \* the index of the current target
    failures,
    exit            \* "none" until the job ends: its exit code, or "raised"

jobVars == <<turn, failures, exit>>
allVars == <<vars, jobVars>>

JobInit ==
    /\ Init
    /\ turn = 1
    /\ failures = 0
    /\ exit = "none"

Others == Invocation \ {Attempts[i] : i \in 1 .. Size}

(* The next call of run_collection, without --force.                        *)
Attempt ==
    /\ exit = "none"
    /\ turn <= Size
    /\ Start(Attempts[turn], DailyTargets[turn], FALSE)
    /\ UNCHANGED jobVars

Finished(i) == pc[Attempts[i]] = "done" /\ outcome[Attempts[i]] # "cancelled"

(* Faulty variant of Counted: a SystemExit is taken for a skip.             *)
CountedNever(how) == 0

(* A non-zero SystemExit or an Exception counts; a SystemExit(0) and a      *)
(* normal return do not.                                                    *)
Counted(how) == IF how = "failed" THEN 1 ELSE 0

(* Faulty variant of Advance: the first failure ends the loop.              *)
AdvanceUnlessFailed ==
    /\ exit = "none"
    /\ turn <= Size
    /\ Finished(turn)
    /\ failures = 0
    /\ turn' = turn + 1
    /\ failures' = failures + Counted(outcome[Attempts[turn]])
    /\ UNCHANGED <<vars, exit>>

Advance ==
    /\ exit = "none"
    /\ turn <= Size
    /\ Finished(turn)
    /\ turn' = turn + 1
    /\ failures' = failures + Counted(outcome[Attempts[turn]])
    /\ UNCHANGED <<vars, exit>>

Report ==
    /\ exit = "none"
    /\ turn > Size
    /\ exit' = IF failures = 0 THEN "zero" ELSE "one"
    /\ UNCHANGED <<vars, turn, failures>>

(* A CancelledError passes through; a process that is killed is gone.       *)
Break ==
    /\ exit = "none"
    /\ turn <= Size
    /\ \/ pc[Attempts[turn]] = "done" /\ outcome[Attempts[turn]] = "cancelled"
       \/ pc[Attempts[turn]] = "dead"
    /\ exit' = "raised"
    /\ UNCHANGED <<vars, turn, failures>>

Job == Attempt \/ Advance \/ Report \/ Break

(* Other invocations start when they like; all of them work and fail.       *)
World ==
    /\ \/ \E p \in Others : RejectArguments(p) \/ \E t \in Target, f \in BOOLEAN : Start(p, t, f)
       \/ \E p \in Invocation : Step(p) \/ Cancel(p) \/ Kill(p) \/ LoseLock(p)
       \/ \E t \in Target : Reap(t) \/ OperatorSwitch(t)
       \/ Clock
    /\ UNCHANGED jobVars

JobNext == Job \/ World

JobSpec == JobInit /\ [][JobNext]_allVars

(* The event loop of the job runs what is ready.                            *)
FairJobSpec ==
    /\ JobSpec
    /\ WF_allVars(Job)
    /\ \A p \in Invocation : WF_allVars(Step(p) /\ UNCHANGED jobVars)

------------------------------------------------------------------------------
(* Properties.                                                              *)

(* Every variable has its type.                                             *)
JobTypeOK ==
    /\ TypeOK
    /\ turn \in 1 .. Size + 1
    /\ failures \in 0 .. Size
    /\ exit \in {"none", "zero", "one", "raised"}

(* CATALOG_FAILURES=0 means that every target was attempted and that every  *)
(* attempt succeeded, with its snapshot accepted, or was skipped without a  *)
(* crawl run; and whoever cancels the job is never told so, although some   *)
(* failures swallow the cancellation (run_catalog_collection).              *)
ZeroMeansCollected ==
    exit = "zero" =>
        \A i \in 1 .. Size :
            LET p == Attempts[i]
            IN  /\ pc[p] = "done"
                /\ p \notin interrupted
                /\ \/ outcome[p] = "succeeded" /\ HasSnapshot(p) /\ run[p] = "succeeded"
                   \/ outcome[p] = "skipped" /\ run[p] = "none"

(* A failure of one target does not stop the others: unless the job is      *)
(* cancelled or killed, every target is attempted and the job reports.      *)
EveryTargetIsTried ==
    exit = "none" ~>
        \/ exit \in {"zero", "one"} /\ \A i \in 1 .. Size : pc[Attempts[i]] = "done"
        \/ \E i \in 1 .. Size : Attempts[i] \in interrupted \/ pc[Attempts[i]] = "dead"

==============================================================================
