------------------------- MODULE JobExecutionProofs -------------------------
(***************************************************************************)
(* Proofs about JobExecution for every set of jobs, calls and recoverers:  *)
(* type correctness, the fence (OneOwner), the safety of the unconditional *)
(* UPDATE of requeue_failed_job, the finality of committed results, the    *)
(* implementation of JobLedger; then, from a second invariant, that a job  *)
(* succeeds once, that its attempts' rows are honest, and that only the    *)
(* newest attempt commits.                                                 *)
(***************************************************************************)
EXTENDS JobExecution, FiniteSetTheorems, TLAPS

-----------------------------------------------------------------------------
(* Type correctness *)

LocalTypeOK ==
  /\ pc \in [Procs -> PC]
  /\ target \in [Procs -> Execs \cup {NoExec}]
  /\ \A e \in Execs : target[e] = e
  /\ verdict \in [Procs -> {"none", "raised"} \cup Report]

LEMMA GotoType ==
  ASSUME LocalTypeOK, NEW p \in Procs, NEW label \in PC,
         p \in Execs => label # "idle", Goto(p, label)
  PROVE  LocalTypeOK'
BY DEF LocalTypeOK, Goto, Procs, Report, Success, Failure

LEMMA RaiseType ==
  ASSUME LocalTypeOK, NEW p \in Procs, Raise(p)
  PROVE  LocalTypeOK'
<1>1. CASE p \in Execs /\ pc[p] \in InTry
  BY <1>1 DEF LocalTypeOK, Raise, Procs, PC
<1>2. CASE ~(p \in Execs /\ pc[p] \in InTry)
  <2>1. End(p) \in PC /\ (p \in Execs => End(p) # "idle")
    BY DEF End, PC
  <2> QED BY <1>2, <2>1, GotoType DEF Raise
<1> QED BY <1>1, <1>2

LEMMA MissionType ==
  ASSUME mission \in MissionState, NEW p \in Procs, NEW to \in MissionState,
         NEW label, WriteMission(p, to, label)
  PROVE  mission' \in MissionState
BY DEF WriteMission

LEMMA WriteMissionType ==
  ASSUME LocalTypeOK, NEW p \in Procs, NEW to, NEW label \in PC,
         p \in Execs => label # "idle", WriteMission(p, to, label)
  PROVE  LocalTypeOK'
BY GotoType, RaiseType DEF WriteMission

(* One step for each action; the labels a call goes to are never "idle".   *)
LEMMA TypeInductive == ASSUME TypeOK, Next PROVE TypeOK'
<1> USE DEF TypeOK, StoreTypeOK, LocalTypeOK
<1>0. LocalTypeOK
  OBVIOUS
<1>1. ASSUME NEW e \in Execs, NEW j \in Jobs, Begin(e, j) PROVE TypeOK'
  <2>1. LocalTypeOK'
    BY <1>0, <1>1, GotoType DEF Begin, PC, Procs
  <2> QED BY <1>1, <2>1 DEF Begin, afterVars
<1>2. ASSUME NEW p \in Procs, Validate(p) PROVE TypeOK'
  <2>1. LocalTypeOK'
    <3>1. Ready(p) \in PC \ {"idle"}
      BY DEF Ready, PC
    <3> QED BY <1>0, <1>2, <3>1, GotoType, RaiseType DEF Validate, PC
  <2> QED BY <1>2, <2>1 DEF Validate, storeVars, afterVars
<1>3. ASSUME NEW p \in Procs, ToPlanning(p) \/ ToWaiting(p) PROVE TypeOK'
  <2>1. Ready(p) \in PC \ {"idle"} /\ "waiting" \in PC \ {"idle"}
    BY DEF Ready, PC
  <2>2. LocalTypeOK'
    BY <1>0, <1>3, <2>1, WriteMissionType DEF ToPlanning, ToWaiting
  <2>3. mission' \in MissionState
    BY <1>3, MissionType DEF ToPlanning, ToWaiting, MissionState
  <2> QED BY <1>3, <2>2, <2>3 DEF ToPlanning, ToWaiting, storeVars, afterVars
<1>4. ASSUME NEW e \in Execs, Acquire(e) PROVE TypeOK'
  <2>1. LocalTypeOK'
    BY <1>0, <1>4, GotoType, RaiseType DEF Acquire, PC, Procs
  <2> QED BY <1>4, <2>1 DEF Acquire, AcquireLease, storeVars, afterVars, JobStatus, LeaseStatus
<1>5. ASSUME NEW e \in Execs, CountAttempts(e) PROVE TypeOK'
  <2>1. LocalTypeOK'
    BY <1>0, <1>5, GotoType DEF CountAttempts, PC, Procs
  <2>2. Cardinality(AttemptsOf(job[e])) \in Nat
    BY JobStoreAssumption, FS_Subset, FS_CardinalityType DEF AttemptsOf
  <2>3. number' \in [Execs -> Nat]
    BY <1>5, <2>2 DEF CountAttempts
  <2> QED BY <1>5, <2>1, <2>3 DEF CountAttempts, afterVars
<1>6. ASSUME NEW e \in Execs, Create(e) PROVE TypeOK'
  <2>1. LocalTypeOK'
    BY <1>0, <1>6, GotoType, RaiseType DEF Create, PC, Procs
  <2> QED BY <1>6, <2>1 DEF Create, CreateAttempt, storeVars, afterVars, AttemptStatus
<1>7. ASSUME NEW e \in Execs, NEW v \in Report, RunInProcess(e, v) PROVE TypeOK'
  BY <1>7 DEF RunInProcess, TakeVerdict, storeVars, afterVars, PC, Procs
<1>8. ASSUME NEW e \in Execs, StartChild(e) \/ ChildExit(e) PROVE TypeOK'
  BY <1>8 DEF StartChild, ChildExit, storeVars, localVars, afterVars
<1>9. ASSUME NEW e \in Execs, NEW v \in Report, ChildReport(e, v) PROVE TypeOK'
  BY <1>9 DEF ChildReport, storeVars, localVars, afterVars
<1>10. ASSUME NEW e \in Execs, Collect(e) PROVE TypeOK'
  BY <1>10 DEF Collect, TakeVerdict, storeVars, afterVars, PC, Procs, Report, Success, Failure
<1>11. ASSUME NEW e \in Execs, GiveUp(e) PROVE TypeOK'
  BY <1>11 DEF GiveUp, TakeVerdict, storeVars, afterVars, PC, Procs, Report, Success, Failure
<1>12. ASSUME NEW r \in Recoverers, NEW e \in Execs, Adopt(r, e) \/ Interrupt(r, e)
       PROVE  TypeOK'
  BY <1>12, JobExecutionAssumption
     DEF Adopt, Interrupt, storeVars, afterVars, PC, Procs, Report, Success, Failure
<1>13. ASSUME NEW r \in Recoverers, Inspect(r) \/ Overwrite(r) \/ Admit(r) PROVE TypeOK'
  <2>1. r \in Procs /\ r \notin Execs
    BY JobExecutionAssumption DEF Procs
  <2>2. LocalTypeOK'
    BY <1>0, <1>13, <2>1, GotoType, RaiseType DEF Inspect, Overwrite, Admit, PC
  <2> QED BY <1>13, <2>2
          DEF Inspect, Overwrite, Admit, storeVars, afterVars, Report, Success, Failure
<1>14. ASSUME NEW p \in Procs, Check(p) PROVE TypeOK'
  BY <1>14 DEF Check, storeVars, afterVars, PC, Report, Success, Failure
<1>15. ASSUME NEW p \in Procs, Commit(p) PROVE TypeOK'
  <2>1. CASE CommitJob(target[p], StatusOf(verdict[p]))
             /\ Goto(p, IF p \in Recoverers /\ verdict[p] \in Success
                        THEN "validate" ELSE "mark")
    <3>1. LocalTypeOK'
      BY <1>0, <2>1, GotoType DEF PC
    <3> QED BY <1>15, <2>1, <3>1
            DEF Commit, CommitJob, StatusOf, afterVars, JobStatus, Final
  <2>2. CASE UNCHANGED storeVars /\ pc' = [pc EXCEPT ![p] = "fencedRead"]
             /\ verdict' = [verdict EXCEPT ![p] = "raised"] /\ UNCHANGED target
    BY <1>15, <2>2 DEF Commit, storeVars, afterVars, PC
  <2> QED BY <1>15, <2>1, <2>2 DEF Commit
<1>16. ASSUME NEW p \in Procs, FencedRead(p) \/ RequeueRead(p) PROVE TypeOK'
  <2>1. LocalTypeOK'
    BY <1>0, <1>16, GotoType, RaiseType DEF FencedRead, RequeueRead, PC
  <2> QED BY <1>16, <2>1 DEF FencedRead, RequeueRead, storeVars, afterVars
<1>17. ASSUME NEW p \in Procs, MarkFenced(p) \/ Mark(p) PROVE TypeOK'
  <2>1. LocalTypeOK'
    BY <1>0, <1>17, GotoType DEF MarkFenced, Mark, PC
  <2> QED BY <1>17, <2>1 DEF MarkFenced, Mark, CompleteAttempt, afterVars, AttemptStatus
<1>18. ASSUME NEW p \in Procs, Release(p) PROVE TypeOK'
  <2>1. End(p) \in PC /\ (p \in Execs => End(p) # "idle")
    BY DEF End, PC
  <2>2. LocalTypeOK'
    BY <1>0, <1>18, <2>1, GotoType DEF Release, PC
  <2> QED BY <1>18, <2>2 DEF Release, ReleaseLease, afterVars, LeaseStatus
<1>19. ASSUME NEW p \in Procs, Requeue(p) PROVE TypeOK'
  <2>1. End(p) \in PC /\ (p \in Execs => End(p) # "idle")
    BY DEF End, PC
  <2>2. LocalTypeOK'
    BY <1>0, <1>19, <2>1, GotoType DEF Requeue
  <2>3. jobStatus' \in [Jobs -> JobStatus]
    BY <1>19 DEF Requeue, RequeueJob, JobStatus
  <2>4. requeues' \in [Jobs -> Nat]
    <3> DEFINE j == JobOf(p)
    <3>1. requeues' = [requeues EXCEPT ![j] = requeues[j] + 1]
      BY <1>19 DEF Requeue, RequeueJob
    <3>2. requeues \in [Jobs -> Nat]
      OBVIOUS
    <3> HIDE DEF j
    <3>3. CASE j \in Jobs
      BY <3>1, <3>2, <3>3
    <3>4. CASE j \notin Jobs
      BY <3>1, <3>2, <3>4
    <3> QED BY <3>3, <3>4
  <2> QED BY <1>19, <2>2, <2>3, <2>4 DEF Requeue, RequeueJob, afterVars
<1>20. ASSUME NEW p \in Procs, Checkpoint(p) \/ Ask(p) PROVE TypeOK'
  <2>1. LocalTypeOK'
    BY <1>0, <1>20, GotoType DEF Checkpoint, Ask, PC
  <2> QED BY <1>20, <2>1 DEF Checkpoint, Ask, storeVars
<1>21. ASSUME NEW p \in Procs, Await(p) \/ Evaluate(p) PROVE TypeOK'
  <2>1. Last(p) \in PC /\ (p \in Execs => Last(p) # "idle")
    BY DEF Last, PC
  <2>2. LocalTypeOK'
    BY <1>0, <1>21, <2>1, WriteMissionType DEF Await, Evaluate
  <2>3. mission' \in MissionState
    BY <1>21, MissionType DEF Await, Evaluate, MissionState
  <2> QED BY <1>21, <2>2, <2>3 DEF Await, Evaluate, storeVars, afterVars
<1>22. ASSUME NEW p \in Procs, Abort(p) PROVE TypeOK'
  BY <1>0, <1>22, RaiseType DEF Abort, storeVars, afterVars
<1>23. ASSUME NEW e \in Execs, Crash(e) PROVE TypeOK'
  <2>1. LocalTypeOK'
    BY <1>0, <1>23, GotoType DEF Crash, PC, Procs
  <2> QED BY <1>23, <2>1 DEF Crash, storeVars, afterVars
<1>24. CASE RecoverExpired
  BY <1>24 DEF RecoverExpired, RecoverLeases, localVars, afterVars, JobStatus, LeaseStatus
<1>25. CASE MoveMission
  BY <1>25, JobExecutionAssumption DEF MoveMission, storeVars, localVars, afterVars
<1> QED
  BY <1>1, <1>2, <1>3, <1>4, <1>5, <1>6, <1>7, <1>8, <1>9, <1>10, <1>11, <1>12,
     <1>13, <1>14, <1>15, <1>16, <1>17, <1>18, <1>19, <1>20, <1>21, <1>22, <1>23,
     <1>24, <1>25
  DEF Next, ExecStep, ChildStep, RecoverStep, Finish, Procs
-----------------------------------------------------------------------------
(* The shape of a step *)

Before == {"idle", "validate", "planning", "waiting", "acquire"}
Requeueing == {"requeueRead", "requeue"}

(* Only p moves; it keeps its attempt unless it becomes idle. *)
MovesOnly(p) ==
  /\ \A q \in Procs \ {p} :
       pc'[q] = pc[q] /\ target'[q] = target[q] /\ verdict'[q] = verdict[q]
  /\ target'[p] = target[p] \/ pc'[p] = "idle"

(* A step of p that p makes once it has started and that changes neither a  *)
(* job nor a lease.                                                         *)
QuietShape(p) ==
  /\ pc[p] # "idle" /\ MovesOnly(p) /\ UNCHANGED <<jobStatus, job, lease>>
  /\ p \in Execs => pc'[p] # "idle" /\ (pc'[p] \in Before => pc[p] \in Before)
  /\ PathOf(p)'
  /\ AfterFailure(p)' => /\ AfterFailure(p)
                         /\ target'[p] = target[p]
                         /\ pc'[p] \in Requeueing => pc[p] \in Requeueing
  /\ \A e \in Execs \ {target[p]} :
       attempt'[e] = attempt[e] /\ child'[e] = child[e] /\ result'[e] = result[e]

QuietExec(e) ==
  \/ Acquire(e) /\ UNCHANGED storeVars
  \/ CountAttempts(e) \/ Create(e)
  \/ \E v \in Report : RunInProcess(e, v)
  \/ StartChild(e) \/ Collect(e) \/ GiveUp(e) \/ Crash(e)

QuietRecoverer(r) == Inspect(r) \/ Overwrite(r) \/ Admit(r)

QuietFinish(p) ==
  \/ Validate(p) \/ ToPlanning(p) \/ ToWaiting(p) \/ Check(p)
  \/ Commit(p) /\ ~Fenced(target[p])
  \/ FencedRead(p) \/ MarkFenced(p) \/ Mark(p) \/ RequeueRead(p)
  \/ Checkpoint(p) \/ Ask(p) \/ Await(p) \/ Evaluate(p) \/ Abort(p)

LEMMA QuietExecShape ==
  ASSUME TypeOK, NEW e \in Execs, QuietExec(e)
  PROVE  QuietShape(e)
<1> USE JobExecutionAssumption DEF QuietShape, Before, Requeueing, AfterFailure, PathOf, Success, Failure
<1>1. e \in Procs /\ e \notin Recoverers /\ target[e] = e
  BY DEF Procs, TypeOK
<1>2. CASE Acquire(e) /\ UNCHANGED storeVars
  BY <1>1, <1>2 DEF Goto, Raise, InTry, End, MovesOnly, TypeOK, Acquire, AcquireLease, storeVars
<1>3. CASE CountAttempts(e)
  BY <1>1, <1>3 DEF Goto, MovesOnly, TypeOK, CountAttempts
<1>4. CASE Create(e)
  BY <1>1, <1>4 DEF Goto, Raise, InTry, End, MovesOnly, TypeOK, Create, CreateAttempt, storeVars, StoreTypeOK
<1>5. ASSUME NEW v \in Report, RunInProcess(e, v) PROVE QuietShape(e)
  BY <1>1, <1>5 DEF RunInProcess, TakeVerdict, MovesOnly, storeVars, TypeOK
<1>6. CASE StartChild(e)
  BY <1>1, <1>6 DEF StartChild, MovesOnly, storeVars, localVars, TypeOK
<1>7. CASE Collect(e)
  BY <1>1, <1>7 DEF Collect, TakeVerdict, MovesOnly, storeVars, TypeOK
<1>8. CASE GiveUp(e)
  BY <1>1, <1>8 DEF GiveUp, TakeVerdict, MovesOnly, storeVars, TypeOK
<1>9. CASE Crash(e)
  BY <1>1, <1>9 DEF Goto, MovesOnly, TypeOK, Crash, storeVars
<1> QED BY <1>2, <1>3, <1>4, <1>5, <1>6, <1>7, <1>8, <1>9 DEF QuietExec

LEMMA QuietRecovererShape ==
  ASSUME TypeOK, NEW r \in Recoverers, QuietRecoverer(r)
  PROVE  QuietShape(r)
<1> USE JobExecutionAssumption DEF QuietShape, Before, Requeueing, AfterFailure, PathOf, Success, Failure
<1>1. r \in Procs /\ r \notin Execs
  BY DEF Procs
<1>2. CASE Inspect(r)
  BY <1>1, <1>2 DEF Goto, MovesOnly, TypeOK, Inspect, storeVars
<1>3. CASE Overwrite(r)
  BY <1>1, <1>3 DEF Goto, MovesOnly, TypeOK, Overwrite, storeVars
<1>4. CASE Admit(r)
  BY <1>1, <1>4 DEF Goto, Raise, InTry, End, MovesOnly, TypeOK, Admit, storeVars
<1> QED BY <1>2, <1>3, <1>4 DEF QuietRecoverer

LEMMA QuietFinishShape ==
  ASSUME TypeOK, PathsApart, NEW p \in Procs, QuietFinish(p)
  PROVE  QuietShape(p)
<1> USE JobExecutionAssumption DEF QuietShape, Before, Requeueing, AfterFailure, PathOf, Success, Failure
<1>1. p \in Execs \/ p \in Recoverers
  BY DEF Procs
<1>2. (p \in Execs => End(p) = "done") /\ (p \in Recoverers => End(p) = "idle")
  BY DEF End
<1>3. PathOf(p)
  BY DEF PathsApart
<1>4. CASE Validate(p)
  BY <1>1, <1>2, <1>3, <1>4 DEF Goto, Raise, InTry, End, MovesOnly, TypeOK, Validate, Ready, storeVars
<1>5. CASE ToPlanning(p)
  BY <1>1, <1>2, <1>3, <1>5 DEF Goto, Raise, InTry, End, MovesOnly, TypeOK, ToPlanning, WriteMission, storeVars
<1>6. CASE ToWaiting(p)
  BY <1>1, <1>2, <1>3, <1>6 DEF Goto, Raise, InTry, End, MovesOnly, TypeOK, ToWaiting, WriteMission, Ready, storeVars
<1>7. CASE Check(p)
  BY <1>7 DEF Check, MovesOnly, storeVars, TypeOK
<1>8. CASE Commit(p) /\ ~Fenced(target[p])
  BY <1>8 DEF Commit, CommitJob, MovesOnly, storeVars, TypeOK
<1>9. CASE FencedRead(p)
  BY <1>3, <1>9 DEF Goto, MovesOnly, TypeOK, FencedRead, storeVars
<1>10. CASE MarkFenced(p)
  BY <1>3, <1>10 DEF Goto, MovesOnly, TypeOK, MarkFenced, CompleteAttempt, StoreTypeOK
<1>11. CASE Mark(p)
  BY <1>3, <1>11 DEF Goto, MovesOnly, TypeOK, Mark, CompleteAttempt, StoreTypeOK
<1>12. CASE RequeueRead(p)
  BY <1>1, <1>2, <1>3, <1>12 DEF Goto, Raise, InTry, End, MovesOnly, TypeOK, RequeueRead, storeVars
<1>13. CASE Checkpoint(p) \/ Ask(p)
  BY <1>3, <1>13 DEF Goto, MovesOnly, TypeOK, Checkpoint, Ask, storeVars
<1>14. CASE Await(p) \/ Evaluate(p)
  BY <1>1, <1>2, <1>3, <1>14 DEF Goto, Raise, InTry, End, MovesOnly, TypeOK, Await, Evaluate, WriteMission, Last, storeVars
<1>15. CASE Abort(p)
  <2> USE <1>1, <1>2, <1>15 DEF Abort, Raise
  <2>1. CASE p \in Execs /\ pc[p] \in InTry
    BY <2>1 DEF MovesOnly, TypeOK, storeVars
  <2>2. CASE ~(p \in Execs /\ pc[p] \in InTry)
    BY <2>2 DEF Goto, End, MovesOnly, TypeOK, storeVars
  <2> QED BY <2>1, <2>2
<1> QED BY <1>4, <1>5, <1>6, <1>7, <1>8, <1>9, <1>10, <1>11, <1>12, <1>13, <1>14, <1>15
        DEF QuietFinish

-----------------------------------------------------------------------------
(* A quiet step preserves the invariant *)

Safety == NotStarted /\ TargetsStarted /\ PathsApart /\ OneOwner /\ FailureIsKept

(* The attempt of a process at work has started. *)
LEMMA TargetStarted ==
  ASSUME TypeOK, NotStarted, TargetsStarted, NEW p \in Procs, pc[p] # "idle"
  PROVE  target[p] \in Execs /\ JobOf(p) \in Jobs /\ pc[target[p]] # "idle"
BY DEF TypeOK, StoreTypeOK, NotStarted, TargetsStarted, Procs, JobOf

LEMMA QuietSafe ==
  ASSUME IInv, NEW p \in Procs, QuietShape(p)
  PROVE  Safety'
<1> USE DEF IInv, QuietShape
<1>1. NotStarted'
  <2> SUFFICES ASSUME NEW e \in Execs
               PROVE  /\ job'[e] = NoJob <=> pc'[e] = "idle"
                      /\ pc'[e] = "idle" => /\ attempt'[e] = "none"
                                            /\ child'[e] = "none" /\ result'[e] = "none"
                      /\ pc'[e] \in Before => lease'[e] = "none"
    BY DEF NotStarted, Before
  <2>1. CASE e = p
    BY <2>1 DEF NotStarted, Before
  <2>2. CASE e # p
    <3>1. pc'[e] = pc[e]
      BY <2>2 DEF MovesOnly, Procs
    <3>2. pc[e] = "idle" => e # target[p]
      BY TargetStarted
    <3> QED BY <3>1, <3>2 DEF NotStarted, Before
  <2> QED BY <2>1, <2>2
<1>2. TargetsStarted'
  BY DEF TargetsStarted, MovesOnly, Procs
<1>3. PathsApart'
  BY DEF PathsApart, PathOf, MovesOnly
<1>4. OneOwner'
  BY DEF OneOwner, ActiveLeases
<1>5. FailureIsKept'
  <2>1. \A q \in Procs : AfterFailure(q)' =>
          /\ AfterFailure(q) /\ target'[q] = target[q]
          /\ pc'[q] \in Requeueing => pc[q] \in Requeueing
    BY DEF MovesOnly, AfterFailure, Requeueing
  <2>2. \A j \in Jobs : ActiveLeases(j)' = ActiveLeases(j)
    BY DEF ActiveLeases
  <2> QED BY <2>1 DEF FailureIsKept, JobOf, Requeueing, ActiveLeases
<1> QED BY <1>1, <1>2, <1>3, <1>4, <1>5 DEF Safety

(* A step that moves nobody, and touches only children that were started. *)
LEMMA ChildSafe ==
  ASSUME IInv, UNCHANGED <<jobStatus, job, lease, attempt, localVars>>,
         \A e \in Execs : pc[e] = "idle" => child'[e] = child[e] /\ result'[e] = result[e]
  PROVE  Safety'
<1> USE DEF IInv, localVars
<1>1. NotStarted'
  BY DEF NotStarted
<1>2. TargetsStarted' /\ PathsApart'
  BY DEF TargetsStarted, PathsApart, PathOf
<1>3. OneOwner'
  BY DEF OneOwner, ActiveLeases
<1>4. FailureIsKept'
  BY DEF FailureIsKept, AfterFailure, JobOf, ActiveLeases
<1> QED BY <1>1, <1>2, <1>3, <1>4 DEF Safety

-----------------------------------------------------------------------------
(* The steps that change a job, a lease or who is at work *)

LEMMA BeginSafe ==
  ASSUME IInv, NEW e \in Execs, NEW j \in Jobs, Begin(e, j)
  PROVE  Safety'
<1> USE JobStoreAssumption, JobExecutionAssumption DEF IInv
<1>1. /\ e \in Procs /\ pc[e] = "idle" /\ job[e] = NoJob /\ lease[e] = "none"
      /\ job' = [job EXCEPT ![e] = j] /\ pc' = [pc EXCEPT ![e] = "validate"]
      /\ UNCHANGED <<jobStatus, lease, attempt, child, result, target, verdict>>
  BY DEF Begin, Goto, NotStarted, Procs, TypeOK
<1>2. NotStarted'
  BY <1>1 DEF NotStarted, TypeOK, StoreTypeOK
<1>3. TargetsStarted'
  BY <1>1 DEF TargetsStarted, TypeOK, StoreTypeOK, Procs
<1>4. PathsApart'
  BY <1>1 DEF PathsApart, PathOf, TypeOK
<1>5. \A i \in Jobs : ActiveLeases(i)' = ActiveLeases(i)
  BY <1>1 DEF ActiveLeases, TypeOK, StoreTypeOK
<1>6. OneOwner'
  BY <1>1, <1>5 DEF OneOwner
<1>7. FailureIsKept'
  <2>1. \A q \in Procs : AfterFailure(q)' =>
          /\ AfterFailure(q) /\ pc'[q] = pc[q] /\ target[q] # e
          /\ JobOf(q)' = JobOf(q) /\ JobOf(q) \in Jobs
    <3> SUFFICES ASSUME NEW q \in Procs, AfterFailure(q)'
                 PROVE  /\ AfterFailure(q) /\ pc'[q] = pc[q] /\ target[q] # e
                        /\ JobOf(q)' = JobOf(q) /\ JobOf(q) \in Jobs
      OBVIOUS
    <3>1. q # e /\ AfterFailure(q) /\ pc'[q] = pc[q] /\ pc[q] # "idle"
      BY <1>1 DEF AfterFailure, TypeOK
    <3>2. target[q] # e /\ JobOf(q) \in Jobs
      BY <1>1, <3>1, TargetStarted
    <3> QED BY <1>1, <3>1, <3>2 DEF JobOf, TypeOK, StoreTypeOK
  <2> QED BY <1>1, <1>5, <2>1 DEF FailureIsKept, ActiveLeases
<1> QED BY <1>2, <1>3, <1>4, <1>6, <1>7 DEF Safety

LEMMA AcquireSafe ==
  ASSUME IInv, NEW e \in Execs, Acquire(e), AcquireLease(e)
  PROVE  Safety'
<1> USE JobStoreAssumption, JobExecutionAssumption DEF IInv
<1>1. /\ e \in Procs /\ pc[e] = "acquire" /\ job[e] \in Jobs /\ jobStatus[job[e]] = "queued"
      /\ jobStatus' = [jobStatus EXCEPT ![job[e]] = "leased"]
      /\ lease' = [lease EXCEPT ![e] = "active"]
      /\ pc' = [pc EXCEPT ![e] = "count"]
      /\ UNCHANGED <<job, attempt, child, result, target, verdict>>
  BY TargetStarted DEF Acquire, AcquireLease, Goto, Procs, TypeOK, StoreTypeOK, JobOf
<1>2. NotStarted' /\ TargetsStarted'
  BY <1>1 DEF NotStarted, TargetsStarted, TypeOK, StoreTypeOK, Procs
<1>3. PathsApart'
  BY <1>1 DEF PathsApart, PathOf, TypeOK
<1>4. /\ ActiveLeases(job[e]) = {}
      /\ \A j \in Jobs : ActiveLeases(j)' = IF j = job[e] THEN {e} ELSE ActiveLeases(j)
  BY <1>1 DEF ActiveLeases, TypeOK, StoreTypeOK, OneOwner
<1>5. OneOwner'
  BY <1>1, <1>4 DEF OneOwner, TypeOK, StoreTypeOK
<1>6. FailureIsKept'
  <2>1. \A q \in Procs : AfterFailure(q)' =>
          /\ AfterFailure(q) /\ pc'[q] = pc[q] /\ JobOf(q)' = JobOf(q)
          /\ target[q] \in Execs /\ JobOf(q) \in Jobs /\ JobOf(q) # job[e]
    BY <1>1, TargetStarted DEF AfterFailure, FailureIsKept, JobOf, TypeOK
  <2> QED BY <1>1, <1>4, <2>1 DEF FailureIsKept, TypeOK, StoreTypeOK, ActiveLeases, JobOf
<1> QED BY <1>2, <1>3, <1>5, <1>6 DEF Safety

LEMMA CommitSafe ==
  ASSUME IInv, NEW p \in Procs, Commit(p), Fenced(target[p])
  PROVE  Safety'
<1> USE JobStoreAssumption, JobExecutionAssumption DEF IInv
<1> DEFINE s == StatusOf(verdict[p])
<1>1. /\ pc[p] = "commit" /\ target[p] \in Execs /\ JobOf(p) \in Jobs
      /\ jobStatus[JobOf(p)] = "leased" /\ ActiveLeases(JobOf(p)) = {target[p]}
      /\ jobStatus' = [jobStatus EXCEPT ![JobOf(p)] = s]
      /\ pc' = [pc EXCEPT ![p] = IF p \in Recoverers /\ verdict[p] \in Success
                                 THEN "validate" ELSE "mark"]
      /\ UNCHANGED <<job, lease, attempt, child, result, target, verdict>>
  BY TargetStarted DEF Commit, CommitJob, Goto, Fenced, JobOf, TypeOK
<1>2. NotStarted' /\ TargetsStarted'
  BY <1>1 DEF NotStarted, TargetsStarted, TypeOK, StoreTypeOK, Procs
<1>3. PathsApart'
  BY <1>1 DEF PathsApart, PathOf, TypeOK
<1>4. s # "queued" /\ (verdict[p] \in Failure => s = "failed")
  BY DEF StatusOf, Success, Failure
<1> HIDE DEF s
<1>5. \A j \in Jobs : ActiveLeases(j)' = ActiveLeases(j)
  BY <1>1 DEF ActiveLeases
<1>6. OneOwner'
  BY <1>1, <1>4, <1>5 DEF OneOwner, TypeOK, StoreTypeOK
<1>7. FailureIsKept'
  <2>1. \A q \in Procs \ {p} : AfterFailure(q)' =>
          /\ AfterFailure(q) /\ pc'[q] = pc[q] /\ JobOf(q)' = JobOf(q)
          /\ target[q] \in Execs /\ JobOf(q) \in Jobs /\ JobOf(q) # JobOf(p)
    BY <1>1, TargetStarted DEF AfterFailure, FailureIsKept, JobOf, TypeOK
  <2>2. AfterFailure(p)' => /\ verdict[p] \in Failure /\ pc'[p] = "mark"
                            /\ JobOf(p)' = JobOf(p)
    BY <1>1 DEF AfterFailure, JobOf, TypeOK, Success, Failure
  <2> QED BY <1>1, <1>4, <1>5, <2>1, <2>2 DEF FailureIsKept, TypeOK, StoreTypeOK, ActiveLeases
<1> QED BY <1>2, <1>3, <1>6, <1>7 DEF Safety

LEMMA ReleaseSafe ==
  ASSUME IInv, NEW p \in Procs, Release(p)
  PROVE  Safety'
<1> USE JobStoreAssumption, JobExecutionAssumption DEF IInv
<1>1. /\ pc[p] = "release" /\ target[p] \in Execs /\ JobOf(p) \in Jobs
      /\ lease' = [lease EXCEPT ![target[p]] = IF @ = "active" THEN "released" ELSE @]
      /\ UNCHANGED <<jobStatus, job, attempt, child, result>>
  BY TargetStarted DEF Release, ReleaseLease, TypeOK
<1>2. /\ MovesOnly(p)
      /\ pc'[p] \in {"checkpoint", "requeueRead", End(p)}
      /\ pc'[p] = "checkpoint" => verdict[p] \in Success
      /\ pc'[p] = "requeueRead" => verdict[p] = "retry"
      /\ pc'[p] \in {"checkpoint", "requeueRead"} => verdict'[p] = verdict[p] /\ target'[p] = target[p]
  BY DEF Release, Goto, RetryAvailable, MovesOnly, TypeOK, End
<1>3. (p \in Execs => End(p) = "done") /\ (p \notin Execs => End(p) = "idle")
  BY DEF End
<1>4. NotStarted'
  BY <1>1, <1>2, <1>3, TargetStarted DEF NotStarted, MovesOnly, TypeOK, StoreTypeOK, Procs
<1>5. TargetsStarted'
  BY <1>1, <1>2 DEF TargetsStarted, MovesOnly, Procs
<1>6. PathsApart'
  BY <1>2, <1>3 DEF PathsApart, PathOf, MovesOnly
<1>7. /\ \A j \in Jobs : ActiveLeases(j)' \subseteq ActiveLeases(j)
      /\ lease'[target[p]] # "active"
  BY <1>1 DEF ActiveLeases, TypeOK, StoreTypeOK
<1>8. OneOwner'
  BY <1>1, <1>7 DEF OneOwner
<1>9. FailureIsKept'
  <2>1. \A q \in Procs : AfterFailure(q)' =>
          /\ AfterFailure(q) /\ target'[q] = target[q] /\ JobOf(q)' = JobOf(q)
          /\ q = p \/ pc'[q] = pc[q]
          /\ target[q] \in Execs /\ JobOf(q) \in Jobs
    <3> SUFFICES ASSUME NEW q \in Procs, AfterFailure(q)'
                 PROVE  /\ AfterFailure(q) /\ target'[q] = target[q] /\ JobOf(q)' = JobOf(q)
                        /\ q = p \/ pc'[q] = pc[q]
                        /\ target[q] \in Execs /\ JobOf(q) \in Jobs
      OBVIOUS
    <3>1. CASE q = p
      BY <1>1, <1>2, <1>3, <3>1 DEF AfterFailure, JobOf, Success, Failure
    <3>2. CASE q # p
      BY <1>1, <1>2, <3>2, TargetStarted DEF AfterFailure, JobOf, MovesOnly
    <3> QED BY <3>1, <3>2
  <2>2. \A q \in Procs : lease[target[q]] # "active" => lease'[target[q]] # "active"
    BY <1>1 DEF TypeOK, StoreTypeOK
  <2> QED BY <1>1, <1>7, <2>1, <2>2 DEF FailureIsKept
<1> QED BY <1>4, <1>5, <1>6, <1>8, <1>9 DEF Safety

LEMMA RequeueSafe ==
  ASSUME IInv, NEW p \in Procs, Requeue(p)
  PROVE  Safety'
<1> USE JobStoreAssumption, JobExecutionAssumption DEF IInv
<1>1. /\ pc[p] = "requeue" /\ AfterFailure(p) /\ JobOf(p) \in Jobs
      /\ lease[target[p]] # "active" /\ ActiveLeases(JobOf(p)) \subseteq {target[p]}
      /\ jobStatus' = [jobStatus EXCEPT ![JobOf(p)] = "queued"]
      /\ UNCHANGED <<job, lease, attempt, child, result>>
      /\ MovesOnly(p) /\ pc'[p] = End(p)
  BY TargetStarted DEF Requeue, RequeueJob, Goto, AfterFailure, FailureIsKept, MovesOnly, TypeOK
<1>2. (p \in Execs => End(p) = "done") /\ (p \notin Execs => End(p) = "idle")
  BY DEF End
<1>3. NotStarted' /\ TargetsStarted'
  BY <1>1, <1>2 DEF NotStarted, TargetsStarted, MovesOnly, Procs
<1>4. PathsApart'
  BY <1>1, <1>2 DEF PathsApart, PathOf, MovesOnly
<1>5. \A j \in Jobs : ActiveLeases(j)' = ActiveLeases(j)
  BY <1>1 DEF ActiveLeases
<1>6. ActiveLeases(JobOf(p)) = {}
  BY <1>1 DEF ActiveLeases
<1>7. OneOwner'
  BY <1>1, <1>5, <1>6 DEF OneOwner, TypeOK, StoreTypeOK
<1>8. FailureIsKept'
  <2>1. \A q \in Procs : AfterFailure(q)' =>
          /\ AfterFailure(q) /\ pc'[q] = pc[q] /\ target'[q] = target[q]
          /\ JobOf(q)' = JobOf(q) /\ JobOf(q) \in Jobs /\ JobOf(q) # JobOf(p)
    <3> SUFFICES ASSUME NEW q \in Procs, AfterFailure(q)'
                 PROVE  /\ AfterFailure(q) /\ pc'[q] = pc[q] /\ target'[q] = target[q]
                        /\ JobOf(q)' = JobOf(q) /\ JobOf(q) \in Jobs /\ JobOf(q) # JobOf(p)
      OBVIOUS
    <3>1. q # p
      BY <1>1, <1>2 DEF AfterFailure
    <3>2. AfterFailure(q) /\ pc'[q] = pc[q] /\ target'[q] = target[q]
      BY <1>1, <3>1 DEF AfterFailure, MovesOnly
    <3>3. pc[q] # "idle"
      BY <3>2 DEF AfterFailure
    <3> QED BY <1>1, <3>1, <3>2, <3>3, TargetStarted DEF FailureIsKept, JobOf
  <2> QED BY <1>1, <1>5, <2>1 DEF FailureIsKept, TypeOK, StoreTypeOK
<1> QED BY <1>3, <1>4, <1>7, <1>8 DEF Safety

LEMMA AdoptSafe ==
  ASSUME IInv, NEW r \in Recoverers, NEW e \in Execs, Adopt(r, e) \/ Interrupt(r, e)
  PROVE  Safety'
<1> USE JobStoreAssumption, JobExecutionAssumption DEF IInv
<1>1. /\ r \in Procs /\ r \notin Execs /\ pc[r] = "idle" /\ pc[e] # "idle"
      /\ target' = [target EXCEPT ![r] = e]
      /\ pc'[r] \in {"check", "inspect"}
      /\ \A q \in Procs \ {r} : pc'[q] = pc[q] /\ verdict'[q] = verdict[q]
                                /\ target'[q] = target[q]
      /\ target'[r] = e
      /\ UNCHANGED <<jobStatus, job, lease, attempt, child, result>>
  BY DEF Adopt, Interrupt, NotStarted, Procs, TypeOK, storeVars
<1>2. NotStarted' /\ TargetsStarted'
  BY <1>1 DEF NotStarted, TargetsStarted, Procs
<1>3. PathsApart'
  BY <1>1 DEF PathsApart, PathOf
<1>4. OneOwner'
  BY <1>1 DEF OneOwner, ActiveLeases
<1>5. FailureIsKept'
  <2>1. \A q \in Procs : AfterFailure(q)' => q # r /\ AfterFailure(q)
    BY <1>1 DEF AfterFailure
  <2> QED BY <1>1, <2>1 DEF FailureIsKept, JobOf, ActiveLeases
<1> QED BY <1>2, <1>3, <1>4, <1>5 DEF Safety

LEMMA RecoverExpiredSafe ==
  ASSUME IInv, RecoverExpired
  PROVE  Safety'
<1> USE DEF IInv
<1>1. PICK E \in SUBSET Expirable : RecoverLeases(E)
  BY DEF RecoverExpired
<1> DEFINE Recovered == {job[e] : e \in E}
<1>2. /\ \A e \in E : e \in Execs /\ lease[e] = "active" /\ jobStatus[job[e]] = "leased"
      /\ jobStatus' = [j \in Jobs |-> IF j \in Recovered THEN "queued" ELSE jobStatus[j]]
      /\ lease' = [e \in Execs |-> IF e \in E THEN "released" ELSE lease[e]]
      /\ UNCHANGED <<job, attempt, child, result, pc, target, verdict>>
  BY <1>1 DEF RecoverLeases, Expirable, RecoverExpired, localVars
<1>3. NotStarted'
  BY <1>2 DEF NotStarted
<1>4. TargetsStarted' /\ PathsApart'
  BY <1>2 DEF TargetsStarted, PathsApart, PathOf
<1>5. \A j \in Jobs : /\ j \in Recovered => ActiveLeases(j)' = {}
                      /\ j \notin Recovered => ActiveLeases(j)' = ActiveLeases(j)
  BY <1>2 DEF ActiveLeases, OneOwner
<1>6. \A j \in Jobs : jobStatus'[j] = IF j \in Recovered THEN "queued" ELSE jobStatus[j]
  BY <1>2
<1>7. \A j \in Recovered : jobStatus[j] = "leased"
  BY <1>2
<1> HIDE DEF Recovered
<1>8. OneOwner'
  BY <1>5, <1>6 DEF OneOwner
<1>9. FailureIsKept'
  <2>1. \A q \in Procs : AfterFailure(q)' =>
          /\ AfterFailure(q) /\ target[q] \in Execs /\ JobOf(q)' = JobOf(q)
          /\ JobOf(q) \in Jobs /\ JobOf(q) \notin Recovered
    BY <1>2, <1>7, TargetStarted DEF AfterFailure, FailureIsKept, JobOf
  <2>2. \A e \in Execs : lease[e] # "active" => lease'[e] # "active"
    BY <1>2
  <2> QED BY <1>2, <1>5, <1>6, <2>1, <2>2 DEF FailureIsKept
<1> QED BY <1>3, <1>4, <1>8, <1>9 DEF Safety

-----------------------------------------------------------------------------
(* The theorems *)

LEMMA InvInit == Init => IInv
<1> SUFFICES ASSUME Init PROVE IInv
  OBVIOUS
<1> USE JobStoreAssumption, JobExecutionAssumption DEF Init, StoreInit
<1>1. TypeOK
  BY DEF TypeOK, StoreTypeOK, JobStatus, LeaseStatus, AttemptStatus, MissionState, PC, Procs
<1>2. NotStarted /\ TargetsStarted /\ PathsApart
  BY DEF NotStarted, TargetsStarted, PathsApart, PathOf, Procs
<1>3. OneOwner /\ FailureIsKept
  BY DEF OneOwner, FailureIsKept, AfterFailure, ActiveLeases
<1> QED BY <1>1, <1>2, <1>3 DEF IInv

(* The steps of Next by their effect on jobs and leases. *)
LEMMA StepKinds ==
  ASSUME Next
  PROVE  \/ \E e \in Execs : QuietExec(e)
         \/ \E r \in Recoverers : QuietRecoverer(r)
         \/ \E p \in Procs : QuietFinish(p)
         \/ \E e \in Execs, j \in Jobs : Begin(e, j)
         \/ \E e \in Execs : Acquire(e) /\ AcquireLease(e)
         \/ \E p \in Procs : Commit(p) /\ Fenced(target[p])
         \/ \E p \in Procs : Release(p) \/ Requeue(p)
         \/ \E r \in Recoverers, e \in Execs : Adopt(r, e) \/ Interrupt(r, e)
         \/ \E e \in Execs : ChildStep(e)
         \/ RecoverExpired \/ MoveMission
<1>1. \A e \in Execs : Acquire(e) => QuietExec(e) \/ (Acquire(e) /\ AcquireLease(e))
  BY DEF Acquire, QuietExec
<1>2. \A p \in Procs : Finish(p) =>
        QuietFinish(p) \/ (Commit(p) /\ Fenced(target[p])) \/ Release(p) \/ Requeue(p)
  BY DEF Finish, QuietFinish
<1>3. \A e \in Execs : ExecStep(e) => Acquire(e) \/ QuietExec(e) \/ Finish(e)
  BY DEF ExecStep, QuietExec
<1>4. \A r \in Recoverers : RecoverStep(r) => QuietRecoverer(r) \/ Finish(r)
  BY DEF RecoverStep, QuietRecoverer
<1>5. \A p \in Procs : Abort(p) => QuietFinish(p)
  BY DEF QuietFinish
<1>6. \A e \in Execs : Crash(e) => QuietExec(e)
  BY DEF QuietExec
<1> QED BY <1>1, <1>2, <1>3, <1>4, <1>5, <1>6 DEF Next, Procs

LEMMA InvNext == IInv /\ [Next]_vars => IInv'
<1> SUFFICES ASSUME IInv, [Next]_vars PROVE IInv'
  OBVIOUS
<1>1. CASE Next
  <2>1. TypeOK'
    BY <1>1, TypeInductive DEF IInv
  <2>2. Safety'
    <3>1. ASSUME NEW e \in Execs, QuietExec(e) PROVE Safety'
      BY <3>1, QuietExecShape, QuietSafe DEF IInv, Procs
    <3>2. ASSUME NEW r \in Recoverers, QuietRecoverer(r) PROVE Safety'
      BY <3>2, QuietRecovererShape, QuietSafe DEF IInv, Procs
    <3>3. ASSUME NEW p \in Procs, QuietFinish(p) PROVE Safety'
      BY <3>3, QuietFinishShape, QuietSafe DEF IInv
    <3>4. ASSUME NEW e \in Execs, ChildStep(e) PROVE Safety'
      <4>1. UNCHANGED <<jobStatus, job, lease, attempt, localVars>> /\ child[e] # "none"
        BY <3>4 DEF ChildStep, ChildExit, ChildReport, storeVars
      <4>2. \A f \in Execs \ {e} : child'[f] = child[f] /\ result'[f] = result[f]
        BY <3>4 DEF ChildStep, ChildExit, ChildReport, IInv, TypeOK
      <4> QED BY <4>1, <4>2, ChildSafe DEF IInv, NotStarted
    <3>5. CASE MoveMission
      BY <3>5, ChildSafe DEF MoveMission, storeVars
    <3> QED BY <1>1, <3>1, <3>2, <3>3, <3>4, <3>5, StepKinds, BeginSafe, AcquireSafe,
               CommitSafe, ReleaseSafe, RequeueSafe, AdoptSafe, RecoverExpiredSafe
  <2> QED BY <2>1, <2>2 DEF IInv, Safety
<1>2. CASE UNCHANGED vars
  <2>1. TypeOK'
    BY <1>2 DEF vars, storeVars, localVars, afterVars, IInv, TypeOK, StoreTypeOK
  <2>2. Safety'
    BY <1>2, ChildSafe DEF vars, storeVars
  <2> QED BY <2>1, <2>2 DEF IInv, Safety
<1> QED BY <1>1, <1>2

THEOREM Invariance == Spec => []IInv
BY InvInit, InvNext, PTL DEF Spec

(* The variables keep their types. *)
THEOREM TypeCorrect == Spec => []TypeOK
<1>1. IInv => TypeOK
  BY DEF IInv
<1> QED BY <1>1, Invariance, PTL

(* A job has one unreleased lease at most and none in the queue, for any    *)
(* number of jobs, calls, recoverers, crashes, store errors and recoveries  *)
(* of expired leases.                                                       *)
THEOREM OwnerIsUnique == Spec => []OneOwner
<1>1. IInv => OneOwner
  BY DEF IInv
<1> QED BY <1>1, Invariance, PTL

(* The unconditional UPDATE of requeue_failed_job only meets FAILED jobs. *)
THEOREM RequeueIsSafe == Spec => []RequeueFindsFailed
<1>1. IInv => RequeueFindsFailed
  BY DEF IInv, RequeueFindsFailed, FailureIsKept, AfterFailure
<1> QED BY <1>1, Invariance, PTL

-----------------------------------------------------------------------------
(* The ledger *)

LEMMA LedgerInit == Init => Ledger!Init
BY DEF Init, StoreInit, Ledger!Init, ActiveLeases

LEMMA LedgerQuiet ==
  ASSUME UNCHANGED <<jobStatus, job, lease>>
  PROVE  UNCHANGED Ledger!ledgerVars
BY DEF Ledger!ledgerVars, ActiveLeases

(* Each kind of step is a step of the ledger, or changes nothing in it. *)
LEMMA LedgerStep ==
  ASSUME IInv, IInv', [Next]_vars
  PROVE  [Ledger!Next]_(Ledger!ledgerVars)
<1> USE JobStoreAssumption, JobExecutionAssumption DEF IInv
<1> DEFINE Kept == UNCHANGED Ledger!ledgerVars
<1>1. ASSUME NEW e \in Execs, NEW j \in Jobs, Begin(e, j) PROVE Kept
  <2>1. lease[e] = "none"
    BY <1>1 DEF Begin, NotStarted
  <2>2. \A i \in Jobs : ActiveLeases(i)' = ActiveLeases(i)
    BY <1>1, <2>1 DEF Begin, ActiveLeases, TypeOK, StoreTypeOK
  <2> QED BY <1>1, <2>2 DEF Begin, Ledger!ledgerVars
<1>2. ASSUME NEW e \in Execs, Acquire(e), AcquireLease(e) PROVE Ledger!Next
  <2>1. /\ job[e] \in Jobs /\ jobStatus[job[e]] = "queued"
        /\ jobStatus' = [jobStatus EXCEPT ![job[e]] = "leased"]
        /\ lease' = [lease EXCEPT ![e] = "active"] /\ job' = job
    BY <1>2, TargetStarted DEF Acquire, AcquireLease, Procs, TypeOK, JobOf
  <2>2. /\ ActiveLeases(job[e]) = {}
        /\ \A j \in Jobs : ActiveLeases(j)' = IF j = job[e] THEN {e} ELSE ActiveLeases(j)
    BY <2>1 DEF ActiveLeases, TypeOK, StoreTypeOK, OneOwner
  <2>3. Ledger!Take(job[e], e)
    BY <2>1, <2>2 DEF Ledger!Take
  <2> QED BY <2>1, <2>3 DEF Ledger!Next
<1>3. ASSUME NEW p \in Procs, Commit(p), Fenced(target[p]) PROVE Ledger!Next
  <2> DEFINE s == StatusOf(verdict[p])
  <2>1. /\ target[p] \in Execs /\ JobOf(p) \in Jobs
        /\ jobStatus[JobOf(p)] = "leased" /\ ActiveLeases(JobOf(p)) = {target[p]}
        /\ jobStatus' = [jobStatus EXCEPT ![JobOf(p)] = s] /\ UNCHANGED <<job, lease>>
    BY <1>3, TargetStarted DEF Commit, CommitJob, Fenced, JobOf, TypeOK
  <2>2. s \in Ledger!Settled
    BY DEF StatusOf, Ledger!Settled
  <2> HIDE DEF s
  <2>3. Ledger!Settle(JobOf(p), target[p], s)
    BY <2>1 DEF Ledger!Settle, ActiveLeases
  <2> QED BY <2>1, <2>2, <2>3 DEF Ledger!Next
<1>4. ASSUME NEW p \in Procs, Release(p) PROVE Ledger!Next \/ Kept
  <2>1. /\ target[p] \in Execs /\ JobOf(p) \in Jobs
        /\ lease' = [lease EXCEPT ![target[p]] = IF @ = "active" THEN "released" ELSE @]
        /\ UNCHANGED <<jobStatus, job>>
    BY <1>4, TargetStarted DEF Release, ReleaseLease
  <2>2. CASE lease[target[p]] = "active"
    <3>1. /\ ActiveLeases(JobOf(p)) = {target[p]}
          /\ \A j \in Jobs : ActiveLeases(j)' = IF j = JobOf(p) THEN {} ELSE ActiveLeases(j)
      BY <2>1, <2>2 DEF ActiveLeases, JobOf, TypeOK, StoreTypeOK, OneOwner
    <3>2. Ledger!Leave(JobOf(p), target[p])
      BY <2>1, <3>1 DEF Ledger!Leave
    <3> QED BY <2>1, <3>2 DEF Ledger!Next
  <2>3. CASE lease[target[p]] # "active"
    BY <2>1, <2>3, LedgerQuiet DEF TypeOK, StoreTypeOK
  <2> QED BY <2>2, <2>3
<1>5. ASSUME NEW p \in Procs, Requeue(p) PROVE Ledger!Next
  <2>1. /\ JobOf(p) \in Jobs /\ jobStatus[JobOf(p)] = "failed"
        /\ ActiveLeases(JobOf(p)) \subseteq {target[p]} /\ lease[target[p]] # "active"
        /\ jobStatus' = [jobStatus EXCEPT ![JobOf(p)] = "queued"]
        /\ UNCHANGED <<job, lease>>
    BY <1>5, TargetStarted DEF Requeue, RequeueJob, AfterFailure, FailureIsKept
  <2>2. ActiveLeases(JobOf(p)) = {}
    BY <2>1 DEF ActiveLeases
  <2>3. Ledger!Retry(JobOf(p))
    BY <2>1, <2>2 DEF Ledger!Retry, ActiveLeases
  <2> QED BY <2>1, <2>3 DEF Ledger!Next
<1>6. CASE RecoverExpired
  <2>1. PICK E \in SUBSET Expirable : RecoverLeases(E)
    BY <1>6 DEF RecoverExpired
  <2> DEFINE J == {j \in Jobs : \E e \in E : job[e] = j}
  <2>2. /\ \A j \in J : jobStatus[j] = "leased" /\ ActiveLeases(j) # {}
        /\ jobStatus' = [j \in Jobs |-> IF j \in J THEN "queued" ELSE jobStatus[j]]
        /\ lease' = [e \in Execs |-> IF e \in E THEN "released" ELSE lease[e]]
        /\ job' = job
    BY <2>1 DEF RecoverLeases, Expirable, ActiveLeases
  <2>3. \A j \in Jobs : ActiveLeases(j)' = IF j \in J THEN {} ELSE ActiveLeases(j)
    BY <2>1, <2>2 DEF RecoverLeases, Expirable, ActiveLeases, OneOwner
  <2>4. J \in SUBSET Jobs
    OBVIOUS
  <2> HIDE DEF J
  <2>5. Ledger!Recover(J)
    BY <2>2, <2>3, <2>4 DEF Ledger!Recover
  <2> QED BY <2>4, <2>5 DEF Ledger!Next
<1>7. ASSUME NEW e \in Execs, QuietExec(e) PROVE Kept
  BY <1>7, QuietExecShape, LedgerQuiet DEF QuietShape
<1>8. ASSUME NEW r \in Recoverers, QuietRecoverer(r) PROVE Kept
  BY <1>8, QuietRecovererShape, LedgerQuiet DEF QuietShape
<1>9. ASSUME NEW p \in Procs, QuietFinish(p) PROVE Kept
  BY <1>9, QuietFinishShape, LedgerQuiet DEF QuietShape
<1>10. ASSUME NEW r \in Recoverers, NEW e \in Execs, Adopt(r, e) \/ Interrupt(r, e)
       PROVE  Kept
  BY <1>10, LedgerQuiet DEF Adopt, Interrupt, storeVars
<1>11. ASSUME NEW e \in Execs, ChildStep(e) PROVE Kept
  BY <1>11, LedgerQuiet DEF ChildStep, ChildExit, ChildReport, storeVars
<1>12. CASE MoveMission \/ UNCHANGED vars
  BY <1>12, LedgerQuiet DEF MoveMission, vars, storeVars
<1> QED BY StepKinds, <1>1, <1>2, <1>3, <1>4, <1>5, <1>6, <1>7, <1>8, <1>9, <1>10, <1>11, <1>12

(* JobExecution implements JobLedger. *)
THEOREM Implementation == Spec => ImplementsLedger
BY LedgerInit, LedgerStep, Invariance, PTL DEF Spec, ImplementsLedger, Ledger!Spec

(* A job never leaves SUCCEEDED or CANCELED, and leaves FAILED only for the *)
(* queue: no stale attempt overwrites a committed result.                   *)
THEOREM ResultsAreFinal == Spec => FinalStays
<1> DEFINE Stays == \A j \in Jobs :
       /\ jobStatus[j] \in {"succeeded", "canceled"} => jobStatus'[j] = jobStatus[j]
       /\ jobStatus[j] = "failed" => jobStatus'[j] \in {"failed", "queued"}
<1>1. ASSUME IInv, [Ledger!Next]_(Ledger!ledgerVars) PROVE Stays
  <2> USE DEF IInv, TypeOK, StoreTypeOK
  <2>1. CASE UNCHANGED Ledger!ledgerVars
    BY <2>1 DEF Ledger!ledgerVars
  <2>2. ASSUME NEW j \in Jobs, NEW o \in Execs, Ledger!Take(j, o) \/ Ledger!Leave(j, o)
        PROVE  Stays
    <3>1. CASE Ledger!Take(j, o)
      BY <3>1 DEF Ledger!Take
    <3>2. CASE Ledger!Leave(j, o)
      BY <3>2 DEF Ledger!Leave
    <3> QED BY <2>2, <3>1, <3>2
  <2>3. ASSUME NEW j \in Jobs, NEW o \in Execs, NEW s, Ledger!Settle(j, o, s) PROVE Stays
    BY <2>3 DEF Ledger!Settle
  <2>4. ASSUME NEW j \in Jobs, Ledger!Retry(j) PROVE Stays
    BY <2>4 DEF Ledger!Retry
  <2>5. ASSUME NEW J \in SUBSET Jobs, Ledger!Recover(J) PROVE Stays
    BY <2>5 DEF Ledger!Recover
  <2> QED BY <1>1, <2>1, <2>2, <2>3, <2>4, <2>5 DEF Ledger!Next
<1>2. IInv /\ IInv' /\ [Next]_vars => [Stays]_vars
  BY <1>1, LedgerStep
<1> QED BY <1>2, Invariance, PTL DEF Spec, FinalStays

-----------------------------------------------------------------------------
(* Results, attempts and retries: what a caller may do to itself *)

Early == {"validate", "planning", "waiting", "acquire", "count", "create"}
Reported == {"inspect", "overwrite", "check", "admit", "commit", "mark"}

(* Only p moves, and it gains nothing that CallerRight or RetriesRight asks *)
(* something new for.  Only a commit and a checkpoint do more.              *)
CallerShape(p) ==
  /\ \A q \in Procs \ {p} :
       pc'[q] = pc[q] /\ target'[q] = target[q] /\ verdict'[q] = verdict[q]
  /\ pc'[p] \in Reported => verdict'[p] \in Report
  /\ AtWork(p)' => attempt'[target'[p]] # "none"
  /\ Committed(p)' => Committed(p) /\ verdict'[p] = verdict[p]
  /\ BeforeCheckpoint(p)' => BeforeCheckpoint(p)
  /\ pc'[p] = "ask" => pc[p] = "ask"
  /\ AfterFailure(p)' =>
       /\ AfterFailure(p)
       /\ pc'[p] \in Requeueing =>
            pc[p] \in Requeueing \/ number[target[p]] <= RetryLimit
  /\ Committed(p)' \/ AfterSuccess(p)' \/ AfterFailure(p)' => target'[p] = target[p]
  /\ p \in Execs => (pc'[p] \in Early => pc[p] \in Early \cup {"idle"})

LEMMA CallersKeep ==
  ASSUME IInv, CallersRight, NEW p \in Procs, CallerShape(p),
         UNCHANGED <<outcome, checkpoints, approvals>>,
         \A e \in Execs : attempt[e] # "none" => attempt'[e] # "none",
         \A e \in Execs : pc[e] # "idle" => job'[e] = job[e]
  PROVE  CallersRight'
<1> USE DEF IInv, CallerShape
<1>1. \A q \in Procs : AfterSuccess(q)' =>
        /\ AfterSuccess(q) /\ target'[q] = target[q] /\ JobOf(q)' = JobOf(q)
        /\ target[q] \in Execs
  <2> SUFFICES ASSUME NEW q \in Procs, AfterSuccess(q)'
               PROVE  /\ AfterSuccess(q) /\ target'[q] = target[q] /\ JobOf(q)' = JobOf(q)
                      /\ target[q] \in Execs
    OBVIOUS
  <2>1. AfterSuccess(q) /\ target'[q] = target[q]
    BY DEF AfterSuccess, BeforeCheckpoint, Committed
  <2>2. pc[q] # "idle"
    BY <2>1 DEF AfterSuccess, BeforeCheckpoint, Committed
  <2> QED BY <2>1, <2>2, TargetStarted DEF JobOf
<1> SUFFICES ASSUME NEW q \in Procs PROVE CallerRight(q)'
  BY DEF CallersRight
<1>2. CallerRight(q)
  BY DEF CallersRight
<1>3. (AfterSuccess(q) =>
         \A r \in Procs : AfterSuccess(r) /\ JobOf(r) = JobOf(q) => r = q)
      /\ (AfterSuccess(q) => outcome[target[q]] = "succeeded")
  BY <1>2 DEF CallerRight
<1>4. (AfterSuccess(q) => /\ outcome[target[q]] = "succeeded"
                          /\ \A r \in Procs : AfterSuccess(r) /\ JobOf(r) = JobOf(q) => r = q)'
  BY <1>1, <1>3
<1>5. (pc[q] \in Reported => verdict[q] \in Report)'
  BY <1>2 DEF CallerRight, Reported
<1>6. (AtWork(q) => attempt[target[q]] # "none")'
  <2>1. CASE q = p
    BY <2>1
  <2>2. CASE q # p
    <3>1. AtWork(q)' => AtWork(q) /\ pc[q] # "idle"
      BY <2>2 DEF AtWork, Committed, InTry
    <3> QED BY <1>2, <2>2, <3>1, TargetStarted DEF CallerRight
  <2> QED BY <2>1, <2>2
<1>7. (Committed(q) => outcome[target[q]] = StatusOf(verdict[q]))'
  <2>1. Committed(q)' => Committed(q) /\ verdict'[q] = verdict[q] /\ target'[q] = target[q]
    BY DEF Committed
  <2> QED BY <1>2, <2>1 DEF CallerRight, StatusOf
<1>8. (BeforeCheckpoint(q) => checkpoints[JobOf(q)] = 0)'
  <2>1. BeforeCheckpoint(q)' => BeforeCheckpoint(q) /\ JobOf(q)' = JobOf(q)
    BY <1>1 DEF AfterSuccess, BeforeCheckpoint, Committed
  <2> QED BY <1>2, <2>1 DEF CallerRight
<1>9. (pc[q] = "ask" => checkpoints[JobOf(q)] = 1 /\ approvals[JobOf(q)] = 0)'
  <2>1. pc'[q] = "ask" => pc[q] = "ask" /\ JobOf(q)' = JobOf(q)
    BY <1>1 DEF AfterSuccess
  <2> QED BY <1>2, <2>1 DEF CallerRight
<1> QED BY <1>4, <1>5, <1>6, <1>7, <1>8, <1>9 DEF CallerRight, Reported

LEMMA CountsType ==
  ASSUME NEW j
  PROVE  /\ IsFiniteSet(AttemptsOf(j)) /\ Count(j) \in Nat
         /\ IsFiniteSet(Failures(j)) /\ Cardinality(Failures(j)) \in Nat
BY JobStoreAssumption, FS_Subset, FS_CardinalityType DEF AttemptsOf, Failures, Count

LEMMA NumbersKeep ==
  ASSUME IInv, NumbersRight, UNCHANGED <<job, number>>,
         \A e \in Execs : attempt'[e] = "none" <=> attempt[e] = "none",
         \A e \in Execs : lease'[e] = "active" => lease[e] = "active",
         \A e \in Execs : (pc'[e] \in Early => pc[e] \in Early \cup {"idle"})
                          /\ (pc'[e] = "create" => pc[e] = "create")
  PROVE  NumbersRight'
<1>1. \A j \in Jobs : AttemptsOf(j)' = AttemptsOf(j)
  BY DEF AttemptsOf
<1>2. \A j \in Jobs : Count(j)' = Count(j)
  BY <1>1 DEF Count
<1>3. \A e \in Execs : attempt[e] # "none" => job[e] \in Jobs
  BY DEF IInv, TypeOK, StoreTypeOK, NotStarted
<1>4. \A e \in Execs : lease[e] # "none" => job[e] \in Jobs
  BY DEF IInv, TypeOK, StoreTypeOK, NotStarted
<1>5. (\A j \in Jobs : {number[e] : e \in AttemptsOf(j)} = 1 .. Count(j))'
  BY <1>1, <1>2 DEF NumbersRight
<1>6. (\A e, f \in Execs :
         /\ attempt[e] # "none" /\ attempt[f] # "none"
         /\ job[e] = job[f] /\ number[e] = number[f]
         => e = f)'
  BY DEF NumbersRight
<1>7. (\A e \in Execs : pc[e] \in Early => attempt[e] = "none")'
  BY DEF NumbersRight, Early, IInv, NotStarted
<1>8. (\A e \in Execs :
         /\ lease[e] = "active" /\ attempt[e] # "none" => number[e] = Count(job[e])
         /\ lease[e] = "active" /\ pc[e] = "create" => number[e] = Count(job[e]) + 1)'
  BY <1>2, <1>4 DEF NumbersRight
<1> QED BY <1>5, <1>6, <1>7, <1>8 DEF NumbersRight, Early

LEMMA RetriesKeep ==
  ASSUME IInv, RetriesRight, NEW p \in Procs, CallerShape(p), UNCHANGED requeues,
         \A j \in Jobs : Cardinality(Failures(j))' = Cardinality(Failures(j)),
         \A j \in Jobs : (\E q \in Procs : AfterFailure(q) /\ JobOf(q) = j)
                          => Count(j)' = Count(j),
         \A q \in Procs : AfterFailure(q) =>
           job'[target[q]] = job[target[q]] /\ number'[target[q]] = number[target[q]]
  PROVE  RetriesRight'
<1>1. \A q \in Procs : AfterFailure(q)' =>
        /\ AfterFailure(q) /\ target'[q] = target[q]
        /\ pc'[q] \in Requeueing => pc[q] \in Requeueing \/ number[target[q]] <= RetryLimit
  BY DEF CallerShape, AfterFailure, Requeueing
<1>2. \A q \in Procs : AfterFailure(q) => JobOf(q) \in Jobs
  BY TargetStarted DEF AfterFailure, IInv
<1> QED BY <1>1, <1>2 DEF RetriesRight, JobOf, Requeueing
-----------------------------------------------------------------------------
(* Each action but the commit and the checkpoint has this shape *)

LEMMA CallerExecShape ==
  ASSUME IInv, AInv, NEW e \in Execs,
         \/ \E j \in Jobs : Begin(e, j)
         \/ Acquire(e) \/ CountAttempts(e) \/ Create(e)
         \/ \E v \in Report : RunInProcess(e, v)
         \/ StartChild(e) \/ Collect(e) \/ GiveUp(e) \/ Crash(e)
  PROVE  CallerShape(e)
<1> USE JobExecutionAssumption
        DEF IInv, CallerShape, AtWork, BeforeCheckpoint, Committed, AfterSuccess, AfterFailure,
            Early, Reported, Requeueing, InTry, Report, Success, Failure
<1>1. e \in Procs /\ e \notin Recoverers /\ target[e] = e
  BY DEF Procs, TypeOK
<1>2. AtWork(e) => attempt[e] # "none"
  BY <1>1 DEF AInv, CallersRight, CallerRight
<1> USE <1>1, <1>2
<1>3. ASSUME NEW j \in Jobs, Begin(e, j) PROVE CallerShape(e)
  BY <1>3 DEF Begin, Goto, TypeOK
<1>4. CASE Acquire(e)
  BY <1>4 DEF Acquire, Goto, Raise, End, TypeOK
<1>5. CASE CountAttempts(e)
  BY <1>5 DEF CountAttempts, Goto, TypeOK
<1>6. CASE Create(e)
  BY <1>6 DEF Create, CreateAttempt, Goto, Raise, End, TypeOK, StoreTypeOK
<1>7. ASSUME NEW v \in Report, RunInProcess(e, v) PROVE CallerShape(e)
  BY <1>7 DEF RunInProcess, TakeVerdict, TypeOK, storeVars
<1>8. CASE StartChild(e)
  BY <1>8 DEF StartChild, TypeOK, storeVars, localVars
<1>9. CASE Collect(e)
  BY <1>9 DEF Collect, TakeVerdict, TypeOK, storeVars
<1>10. CASE GiveUp(e)
  BY <1>10 DEF GiveUp, TakeVerdict, TypeOK, storeVars
<1>11. CASE Crash(e)
  BY <1>11 DEF Crash, Goto, TypeOK, storeVars
<1> QED BY <1>3, <1>4, <1>5, <1>6, <1>7, <1>8, <1>9, <1>10, <1>11

LEMMA CallerRecovererShape ==
  ASSUME IInv, AInv, NEW r \in Recoverers,
         QuietRecoverer(r) \/ \E e \in Execs : Adopt(r, e) \/ Interrupt(r, e)
  PROVE  CallerShape(r)
<1> USE JobExecutionAssumption
        DEF IInv, CallerShape, AtWork, BeforeCheckpoint, Committed, AfterSuccess, AfterFailure,
            Early, Reported, Requeueing, InTry, Report, Success, Failure
<1>1. r \in Procs /\ r \notin Execs
  BY DEF Procs
<1>2. /\ AtWork(r) => attempt[target[r]] # "none"
      /\ pc[r] \in Reported => verdict[r] \in Report
  BY <1>1 DEF AInv, CallersRight, CallerRight
<1> USE <1>1, <1>2
<1>3. ASSUME NEW e \in Execs, Adopt(r, e) PROVE CallerShape(r)
  BY <1>3 DEF Adopt, TypeOK, storeVars
<1>4. ASSUME NEW e \in Execs, Interrupt(r, e) PROVE CallerShape(r)
  BY <1>4 DEF Interrupt, TypeOK, storeVars
<1>5. CASE Inspect(r)
  BY <1>5 DEF Inspect, Goto, TypeOK, storeVars
<1>6. CASE Overwrite(r)
  BY <1>6 DEF Overwrite, Goto, TypeOK, storeVars
<1>7. CASE Admit(r)
  BY <1>7 DEF Admit, Goto, Raise, End, TypeOK, storeVars
<1> QED BY <1>3, <1>4, <1>5, <1>6, <1>7 DEF QuietRecoverer

LEMMA CallerFinishShape ==
  ASSUME IInv, AInv, NEW p \in Procs,
         \/ QuietFinish(p) /\ ~Checkpoint(p)
         \/ Release(p) \/ Requeue(p)
  PROVE  CallerShape(p)
<1> USE JobExecutionAssumption
        DEF IInv, CallerShape, AtWork, BeforeCheckpoint, Committed, AfterSuccess, AfterFailure,
            Early, Reported, Requeueing, InTry, Report, Success, Failure
<1>1. p \in Execs \/ p \in Recoverers
  BY DEF Procs
<1>2. (p \in Execs => End(p) = "done") /\ (p \in Recoverers => End(p) = "idle")
  BY DEF End
<1>3. /\ AtWork(p) => attempt[target[p]] # "none"
      /\ pc[p] \in Reported => verdict[p] \in Report
  BY DEF AInv, CallersRight, CallerRight
<1>4. PathOf(p)
  BY DEF PathsApart
<1>5. pc[p] # "idle" => target[p] \in Execs
  BY TargetStarted
<1> USE <1>1, <1>2, <1>3
<1>6. CASE Validate(p)
  BY <1>4, <1>6 DEF Validate, Ready, Goto, Raise, TypeOK, storeVars, PathOf
<1>7. CASE ToPlanning(p)
  BY <1>4, <1>7 DEF ToPlanning, WriteMission, Goto, Raise, TypeOK, storeVars, PathOf
<1>8. CASE ToWaiting(p)
  BY <1>4, <1>8 DEF ToWaiting, WriteMission, Ready, Goto, Raise, TypeOK, storeVars, PathOf
<1>9. CASE Check(p)
  BY <1>9 DEF Check, TypeOK, storeVars
<1>10. CASE Commit(p) /\ ~Fenced(target[p])
  BY <1>10 DEF Commit, CommitJob, TypeOK, storeVars
<1>11. CASE FencedRead(p)
  BY <1>4, <1>11 DEF FencedRead, Goto, TypeOK, storeVars, PathOf
<1>12. CASE MarkFenced(p)
  BY <1>4, <1>5, <1>12 DEF MarkFenced, CompleteAttempt, Goto, TypeOK, StoreTypeOK, PathOf
<1>13. CASE Mark(p)
  BY <1>5, <1>13 DEF Mark, CompleteAttempt, Goto, TypeOK, StoreTypeOK
<1>14. CASE RequeueRead(p)
  BY <1>14 DEF RequeueRead, Goto, Raise, TypeOK, storeVars
<1>15. CASE Ask(p)
  BY <1>15 DEF Ask, Goto, TypeOK, storeVars
<1>16. CASE Await(p) \/ Evaluate(p)
  BY <1>4, <1>16 DEF Await, Evaluate, WriteMission, Last, Goto, Raise, TypeOK, storeVars, PathOf
<1>17. CASE Abort(p)
  BY <1>17 DEF Abort, Goto, Raise, TypeOK, storeVars
<1>18. CASE Release(p)
  BY <1>18 DEF Release, ReleaseLease, RetryAvailable, Goto, TypeOK
<1>19. CASE Requeue(p)
  BY <1>19 DEF Requeue, RequeueJob, Goto, TypeOK
<1> QED BY <1>6, <1>7, <1>8, <1>9, <1>10, <1>11, <1>12, <1>13, <1>14, <1>15, <1>16, <1>17,
           <1>18, <1>19 DEF QuietFinish

-----------------------------------------------------------------------------
(* The steps, by what they change in the store *)

Numbered(e) == pc'[e] = "create" => pc[e] = "create"

(* What is read again and again: an attempt or a result belongs to a job,   *)
(* and a result to an attempt.                                              *)
LEMMA RowsExist ==
  ASSUME IInv, AInv, NEW e \in Execs
  PROVE  /\ attempt[e] # "none" \/ lease[e] # "none" => job[e] \in Jobs
         /\ outcome[e] # "none" => attempt[e] # "none" /\ job[e] \in Jobs
BY DEF IInv, AInv, TypeOK, StoreTypeOK, NotStarted, ResultsRight

LEMMA NobodyMoves ==
  ASSUME IInv, AInv, UNCHANGED <<storeVars, localVars, afterVars>>
  PROVE  AInv'
<1> USE DEF AInv, storeVars, localVars, afterVars
<1>1. CallersRight'
  BY DEF CallersRight, CallerRight, AfterSuccess, BeforeCheckpoint, Committed, AtWork, JobOf, StatusOf
<1>2. ResultsRight' /\ CheckpointsRight'
  BY DEF ResultsRight, CheckpointsRight
<1>3. NumbersRight'
  BY NumbersKeep
<1>4. RetriesRight'
  BY DEF RetriesRight, AfterFailure, Failures, Count, AttemptsOf, JobOf
<1> QED BY <1>1, <1>2, <1>3, <1>4

LEMMA StillRight ==
  ASSUME IInv, AInv, NEW p \in Procs, CallerShape(p), p \in Execs => Numbered(p),
         UNCHANGED <<storeVars, afterVars>>
  PROVE  AInv'
<1> USE DEF AInv, storeVars, afterVars
<1>1. CallersRight'
  BY CallersKeep
<1>2. ResultsRight' /\ CheckpointsRight'
  BY DEF ResultsRight, CheckpointsRight
<1>3. NumbersRight'
  <2>1. \A e \in Execs : /\ pc'[e] \in Early => pc[e] \in Early \cup {"idle"}
                         /\ pc'[e] = "create" => pc[e] = "create"
    BY DEF CallerShape, Numbered, Procs
  <2> QED BY <2>1, NumbersKeep
<1>4. RetriesRight'
  <2>1. \A j \in Jobs : Cardinality(Failures(j))' = Cardinality(Failures(j))
    BY DEF Failures
  <2>2. \A j : Count(j)' = Count(j)
    BY DEF Count, AttemptsOf
  <2> QED BY <2>1, <2>2, RetriesKeep
<1> QED BY <1>1, <1>2, <1>3, <1>4

LEMMA BeginRight ==
  ASSUME IInv, AInv, NEW e \in Execs, NEW j \in Jobs, Begin(e, j)
  PROVE  AInv'
<1> USE DEF AInv
<1>1. /\ e \in Procs /\ CallerShape(e)
      /\ pc[e] = "idle" /\ attempt[e] = "none" /\ lease[e] = "none" /\ outcome[e] = "none"
      /\ job' = [job EXCEPT ![e] = j] /\ pc' = [pc EXCEPT ![e] = "validate"]
      /\ UNCHANGED <<jobStatus, lease, number, attempt, outcome, requeues, afterVars>>
  <2>1. CallerShape(e)
    BY CallerExecShape
  <2>2. attempt[e] = "none" /\ lease[e] = "none"
    BY DEF Begin, IInv, NotStarted
  <2> QED BY <2>1, <2>2, RowsExist DEF Begin, Goto, Procs
<1>2. \A f \in Execs : f # e => job'[f] = job[f] /\ pc'[f] = pc[f]
  BY <1>1 DEF IInv, TypeOK, StoreTypeOK, Procs
<1>3. \A i : AttemptsOf(i)' = AttemptsOf(i) /\ Failures(i)' = Failures(i)
  BY <1>1, <1>2 DEF AttemptsOf, Failures
<1>4. CallersRight'
  BY <1>1, <1>2, CallersKeep DEF afterVars
<1>5. ResultsRight'
  BY <1>1, <1>2 DEF ResultsRight
<1>6. CheckpointsRight'
  BY <1>1, <1>2 DEF CheckpointsRight, afterVars
<1>7. NumbersRight'
  <2>1. (\A i \in Jobs : {number[f] : f \in AttemptsOf(i)} = 1 .. Count(i))'
    BY <1>1, <1>3 DEF NumbersRight, Count
  <2>2. (\A d, f \in Execs :
           /\ attempt[d] # "none" /\ attempt[f] # "none"
           /\ job[d] = job[f] /\ number[d] = number[f]
           => d = f)'
    BY <1>1, <1>2 DEF NumbersRight
  <2>3. (\A f \in Execs :
           /\ pc[f] \in Early => attempt[f] = "none"
           /\ lease[f] = "active" /\ attempt[f] # "none" => number[f] = Count(job[f])
           /\ lease[f] = "active" /\ pc[f] = "create" => number[f] = Count(job[f]) + 1)'
    BY <1>1, <1>2, <1>3 DEF NumbersRight, Count, Early, IInv, TypeOK, Procs
  <2> QED BY <2>1, <2>2, <2>3 DEF NumbersRight, Early
<1>8. RetriesRight'
  <2>1. \A q \in Procs : AfterFailure(q) => target[q] \in Execs /\ target[q] # e
    BY <1>1, TargetStarted DEF AfterFailure, IInv
  <2> QED BY <1>1, <1>2, <1>3, <2>1, RetriesKeep DEF Count
<1> QED BY <1>4, <1>5, <1>6, <1>7, <1>8

LEMMA AcquireRight ==
  ASSUME IInv, AInv, NEW e \in Execs, Acquire(e), AcquireLease(e)
  PROVE  AInv'
<1> USE DEF AInv
<1>1. /\ e \in Procs /\ CallerShape(e) /\ job[e] \in Jobs /\ jobStatus[job[e]] = "queued"
      /\ pc[e] = "acquire" /\ pc' = [pc EXCEPT ![e] = "count"]
      /\ jobStatus' = [jobStatus EXCEPT ![job[e]] = "leased"]
      /\ lease' = [lease EXCEPT ![e] = "active"]
      /\ UNCHANGED <<job, number, attempt, outcome, requeues, afterVars>>
  BY CallerExecShape, TargetStarted
     DEF Acquire, AcquireLease, Goto, Procs, IInv, TypeOK, StoreTypeOK, JobOf
<1>2. attempt[e] = "none" /\ outcome[e] = "none"
  BY <1>1, RowsExist DEF NumbersRight
<1>3. \A i : AttemptsOf(i)' = AttemptsOf(i) /\ Failures(i)' = Failures(i)
  BY <1>1 DEF AttemptsOf, Failures
<1>4. CallersRight'
  BY <1>1, CallersKeep DEF afterVars
<1>5. ResultsRight'
  <2>1. \A f \in Execs : lease[f] = "active" => job[f] # job[e]
    BY <1>1 DEF IInv, OneOwner, ActiveLeases
  <2> QED BY <1>1, <1>2, <2>1, RowsExist DEF ResultsRight, IInv, TypeOK, StoreTypeOK
<1>6. CheckpointsRight'
  BY <1>1 DEF CheckpointsRight, afterVars
<1>7. NumbersRight'
  BY <1>1, <1>2, <1>3 DEF NumbersRight, Count, IInv, TypeOK, StoreTypeOK, Procs
<1>8. RetriesRight'
  BY <1>1, <1>3, RetriesKeep DEF Count
<1> QED BY <1>4, <1>5, <1>6, <1>7, <1>8

LEMMA CountRight ==
  ASSUME IInv, AInv, NEW e \in Execs, CountAttempts(e)
  PROVE  AInv'
<1> USE DEF AInv
<1>1. /\ e \in Procs /\ CallerShape(e) /\ pc[e] = "count" /\ job[e] \in Jobs
      /\ pc' = [pc EXCEPT ![e] = "create"]
      /\ number' = [number EXCEPT ![e] = Count(job[e]) + 1]
      /\ UNCHANGED <<jobStatus, job, lease, attempt, outcome, requeues, afterVars>>
  BY CallerExecShape, TargetStarted
     DEF CountAttempts, Goto, Count, Procs, IInv, TypeOK, StoreTypeOK, JobOf
<1>2. attempt[e] = "none"
  BY <1>1 DEF NumbersRight
<1>3. /\ \A i : AttemptsOf(i)' = AttemptsOf(i) /\ Failures(i)' = Failures(i)
      /\ \A f \in Execs : attempt[f] # "none" => number'[f] = number[f]
  BY <1>1, <1>2 DEF AttemptsOf, Failures, IInv, TypeOK, StoreTypeOK
<1>4. CallersRight'
  BY <1>1, CallersKeep DEF afterVars
<1>5. ResultsRight' /\ CheckpointsRight'
  BY <1>1 DEF ResultsRight, CheckpointsRight, afterVars
<1>6. NumbersRight'
  <2>1. (\A i \in Jobs : {number[f] : f \in AttemptsOf(i)} = 1 .. Count(i))'
    <3>1. \A i \in Jobs : {number'[f] : f \in AttemptsOf(i)} = {number[f] : f \in AttemptsOf(i)}
      BY <1>3 DEF AttemptsOf
    <3> QED BY <1>3, <3>1 DEF NumbersRight, Count
  <2>2. (\A d, f \in Execs :
           /\ attempt[d] # "none" /\ attempt[f] # "none"
           /\ job[d] = job[f] /\ number[d] = number[f]
           => d = f)'
    BY <1>1, <1>3 DEF NumbersRight
  <2>3. (\A f \in Execs :
           /\ pc[f] \in Early => attempt[f] = "none"
           /\ lease[f] = "active" /\ attempt[f] # "none" => number[f] = Count(job[f])
           /\ lease[f] = "active" /\ pc[f] = "create" => number[f] = Count(job[f]) + 1)'
    BY <1>1, <1>2, <1>3 DEF NumbersRight, Count, Early, IInv, TypeOK, StoreTypeOK, Procs
  <2> QED BY <2>1, <2>2, <2>3 DEF NumbersRight, Early
<1>7. RetriesRight'
  <2>1. \A q \in Procs : AfterFailure(q) => target[q] \in Execs /\ attempt[target[q]] # "none"
    BY TargetStarted DEF AfterFailure, CallersRight, CallerRight, AtWork, Committed, InTry, IInv
  <2> QED BY <1>1, <1>3, <2>1, RetriesKeep DEF Count
<1> QED BY <1>4, <1>5, <1>6, <1>7

(* Who creates an attempt has the lease of its job, so nobody requeues the  *)
(* job meanwhile, and nobody has counted with it.                           *)
LEMMA CreateRight ==
  ASSUME IInv, AInv, NEW e \in Execs, Create(e), CreateAttempt(e)
  PROVE  AInv'
<1> USE DEF AInv
<1> DEFINE j == job[e]
           n == Count(job[e])
<1>1. /\ e \in Procs /\ CallerShape(e) /\ pc[e] = "create" /\ j \in Jobs /\ lease[e] = "active"
      /\ pc' = [pc EXCEPT ![e] = "run"]
      /\ attempt' = [attempt EXCEPT ![e] = "running"]
      /\ UNCHANGED <<jobStatus, job, lease, number, outcome, requeues, afterVars>>
  BY CallerExecShape, TargetStarted
     DEF Create, CreateAttempt, CanCreateAttempt, Goto, Procs, IInv, TypeOK, StoreTypeOK, JobOf
<1>2. attempt[e] = "none" /\ outcome[e] = "none" /\ number[e] = n + 1
  BY <1>1, RowsExist DEF NumbersRight
<1>3. /\ AttemptsOf(j)' = AttemptsOf(j) \cup {e} /\ e \notin AttemptsOf(j)
      /\ \A i : i # j => AttemptsOf(i)' = AttemptsOf(i)
      /\ \A i : Failures(i)' = Failures(i)
  BY <1>1, <1>2 DEF AttemptsOf, Failures, IInv, TypeOK, StoreTypeOK
<1>4. Count(j)' = n + 1 /\ n \in Nat /\ \A i : i # j => Count(i)' = Count(i)
  <2>1. Cardinality(AttemptsOf(j) \cup {e}) = Cardinality(AttemptsOf(j)) + 1
    BY <1>3, CountsType, FS_AddElement
  <2>2. job' = job
    BY <1>1
  <2> QED BY <1>3, <2>1, <2>2, CountsType DEF Count
<1>5. CallersRight'
  BY <1>1, CallersKeep DEF afterVars, IInv, TypeOK, StoreTypeOK
<1>6. ResultsRight' /\ CheckpointsRight'
  BY <1>1, <1>2 DEF ResultsRight, CheckpointsRight, afterVars, IInv, TypeOK, StoreTypeOK
<1>7. \A f \in Execs : attempt[f] # "none" /\ job[f] = j => number[f] \in 1 .. n
  BY <1>1 DEF NumbersRight, AttemptsOf
<1>8. NumbersRight'
  <2> HIDE DEF n
  <2>1. ASSUME NEW i \in Jobs
        PROVE  ({number[f] : f \in AttemptsOf(i)} = 1 .. Count(i))'
    <3>1. CASE i # j
      BY <1>1, <1>3, <1>4, <3>1 DEF NumbersRight
    <3>2. CASE i = j
      <4>1. {number[f] : f \in AttemptsOf(j) \cup {e}} = (1 .. n) \cup {n + 1}
        BY <1>1, <1>2 DEF NumbersRight, n
      <4>2. (1 .. n) \cup {n + 1} = 1 .. (n + 1)
        BY <1>4
      <4> QED BY <1>1, <1>3, <1>4, <3>2, <4>1, <4>2
    <3> QED BY <3>1, <3>2
  <2>2. (\A d, f \in Execs :
           /\ attempt[d] # "none" /\ attempt[f] # "none"
           /\ job[d] = job[f] /\ number[d] = number[f]
           => d = f)'
    <3>1. \A f \in Execs : attempt[f] # "none" /\ job[f] = j => number[f] # n + 1
      BY <1>4, <1>7
    <3>2. \A f \in Execs : attempt'[f] # "none" => f = e \/ attempt[f] # "none"
      BY <1>1 DEF IInv, TypeOK, StoreTypeOK
    <3> QED BY <1>1, <1>2, <3>1, <3>2 DEF NumbersRight
  <2>3. \A f \in Execs : f # e /\ lease[f] = "active" => job[f] # j
    BY <1>1 DEF IInv, OneOwner, ActiveLeases
  <2>4. ASSUME NEW f \in Execs
        PROVE  (/\ pc[f] \in Early => attempt[f] = "none"
                /\ lease[f] = "active" /\ attempt[f] # "none" => number[f] = Count(job[f])
                /\ lease[f] = "active" /\ pc[f] = "create" => number[f] = Count(job[f]) + 1)'
    <3>1. CASE f = e
      BY <1>1, <1>2, <1>4, <3>1 DEF Early, IInv, TypeOK, StoreTypeOK, Procs
    <3>2. CASE f # e
      <4>1. pc'[f] = pc[f] /\ attempt'[f] = attempt[f]
        BY <1>1, <3>2 DEF IInv, TypeOK, StoreTypeOK
      <4>2. lease[f] = "active" => Count(job[f])' = Count(job[f])
        BY <1>1, <1>4, <2>3, <3>2
      <4> QED BY <1>1, <4>1, <4>2 DEF NumbersRight, Early
    <3> QED BY <3>1, <3>2
  <2> QED BY <2>1, <2>2, <2>4 DEF NumbersRight, Early
<1>9. RetriesRight'
  <2>1. \A q \in Procs : AfterFailure(q) => JobOf(q) # j
    <3> SUFFICES ASSUME NEW q \in Procs, AfterFailure(q), JobOf(q) = j PROVE FALSE
      OBVIOUS
    <3>1. target[q] = e
      BY <1>1 DEF IInv, FailureIsKept, ActiveLeases
    <3>2. attempt[target[q]] # "none"
      BY DEF AfterFailure, CallersRight, CallerRight, AtWork, Committed, InTry
    <3> QED BY <1>2, <3>1, <3>2
  <2> QED BY <1>1, <1>3, <1>4, <2>1, RetriesKeep
<1> QED BY <1>5, <1>6, <1>8, <1>9

LEMMA CompleteRight ==
  ASSUME IInv, AInv, NEW p \in Procs, MarkFenced(p) \/ Mark(p)
  PROVE  AInv'
<1> USE DEF AInv
<1>1. PICK s \in {"succeeded", "failed", "canceled", "retry_available", "fenced"} :
        /\ attempt' = [attempt EXCEPT ![target[p]] = s]
        /\ s \in {"succeeded", "failed", "canceled"} => outcome[target[p]] = s
        /\ s = "retry_available" => outcome[target[p]] = "failed"
  <2>1. CASE MarkFenced(p)
    BY <2>1 DEF MarkFenced, CompleteAttempt
  <2>2. CASE Mark(p)
    <3>1. /\ outcome[target[p]] = StatusOf(verdict[p]) /\ verdict[p] \in Report
          /\ RetryAvailable(p) => verdict[p] \in Failure
      BY <2>2 DEF Mark, CallersRight, CallerRight, Committed, RetryAvailable, Failure
    <3> QED BY <2>2, <3>1 DEF Mark, CompleteAttempt, StatusOf, Report, Success, Failure
  <2> QED BY <2>1, <2>2
<1>2. /\ CallerShape(p) /\ target[p] \in Execs /\ attempt[target[p]] # "none"
      /\ UNCHANGED <<jobStatus, job, lease, number, outcome, requeues, afterVars>>
      /\ pc'[p] \in {"release", "checkpoint"}
  <2>1. CallerShape(p)
    BY CallerFinishShape DEF QuietFinish, Checkpoint, MarkFenced, Mark
  <2>2. pc[p] \in {"fenced", "mark"}
    BY DEF MarkFenced, Mark
  <2>3. attempt[target[p]] # "none"
    BY <2>2 DEF CallersRight, CallerRight, AtWork, Committed, InTry
  <2> QED BY <2>1, <2>2, <2>3, TargetStarted
          DEF MarkFenced, Mark, CompleteAttempt, Goto, IInv, TypeOK
<1>3. \A e \in Execs : /\ attempt'[e] = "none" <=> attempt[e] = "none"
                       /\ e # target[p] => attempt'[e] = attempt[e]
  BY <1>1, <1>2 DEF IInv, TypeOK, StoreTypeOK
<1>4. CallersRight'
  BY <1>2, <1>3, CallersKeep DEF afterVars
<1>5. ResultsRight' /\ CheckpointsRight'
  BY <1>1, <1>2, <1>3 DEF ResultsRight, CheckpointsRight, afterVars, IInv, TypeOK, StoreTypeOK
<1>6. NumbersRight'
  <2>1. \A e \in Execs : /\ pc'[e] \in Early => pc[e] \in Early \cup {"idle"}
                         /\ pc'[e] = "create" => pc[e] = "create"
    BY <1>2 DEF CallerShape, Procs
  <2> QED BY <1>2, <1>3, <2>1, NumbersKeep
<1>7. RetriesRight'
  BY <1>2, <1>3, RetriesKeep DEF Failures, AttemptsOf, Count
<1> QED BY <1>4, <1>5, <1>6, <1>7

(* The fence: whose commit is let through is the first to commit anything   *)
(* for the job since it was leased, and has not committed before.           *)
LEMMA CommitFirst ==
  ASSUME IInv, AInv, NEW p \in Procs, Commit(p), Fenced(target[p])
  PROVE  /\ target[p] \in Execs /\ JobOf(p) \in Jobs
         /\ lease[target[p]] = "active" /\ jobStatus[JobOf(p)] = "leased"
         /\ outcome[target[p]] = "none" /\ attempt[target[p]] # "none"
         /\ verdict[p] \in Report /\ StatusOf(verdict[p]) \in Final
         /\ jobStatus' = [jobStatus EXCEPT ![JobOf(p)] = StatusOf(verdict[p])]
         /\ outcome' = [outcome EXCEPT ![target[p]] = StatusOf(verdict[p])]
         /\ pc' = [pc EXCEPT ![p] = IF p \in Recoverers /\ verdict[p] \in Success
                                    THEN "validate" ELSE "mark"]
         /\ UNCHANGED <<job, lease, number, attempt, requeues, target, verdict, afterVars>>
<1>1. /\ target[p] \in Execs /\ JobOf(p) \in Jobs /\ pc[p] = "commit"
      /\ lease[target[p]] = "active" /\ jobStatus[JobOf(p)] = "leased"
  BY TargetStarted DEF Commit, Fenced, ActiveLeases, JobOf, IInv
<1>2. outcome[target[p]] = "none"
  BY <1>1 DEF AInv, ResultsRight, JobOf
<1>3. attempt[target[p]] # "none" /\ verdict[p] \in Report
  BY <1>1 DEF AInv, CallersRight, CallerRight, AtWork, InTry
<1> QED BY <1>1, <1>2, <1>3
        DEF Commit, CommitJob, Goto, JobOf, StatusOf, Final, IInv, TypeOK

LEMMA CommitRight ==
  ASSUME IInv, AInv, NEW p \in Procs, Commit(p), Fenced(target[p])
  PROVE  AInv'
<1> USE DEF AInv
<1> DEFINE t == target[p]
           j == JobOf(p)
           s == StatusOf(verdict[p])
<1>1. /\ t \in Execs /\ j \in Jobs /\ job[t] = j
      /\ lease[t] = "active" /\ jobStatus[j] = "leased"
      /\ outcome[t] = "none" /\ attempt[t] # "none"
      /\ verdict[p] \in Report /\ s \in Final
      /\ jobStatus' = [jobStatus EXCEPT ![j] = s]
      /\ outcome' = [outcome EXCEPT ![t] = s]
      /\ pc'[p] \in {"validate", "mark"}
      /\ pc'[p] = "validate" => p \in Recoverers
      /\ \A q \in Procs \ {p} : pc'[q] = pc[q]
      /\ UNCHANGED <<job, lease, number, attempt, requeues, target, verdict, afterVars>>
  BY CommitFirst DEF JobOf, IInv, TypeOK
<1>2. /\ s = "succeeded" <=> verdict[p] \in Success
      /\ s = "failed" <=> verdict[p] \in Failure
  BY <1>1 DEF StatusOf, Success, Failure, Report
<1>3. \A e \in Execs : outcome'[e] = IF e = t THEN s ELSE outcome[e]
  BY <1>1 DEF IInv, TypeOK, StoreTypeOK
<1>4. \A i \in Jobs : jobStatus'[i] = IF i = j THEN s ELSE jobStatus[i]
  BY <1>1 DEF IInv, TypeOK, StoreTypeOK
<1>5. \A e \in Execs : outcome[e] = "succeeded" => job[e] # j
  BY <1>1 DEF ResultsRight
<1> HIDE DEF t, j, s
<1>6. \A q \in Procs : q # p => /\ AfterSuccess(q)' <=> AfterSuccess(q)
                                /\ BeforeCheckpoint(q)' <=> BeforeCheckpoint(q)
                                /\ Committed(q)' <=> Committed(q)
                                /\ AtWork(q)' <=> AtWork(q)
                                /\ AfterFailure(q)' <=> AfterFailure(q)
                                /\ JobOf(q)' = JobOf(q)
  BY <1>1 DEF AfterSuccess, BeforeCheckpoint, Committed, AtWork, AfterFailure, JobOf
<1>7. /\ Committed(p)' /\ AtWork(p)' /\ JobOf(p)' = j
      /\ AfterSuccess(p)' => s = "succeeded"
      /\ AfterFailure(p)' => s = "failed"
  BY <1>1, <1>2 DEF Committed, AtWork, AfterSuccess, BeforeCheckpoint, AfterFailure, JobOf, j
<1>8. \A q \in Procs : /\ AfterSuccess(q) => target[q] \in Execs /\ outcome[target[q]] = "succeeded"
                       /\ Committed(q) => outcome[target[q]] = StatusOf(verdict[q])
  BY TargetStarted DEF CallersRight, CallerRight, AfterSuccess, BeforeCheckpoint, Committed, IInv
<1>9. CallersRight'
  <2> SUFFICES ASSUME NEW q \in Procs PROVE CallerRight(q)'
    BY DEF CallersRight
  <2>1. CallerRight(q)
    BY DEF CallersRight
  <2>2. (pc[q] \in Reported => verdict[q] \in Report)'
    BY <1>1, <2>1 DEF CallerRight, Reported
  <2>3. (AtWork(q) => attempt[target[q]] # "none")'
    BY <1>1, <1>6, <2>1 DEF CallerRight, t
  <2>4. (Committed(q) => outcome[target[q]] = StatusOf(verdict[q]))'
    <3>1. CASE q = p
      BY <1>1, <1>3, <3>1 DEF t, s, StatusOf
    <3>2. CASE q # p
      <4>1. Committed(q) => target[q] \in Execs /\ target[q] # t
        <5>1. Committed(q) => target[q] \in Execs
          BY TargetStarted DEF Committed, IInv
        <5> QED BY <1>1, <1>8, <5>1 DEF StatusOf
      <4> QED BY <1>1, <1>3, <1>6, <1>8, <3>2, <4>1 DEF StatusOf
    <3> QED BY <3>1, <3>2
  <2>5. (AfterSuccess(q) => outcome[target[q]] = "succeeded")'
    BY <1>1, <1>3, <1>6, <1>7, <1>8 DEF t
  <2>6. (AfterSuccess(q) =>
           \A r \in Procs : AfterSuccess(r) /\ JobOf(r) = JobOf(q) => r = q)'
    <3>1. \A r \in Procs : AfterSuccess(r) => JobOf(r) # j
      BY <1>5, <1>8 DEF JobOf
    <3>2. \A r \in Procs : AfterSuccess(r) =>
            \A v \in Procs : AfterSuccess(v) /\ JobOf(v) = JobOf(r) => v = r
      BY DEF CallersRight, CallerRight
    <3>3. \A r \in Procs : AfterSuccess(r)' =>
            r = p \/ (AfterSuccess(r) /\ JobOf(r)' = JobOf(r) /\ JobOf(r)' # j)
      BY <1>6, <3>1
    <3> QED BY <1>7, <3>2, <3>3
  <2>7. (BeforeCheckpoint(q) => checkpoints[JobOf(q)] = 0)'
    <3>1. checkpoints[j] = 0
      BY <1>1, <1>5 DEF CheckpointsRight
    <3> QED BY <1>1, <1>6, <1>7, <2>1, <3>1 DEF CallerRight, afterVars
  <2>8. (pc[q] = "ask" => checkpoints[JobOf(q)] = 1 /\ approvals[JobOf(q)] = 0)'
    BY <1>1, <1>6, <2>1 DEF CallerRight, afterVars
  <2> QED BY <2>2, <2>3, <2>4, <2>5, <2>6, <2>7, <2>8 DEF CallerRight, Reported
<1>10. ResultsRight'
  <2> SUFFICES ASSUME NEW e \in Execs
               PROVE  (/\ outcome[e] # "none" =>
                            /\ attempt[e] # "none" /\ lease[e] # "none"
                            /\ lease[e] = "active" => jobStatus[job[e]] # "leased"
                       /\ outcome[e] = "succeeded" =>
                            /\ jobStatus[job[e]] = "succeeded"
                            /\ \A f \in Execs : outcome[f] = "succeeded" /\ job[f] = job[e] => f = e
                       /\ attempt[e] \in {"succeeded", "failed", "canceled"} => outcome[e] = attempt[e]
                       /\ attempt[e] = "retry_available" => outcome[e] = "failed")'
    BY DEF ResultsRight
  <2>1. attempt[t] \notin {"succeeded", "failed", "canceled", "retry_available"}
    BY <1>1 DEF ResultsRight
  <2>2. CASE e = t
    BY <1>1, <1>3, <1>4, <1>5, <2>1, <2>2 DEF Final
  <2>3. CASE e # t
    <3>1. outcome[e] # "none" => job[e] \in Jobs
      BY RowsExist
    <3> QED BY <1>1, <1>3, <1>4, <1>5, <2>3, <3>1 DEF ResultsRight, Final
  <2> QED BY <2>2, <2>3
<1>11. CheckpointsRight'
  <2>1. \A e \in Execs : outcome[e] = "succeeded" => outcome'[e] = "succeeded"
    BY <1>1, <1>3
  <2> QED BY <1>1, <2>1 DEF CheckpointsRight, afterVars
<1>12. NumbersRight'
  <2>1. \A e \in Execs : /\ pc'[e] \in Early => pc[e] \in Early \cup {"idle"}
                         /\ pc'[e] = "create" => pc[e] = "create"
    BY <1>1, JobExecutionAssumption DEF Procs, Early
  <2> QED BY <1>1, <2>1, NumbersKeep
<1>13. RetriesRight'
  <2>1. \A i : /\ AttemptsOf(i)' = AttemptsOf(i) /\ Count(i)' = Count(i)
               /\ i # j \/ s # "failed" => Failures(i)' = Failures(i)
    BY <1>1, <1>3 DEF AttemptsOf, Count, Failures
  <2>2. s = "failed" => Cardinality(Failures(j))' = Cardinality(Failures(j)) + 1
    <3>1. j' = j
      BY <1>1 DEF j, JobOf
    <3>2. s = "failed" => Failures(j)' = Failures(j) \cup {t} /\ t \notin Failures(j)
      BY <1>1, <1>3, <3>1 DEF Failures
    <3>3. t \notin Failures(j) =>
            Cardinality(Failures(j) \cup {t}) = Cardinality(Failures(j)) + 1
      BY CountsType, FS_AddElement
    <3> QED BY <3>2, <3>3
  <2>3. \A q \in Procs : AfterFailure(q) => JobOf(q) \in Jobs /\ JobOf(q) # j
    BY <1>1, TargetStarted DEF FailureIsKept, AfterFailure, IInv
  <2>4. requeues[j] <= Cardinality(Failures(j)) /\ requeues[j] \in Nat
        /\ Cardinality(Failures(j)) \in Nat
    BY <1>1, CountsType DEF RetriesRight, IInv, TypeOK, StoreTypeOK
  <2>5. number[t] = Count(j)
    BY <1>1 DEF NumbersRight
  <2>6. (\A i \in Jobs : requeues[i] <= Cardinality(Failures(i)) /\ requeues[i] <= RetryLimit)'
    <3> SUFFICES ASSUME NEW i \in Jobs
                 PROVE  (requeues[i] <= Cardinality(Failures(i)) /\ requeues[i] <= RetryLimit)'
      OBVIOUS
    <3>1. CASE i # j \/ s # "failed"
      BY <1>1, <2>1, <3>1 DEF RetriesRight
    <3>2. CASE i = j /\ s = "failed"
      <4>1. Failures(i)' = Failures(j)'
        BY <1>1, <3>2 DEF Failures, j, JobOf
      <4> QED BY <1>1, <2>2, <2>4, <3>2, <4>1 DEF RetriesRight
    <3> QED BY <3>1, <3>2
  <2>7. ASSUME NEW q \in Procs, AfterFailure(q)'
        PROVE  (/\ requeues[JobOf(q)] < Cardinality(Failures(JobOf(q)))
                /\ number[target[q]] = Count(JobOf(q))
                /\ pc[q] \in Requeueing => number[target[q]] <= RetryLimit)'
    <3>1. CASE q = p
      <4>1. s = "failed" /\ JobOf(q)' = j /\ pc'[q] \notin Requeueing
        BY <1>1, <1>7, <2>7, <3>1 DEF Requeueing
      <4>2. Failures(JobOf(q))' = Failures(j)' /\ Count(JobOf(q))' = Count(j)'
        BY <1>1, <4>1 DEF Failures, Count, AttemptsOf, j, JobOf
      <4> QED BY <1>1, <2>1, <2>2, <2>4, <2>5, <3>1, <4>1, <4>2 DEF t
    <3>2. CASE q # p
      <4>1. /\ AfterFailure(q) /\ JobOf(q)' = JobOf(q) /\ JobOf(q) # j /\ pc'[q] = pc[q]
        BY <1>1, <1>6, <2>3, <2>7, <3>2
      <4>2. Failures(JobOf(q))' = Failures(JobOf(q)) /\ Count(JobOf(q))' = Count(JobOf(q))
        BY <1>1, <1>3, <4>1 DEF Failures, Count, AttemptsOf
      <4> QED BY <1>1, <4>1, <4>2 DEF RetriesRight, Requeueing
    <3> QED BY <3>1, <3>2
  <2> QED BY <2>6, <2>7 DEF RetriesRight, Requeueing
<1> QED BY <1>9, <1>10, <1>11, <1>12, <1>13

LEMMA ReleaseRight ==
  ASSUME IInv, AInv, NEW p \in Procs, Release(p)
  PROVE  AInv'
<1> USE DEF AInv
<1>1. /\ CallerShape(p) /\ target[p] \in Execs
      /\ pc'[p] \in {"checkpoint", "requeueRead", "done", "idle"}
      /\ p \in Execs => pc'[p] # "idle"
      /\ UNCHANGED <<jobStatus, job, number, attempt, outcome, requeues, afterVars>>
  BY CallerFinishShape, TargetStarted DEF Release, ReleaseLease, Goto, End, IInv, TypeOK
<1>2. \A e \in Execs : /\ lease'[e] = "active" => lease[e] = "active"
                       /\ lease'[e] = "none" <=> lease[e] = "none"
  BY <1>1 DEF Release, ReleaseLease, IInv, TypeOK, StoreTypeOK
<1>3. CallersRight'
  BY <1>1, CallersKeep DEF afterVars
<1>4. ResultsRight' /\ CheckpointsRight'
  BY <1>1, <1>2 DEF ResultsRight, CheckpointsRight, afterVars
<1>5. NumbersRight'
  <2>1. \A e \in Execs : /\ pc'[e] \in Early => pc[e] \in Early \cup {"idle"}
                         /\ pc'[e] = "create" => pc[e] = "create"
    BY <1>1 DEF CallerShape, Procs
  <2> QED BY <1>1, <1>2, <2>1, NumbersKeep
<1>6. RetriesRight'
  BY <1>1, RetriesKeep DEF Failures, AttemptsOf, Count
<1> QED BY <1>3, <1>4, <1>5, <1>6

LEMMA RecoverExpiredRight ==
  ASSUME IInv, AInv, RecoverExpired
  PROVE  AInv'
<1> USE DEF AInv
<1>1. PICK E \in SUBSET Expirable : RecoverLeases(E)
  BY DEF RecoverExpired
<1>2. /\ UNCHANGED <<job, number, attempt, outcome, requeues, localVars, afterVars>>
      /\ \A e \in Execs : /\ lease'[e] = "active" => lease[e] = "active"
                          /\ lease'[e] = "none" => lease[e] = "none"
      /\ \A j \in Jobs : jobStatus'[j] = jobStatus[j]
                         \/ (jobStatus[j] = "leased" /\ jobStatus'[j] = "queued")
  BY <1>1 DEF RecoverLeases, Expirable, RecoverExpired
<1>3. CallersRight'
  BY <1>2 DEF CallersRight, CallerRight, AfterSuccess, BeforeCheckpoint, Committed, AtWork,
              JobOf, StatusOf, localVars, afterVars
<1>4. ResultsRight' /\ CheckpointsRight'
  BY <1>2, RowsExist DEF ResultsRight, CheckpointsRight, afterVars
<1>5. NumbersRight'
  BY <1>2, NumbersKeep DEF localVars
<1>6. RetriesRight'
  BY <1>2 DEF RetriesRight, AfterFailure, Failures, Count, AttemptsOf, JobOf, localVars
<1> QED BY <1>3, <1>4, <1>5, <1>6

(* A job is requeued once for each failed attempt at most: the requeues so  *)
(* far are fewer than its failed attempts, these are some of its attempts,  *)
(* and the newest attempt, whose number is how many there are, is within    *)
(* the limit.                                                               *)
LEMMA RequeueRight ==
  ASSUME IInv, AInv, NEW p \in Procs, Requeue(p)
  PROVE  AInv'
<1> USE DEF AInv
<1> DEFINE j == JobOf(p)
<1>1. /\ CallerShape(p) /\ pc[p] = "requeue" /\ AfterFailure(p)
      /\ target[p] \in Execs /\ j \in Jobs /\ jobStatus[j] = "failed"
      /\ pc'[p] \in {"done", "idle"} /\ (p \in Execs => pc'[p] # "idle")
      /\ jobStatus' = [jobStatus EXCEPT ![j] = "queued"]
      /\ requeues' = [requeues EXCEPT ![j] = requeues[j] + 1]
      /\ UNCHANGED <<job, lease, number, attempt, outcome, afterVars>>
  BY CallerFinishShape, TargetStarted
     DEF Requeue, RequeueJob, Goto, End, AfterFailure, FailureIsKept, IInv, TypeOK
<1> HIDE DEF j
<1>2. \A i \in Jobs : /\ i # j => jobStatus'[i] = jobStatus[i] /\ requeues'[i] = requeues[i]
                      /\ jobStatus'[j] = "queued" /\ requeues'[j] = requeues[j] + 1
  BY <1>1 DEF IInv, TypeOK, StoreTypeOK
<1>3. \A i : /\ AttemptsOf(i)' = AttemptsOf(i) /\ Count(i)' = Count(i)
             /\ Failures(i)' = Failures(i)
  BY <1>1 DEF AttemptsOf, Count, Failures
<1>4. CallersRight'
  BY <1>1, CallersKeep DEF afterVars
<1>5. ResultsRight'
  <2>1. \A e \in Execs : /\ outcome[e] = "succeeded" => job[e] # j
                         /\ outcome[e] # "none" => job[e] \in Jobs
    BY <1>1, RowsExist DEF ResultsRight
  <2> QED BY <1>1, <1>2, <2>1 DEF ResultsRight
<1>6. CheckpointsRight'
  BY <1>1 DEF CheckpointsRight, afterVars
<1>7. NumbersRight'
  <2>1. \A e \in Execs : /\ pc'[e] \in Early => pc[e] \in Early \cup {"idle"}
                         /\ pc'[e] = "create" => pc[e] = "create"
    BY <1>1 DEF CallerShape, Procs
  <2> QED BY <1>1, <2>1, NumbersKeep
<1>8. RetriesRight'
  <2>1. /\ requeues[j] < Cardinality(Failures(j)) /\ number[target[p]] = Count(j)
        /\ number[target[p]] <= RetryLimit
    BY <1>1 DEF RetriesRight, j
  <2>2. Cardinality(Failures(j)) <= Count(j)
    <3>1. Failures(j) \subseteq AttemptsOf(j)
      BY RowsExist DEF Failures, AttemptsOf
    <3> QED BY <3>1, CountsType, FS_Subset DEF Count
  <2>3. requeues[j] + 1 <= Cardinality(Failures(j)) /\ requeues[j] + 1 <= RetryLimit
    BY <1>1, <2>1, <2>2, CountsType, JobExecutionAssumption DEF IInv, TypeOK, StoreTypeOK
  <2>4. (\A i \in Jobs : requeues[i] <= Cardinality(Failures(i)) /\ requeues[i] <= RetryLimit)'
    BY <1>1, <1>2, <1>3, <2>3 DEF RetriesRight
  <2>5. \A q \in Procs : AfterFailure(q)' =>
          /\ AfterFailure(q) /\ q # p /\ target'[q] = target[q] /\ pc'[q] = pc[q]
          /\ JobOf(q)' = JobOf(q) /\ JobOf(q) \in Jobs /\ JobOf(q) # j
    <3>1. \A q \in Procs : AfterFailure(q)' =>
            AfterFailure(q) /\ q # p /\ target'[q] = target[q] /\ pc'[q] = pc[q]
      BY <1>1 DEF CallerShape, AfterFailure
    <3> QED BY <1>1, <3>1, TargetStarted DEF IInv, FailureIsKept, AfterFailure, JobOf, j
  <2> QED BY <1>1, <1>2, <1>3, <2>4, <2>5 DEF RetriesRight
<1> QED BY <1>4, <1>5, <1>6, <1>7, <1>8

LEMMA CheckpointRight ==
  ASSUME IInv, AInv, NEW p \in Procs, Checkpoint(p) \/ Ask(p)
  PROVE  AInv'
<1> USE DEF AInv
<1> DEFINE j == JobOf(p)
<1>1. /\ target[p] \in Execs /\ j \in Jobs /\ AfterSuccess(p)
      /\ outcome[target[p]] = "succeeded" /\ attempt[target[p]] # "none"
      /\ pc'[p] \in {"ask", "evaluate", "await"}
      /\ \A q \in Procs \ {p} : pc'[q] = pc[q]
      /\ UNCHANGED <<storeVars, target, verdict>>
  <2>1. pc[p] \in {"checkpoint", "ask"} /\ AfterSuccess(p)
    BY DEF Checkpoint, Ask, AfterSuccess, BeforeCheckpoint, IInv, PathsApart, PathOf
  <2>2. outcome[target[p]] = "succeeded" /\ attempt[target[p]] # "none"
    BY <2>1 DEF CallersRight, CallerRight, AtWork, InTry
  <2> QED BY <2>1, <2>2, TargetStarted DEF Checkpoint, Ask, Goto, IInv, TypeOK
<1>2. job[target[p]] = j
  BY DEF JobOf
<1>3. \A q \in Procs : /\ JobOf(q)' = JobOf(q)
                       /\ AfterSuccess(q) => target[q] \in Execs /\ JobOf(q) \in Jobs
                       /\ AfterSuccess(q) /\ JobOf(q) = j => q = p
  <2>1. \A q \in Procs : AfterSuccess(q) => target[q] \in Execs /\ JobOf(q) \in Jobs
    BY TargetStarted DEF AfterSuccess, BeforeCheckpoint, Committed, IInv
  <2> QED BY <1>1, <2>1 DEF CallersRight, CallerRight, JobOf, storeVars
<1> HIDE DEF j
<1>4. ResultsRight'
  BY <1>1 DEF ResultsRight, storeVars
<1>5. NumbersRight'
  <2>1. \A e \in Execs : /\ pc'[e] \in Early => pc[e] \in Early \cup {"idle"}
                         /\ pc'[e] = "create" => pc[e] = "create"
    BY <1>1 DEF Procs, Early
  <2> QED BY <1>1, <2>1, NumbersKeep DEF storeVars
<1>6. RetriesRight'
  <2>1. \A q \in Procs : AfterFailure(q)' => AfterFailure(q) /\ pc'[q] = pc[q]
    BY <1>1 DEF AfterFailure
  <2>2. \A i : Failures(i)' = Failures(i) /\ Count(i)' = Count(i)
    BY <1>1 DEF Failures, Count, AttemptsOf, storeVars
  <2> QED BY <1>1, <1>3, <2>1, <2>2 DEF RetriesRight, storeVars
<1>7. /\ \A q \in Procs \ {p} : AfterSuccess(q)' <=> AfterSuccess(q)
      /\ \A q \in Procs \ {p} : BeforeCheckpoint(q)' <=> BeforeCheckpoint(q)
      /\ \A q \in Procs \ {p} : pc'[q] = "ask" => AfterSuccess(q)
      /\ ~BeforeCheckpoint(p)' /\ ~Committed(p)'
  BY <1>1 DEF AfterSuccess, BeforeCheckpoint, Committed
<1>8. ASSUME checkpoints'[j] = 1, approvals'[j] \in {0, 1}, pc'[p] = "ask" => approvals'[j] = 0,
             \A i \in Jobs \ {j} : checkpoints'[i] = checkpoints[i] /\ approvals'[i] = approvals[i]
      PROVE  CallersRight' /\ CheckpointsRight'
  <2>1. CheckpointsRight'
    BY <1>1, <1>2, <1>8 DEF CheckpointsRight, storeVars
  <2>2. ASSUME NEW q \in Procs PROVE CallerRight(q)'
    <3>1. CallerRight(q)
      BY DEF CallersRight
    <3>2. (/\ pc[q] \in Reported => verdict[q] \in Report
           /\ AtWork(q) => attempt[target[q]] # "none"
           /\ Committed(q) => outcome[target[q]] = StatusOf(verdict[q]))'
      BY <1>1, <1>7, <3>1 DEF CallerRight, Reported, AtWork, Committed, StatusOf, storeVars
    <3>3. (AfterSuccess(q) => /\ outcome[target[q]] = "succeeded"
                              /\ \A r \in Procs : AfterSuccess(r) /\ JobOf(r) = JobOf(q) => r = q)'
      <4>1. \A r \in Procs : AfterSuccess(r)' => AfterSuccess(r)
        BY <1>1, <1>7
      <4> QED BY <1>1, <1>3, <3>1, <4>1 DEF CallerRight, CallersRight, storeVars
    <3>4. (/\ BeforeCheckpoint(q) => checkpoints[JobOf(q)] = 0
           /\ pc[q] = "ask" => checkpoints[JobOf(q)] = 1 /\ approvals[JobOf(q)] = 0)'
      <4>1. CASE q = p
        <5>1. JobOf(p)' = j
          BY <1>3 DEF j
        <5> QED BY <1>7, <1>8, <4>1, <5>1
      <4>2. CASE q # p
        <5>1. BeforeCheckpoint(q)' \/ pc'[q] = "ask" =>
                JobOf(q)' = JobOf(q) /\ JobOf(q) \in Jobs \ {j}
          BY <1>3, <1>7, <4>2 DEF AfterSuccess
        <5> QED BY <1>1, <1>7, <1>8, <3>1, <4>2, <5>1 DEF CallerRight
      <4> QED BY <4>1, <4>2
    <3> QED BY <3>2, <3>3, <3>4 DEF CallerRight, Reported
  <2> QED BY <2>1, <2>2 DEF CallersRight
<1>9. CallersRight' /\ CheckpointsRight'
  <2>1. CASE Checkpoint(p)
    <3>1. /\ checkpoints[j] = 0 /\ approvals[j] = 0
          /\ checkpoints' = [checkpoints EXCEPT ![j] = checkpoints[j] + 1]
          /\ approvals' = approvals
      <4>1. checkpoints[j] = 0
        BY <2>1 DEF Checkpoint, CallersRight, CallerRight, BeforeCheckpoint, IInv, PathsApart, PathOf, j
      <4>2. approvals[j] <= checkpoints[j] /\ approvals[j] \in Nat
        BY <1>1 DEF CheckpointsRight, IInv, TypeOK
      <4>3. approvals[j] = 0
        BY <4>1, <4>2
      <4> QED BY <2>1, <4>1, <4>3 DEF Checkpoint, j
    <3> QED BY <1>1, <1>8, <3>1 DEF IInv, TypeOK
  <2>2. CASE Ask(p)
    <3>1. /\ checkpoints[j] = 1 /\ approvals[j] = 0 /\ pc'[p] = "await"
          /\ approvals' = [approvals EXCEPT ![j] = approvals[j] + 1]
          /\ checkpoints' = checkpoints
      BY <2>2 DEF Ask, Goto, CallersRight, CallerRight, IInv, TypeOK, j
    <3> QED BY <1>1, <1>8, <3>1 DEF IInv, TypeOK
  <2> QED BY <2>1, <2>2
<1> QED BY <1>4, <1>5, <1>6, <1>9

LEMMA AInit == Init => AInv
<1> SUFFICES ASSUME Init PROVE AInv
  OBVIOUS
<1> USE JobStoreAssumption, JobExecutionAssumption DEF Init, StoreInit
<1>1. CallersRight
  BY DEF CallersRight, CallerRight, AfterSuccess, BeforeCheckpoint, Committed, AtWork, InTry
<1>2. ResultsRight /\ CheckpointsRight
  BY DEF ResultsRight, CheckpointsRight
<1>3. \A j : AttemptsOf(j) = {} /\ Failures(j) = {}
  BY DEF AttemptsOf, Failures
<1>4. \A j : Count(j) = 0 /\ Cardinality(Failures(j)) = 0
  BY <1>3, FS_EmptySet DEF Count
<1>5. NumbersRight
  BY <1>3, <1>4 DEF NumbersRight
<1>6. RetriesRight
  BY <1>4 DEF RetriesRight, AfterFailure
<1> QED BY <1>1, <1>2, <1>5, <1>6 DEF AInv

LEMMA ANext == IInv /\ AInv /\ [Next]_vars => AInv'
<1> SUFFICES ASSUME IInv, AInv, [Next]_vars PROVE AInv'
  OBVIOUS
<1>1. ASSUME NEW e \in Execs, QuietExec(e) PROVE AInv'
  <2>1. CASE CountAttempts(e)
    BY <2>1, CountRight
  <2>2. CASE Create(e) /\ CreateAttempt(e)
    BY <2>2, CreateRight
  <2>3. CASE ~CountAttempts(e) /\ ~(Create(e) /\ CreateAttempt(e))
    <3>1. CallerShape(e) /\ e \in Procs
      BY <1>1, CallerExecShape DEF QuietExec, Procs
    <3>2. Numbered(e) /\ UNCHANGED <<storeVars, afterVars>>
      BY <1>1, <2>3
         DEF QuietExec, Acquire, Create, RunInProcess, StartChild, Collect, GiveUp, Crash,
             TakeVerdict, Goto, Raise, End, Numbered, localVars, IInv, TypeOK, Procs
    <3> QED BY <3>1, <3>2, StillRight
  <2> QED BY <2>1, <2>2, <2>3
<1>2. ASSUME NEW r \in Recoverers,
             QuietRecoverer(r) \/ \E e \in Execs : Adopt(r, e) \/ Interrupt(r, e)
      PROVE  AInv'
  <2>1. CallerShape(r) /\ r \in Procs /\ r \notin Execs
    BY <1>2, CallerRecovererShape, JobExecutionAssumption DEF Procs
  <2>2. UNCHANGED <<storeVars, afterVars>>
    BY <1>2 DEF QuietRecoverer, Inspect, Overwrite, Admit, Adopt, Interrupt
  <2> QED BY <2>1, <2>2, StillRight
<1>3. ASSUME NEW p \in Procs, QuietFinish(p) PROVE AInv'
  <2>1. CASE MarkFenced(p) \/ Mark(p)
    BY <2>1, CompleteRight
  <2>2. CASE Checkpoint(p) \/ Ask(p)
    BY <2>2, CheckpointRight
  <2>3. CASE ~(MarkFenced(p) \/ Mark(p)) /\ ~(Checkpoint(p) \/ Ask(p))
    <3>1. CallerShape(p)
      BY <1>3, <2>3, CallerFinishShape
    <3>2. UNCHANGED <<storeVars, afterVars>>
      BY <1>3, <2>3
         DEF QuietFinish, Validate, ToPlanning, ToWaiting, Check, Commit, CommitJob, FencedRead,
             RequeueRead, Await, Evaluate, Abort
    <3>3. pc'[p] # "create"
      BY <1>3, <2>3
         DEF QuietFinish, Validate, ToPlanning, ToWaiting, WriteMission, Ready, Check, Commit,
             CommitJob, FencedRead, RequeueRead, Await, Evaluate, Last, Abort, Goto, Raise, End,
             IInv, TypeOK
    <3> QED BY <3>1, <3>2, <3>3, StillRight DEF Numbered
  <2> QED BY <2>1, <2>2, <2>3
<1>4. ASSUME NEW e \in Execs, ChildStep(e) PROVE AInv'
  BY <1>4, NobodyMoves DEF ChildStep, ChildExit, ChildReport
<1>5. CASE MoveMission \/ UNCHANGED vars
  BY <1>5, NobodyMoves DEF MoveMission, vars
<1> QED BY StepKinds, <1>1, <1>2, <1>3, <1>4, <1>5, BeginRight, AcquireRight, CommitRight,
           ReleaseRight, RequeueRight, RecoverExpiredRight

LEMMA AInvariance == Spec => []AInv
BY AInit, ANext, Invariance, PTL DEF Spec

(* A job is completed by one attempt at most, and the checkpoint and the    *)
(* approval request of a success are written once, whether the attempt's    *)
(* own call finishes it or a recoverer, and however often they are cut off. *)
THEOREM OneSuccessEach == Spec => []OneSuccess
<1>1. ASSUME IInv, AInv PROVE OneSuccess
  <2> SUFFICES ASSUME NEW j \in Jobs
               PROVE  LET winners == {e \in Execs : job[e] = j /\ outcome[e] = "succeeded"}
                      IN /\ Cardinality(winners) <= 1
                         /\ checkpoints[j] <= Cardinality(winners)
                         /\ approvals[j] <= checkpoints[j]
    BY DEF OneSuccess
  <2> DEFINE winners == {e \in Execs : job[e] = j /\ outcome[e] = "succeeded"}
  <2>1. checkpoints[j] \in {0, 1} /\ approvals[j] <= checkpoints[j]
    BY <1>1 DEF AInv, CheckpointsRight
  <2>2. CASE winners = {}
    <3>1. checkpoints[j] = 0
      BY <1>1, <2>2 DEF AInv, CheckpointsRight
    <3> QED BY <2>1, <2>2, <3>1, FS_EmptySet
  <2>3. CASE winners # {}
    <3>1. PICK e \in Execs : winners = {e}
      BY <1>1, <2>3 DEF AInv, ResultsRight
    <3>2. Cardinality(winners) = 1
      BY <3>1, FS_Singleton
    <3> QED BY <2>1, <3>2
  <2> QED BY <2>2, <2>3
<1> QED BY <1>1, Invariance, AInvariance, PTL

(* The attempts of a job are numbered 1, 2, 3, ... without a gap or a       *)
(* clash, a row that claims a result has the one its lease committed, and   *)
(* the automatic retries stay within the limit.                             *)
THEOREM AttemptsAreHonest == Spec => []AttemptsHonest
<1>1. ASSUME AInv PROVE AttemptsHonest
  BY <1>1 DEF AInv, AttemptsHonest, NumbersRight, RetriesRight, ResultsRight, Count
<1> QED BY <1>1, AInvariance, PTL

(* Only the newest attempt of a job commits a result, and only once.        *)
THEOREM NewestCommit == Spec => NewestCommits
<1> DEFINE Newest ==
      \A e \in Execs : outcome'[e] # outcome[e] =>
        /\ outcome[e] = "none"
        /\ \A f \in AttemptsOf(job[e]) \ {e} : number[f] < number[e]
<1>1. ASSUME IInv, AInv, NEW p \in Procs, Commit(p), Fenced(target[p]) PROVE Newest
  <2> DEFINE t == target[p]
             n == Count(JobOf(p))
  <2>1. /\ t \in Execs /\ JobOf(p) \in Jobs /\ job[t] = JobOf(p)
        /\ outcome[t] = "none" /\ attempt[t] # "none" /\ lease[t] = "active"
        /\ \A e \in Execs : e # t => outcome'[e] = outcome[e]
    BY <1>1, CommitFirst DEF JobOf, IInv, TypeOK, StoreTypeOK
  <2>2. number[t] = n /\ n \in Nat
    BY <1>1, <2>1, CountsType DEF AInv, NumbersRight
  <2>3. ASSUME NEW f \in AttemptsOf(job[t]) \ {t} PROVE number[f] < number[t]
    <3>1. number[f] \in 1 .. n
      BY <1>1, <2>1 DEF AInv, NumbersRight
    <3>2. number[f] # number[t]
      BY <1>1, <2>1 DEF AInv, NumbersRight, AttemptsOf
    <3> QED BY <2>2, <3>1, <3>2
  <2> QED BY <2>1, <2>3
<1>2. ASSUME IInv, [Next]_vars PROVE [Newest]_vars \/ \E p \in Procs : Commit(p) /\ Fenced(target[p])
  <2>1. outcome' = outcome \/ \E p \in Procs : Commit(p) /\ Fenced(target[p])
    BY <1>2, StepKinds
       DEF QuietExec, Acquire, AcquireLease, CountAttempts, Create, CreateAttempt, RunInProcess,
           StartChild, Collect, GiveUp, Crash, QuietRecoverer, Inspect, Overwrite, Admit,
           QuietFinish, Validate, ToPlanning, ToWaiting, Check, Commit, CommitJob, FencedRead,
           MarkFenced, Mark, CompleteAttempt, RequeueRead, Checkpoint, Ask, Await, Evaluate, Abort,
           Begin, Release, ReleaseLease, Requeue, RequeueJob, Adopt, Interrupt, ChildStep,
           ChildExit, ChildReport, RecoverExpired, RecoverLeases, MoveMission, storeVars, vars
  <2> QED BY <2>1
<1>3. IInv /\ AInv /\ [Next]_vars => [Newest]_vars
  BY <1>1, <1>2
<1> QED BY <1>3, Invariance, AInvariance, PTL DEF Spec, NewestCommits
=============================================================================
