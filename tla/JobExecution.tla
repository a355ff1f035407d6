---------------------------- MODULE JobExecution ----------------------------
(***************************************************************************)
(* AgentRuntime.execute_job and AgentRuntime.recover_harness_attempts: the *)
(* calls that run the jobs of one mission, in any number of operating-     *)
(* system processes that share the SQLite store and the harness            *)
(* workspaces.  Every store call is a transaction of its own, so another   *)
(* call may run, and the process may die, between any two of them.         *)
(*                                                                         *)
(* An element of Execs is one call of execute_job; an element of           *)
(* Recoverers is an operator's `mission recover-harness`, which works on   *)
(* one attempt at a time.  Both finish an attempt with the same calls in a *)
(* slightly different order.                                               *)
(***************************************************************************)
EXTENDS JobStore, MissionStates

CONSTANTS
  Recoverers,  \* the recover-harness commands
  NoExec,      \* "no attempt at hand" of a recoverer
  RetryLimit,  \* jobs.retry_limit
  OtherMoves,  \* the states that other components move the mission to
  StoreErrors  \* may a store call raise?

Procs == Execs \cup Recoverers

ASSUME JobExecutionAssumption ==
  /\ Execs \cap Recoverers = {}
  /\ NoExec \notin Execs
  /\ RetryLimit \in Nat
  /\ OtherMoves \subseteq MissionState
  /\ StoreErrors \in BOOLEAN

VARIABLES
  mission,      \* missions.state
  child,        \* the worker's operating-system process of an attempt
  result,       \* the content of result.json in the attempt's workspace
  pc,           \* the next store call of a call of the runtime
  target,       \* the attempt a recoverer works on
  verdict,      \* the WorkerExecutionResult in a caller's hands
  checkpoints,  \* the number of checkpoints of a job
  approvals     \* the number of approval requests a job has raised

localVars == <<pc, target, verdict>>
afterVars == <<checkpoints, approvals>>
vars == <<storeVars, mission, child, result, localVars, afterVars>>

(* What a worker may report.  "approval" is a success whose output asks for *)
(* an approval; "retry" and "error" are failures with and without           *)
(* retryable set.                                                           *)
Success == {"succeeded", "approval"}
Failure == {"retry", "error"}
Report == Success \cup Failure \cup {"canceled"}

PC == {"idle", "validate", "planning", "waiting", "acquire", "count", "create",
       "run", "inspect", "overwrite", "check", "admit", "commit", "fencedRead",
       "fenced", "mark", "release", "checkpoint", "ask", "await", "evaluate",
       "requeueRead", "requeue", "done"}

Init ==
  /\ StoreInit
  /\ mission = "CREATED"
  /\ child = [e \in Execs |-> "none"]
  /\ result = [e \in Execs |-> "none"]
  /\ pc = [p \in Procs |-> "idle"]
  /\ target = [p \in Procs |-> IF p \in Execs THEN p ELSE NoExec]
  /\ verdict = [p \in Procs |-> "none"]
  /\ checkpoints = [j \in Jobs |-> 0]
  /\ approvals = [j \in Jobs |-> 0]

TypeOK ==
  /\ StoreTypeOK
  /\ mission \in MissionState
  /\ child \in [Execs -> {"none", "running", "exited"}]
  /\ result \in [Execs -> {"none"} \cup Report]
  /\ pc \in [Procs -> PC]
  /\ target \in [Procs -> Execs \cup {NoExec}]
  /\ \A e \in Execs : target[e] = e
  /\ verdict \in [Procs -> {"none", "raised"} \cup Report]
  /\ checkpoints \in [Jobs -> Nat]
  /\ approvals \in [Jobs -> Nat]

-----------------------------------------------------------------------------
(* Control *)

(* A call that is over, however it ended, holds no verdict; an idle         *)
(* recoverer has no attempt at hand.                                        *)
Goto(p, label) ==
  /\ pc' = [pc EXCEPT ![p] = label]
  /\ verdict' = [verdict EXCEPT ![p] = IF label \in {"idle", "done"} THEN "none" ELSE @]
  /\ target' = [target EXCEPT ![p] = IF label = "idle" THEN NoExec ELSE @]

JobOf(p) == job[target[p]]

(* The pcs of the try block of execute_job: its finally releases the lease. *)
InTry == {"run", "check", "commit", "fencedRead", "fenced", "mark", "checkpoint",
          "ask", "await", "evaluate", "requeueRead", "requeue"}

End(p) == IF p \in Execs THEN "done" ELSE "idle"

(* An exception: execute_job runs its finally and ends, a recoverer ends.   *)
Raise(p) ==
  IF p \in Execs /\ pc[p] \in InTry
  THEN /\ pc' = [pc EXCEPT ![p] = "release"]
       /\ verdict' = [verdict EXCEPT ![p] = "raised"]
       /\ UNCHANGED target
  ELSE Goto(p, End(p))

(* store.update_mission_state: succeeds and goes on, or raises. *)
WriteMission(p, to, label) ==
  IF CanWrite(mission, to)
  THEN mission' = to /\ Goto(p, label)
  ELSE UNCHANGED mission /\ Raise(p)

RetryAvailable(p) == verdict[p] = "retry" /\ number[target[p]] <= RetryLimit

-----------------------------------------------------------------------------
(* execute_job up to the worker *)

(* The job must be QUEUED when the call reads it. *)
Begin(e, j) ==
  /\ pc[e] = "idle"
  /\ jobStatus[j] = "queued"
  /\ job' = [job EXCEPT ![e] = j]
  /\ Goto(e, "validate")
  /\ UNCHANGED <<jobStatus, lease, number, attempt, outcome, requeues, mission,
                 child, result, afterVars>>

(* _ensure_mission_ready_for_worker: reads the state, then writes up to two *)
(* states.  execute_job calls it before the lease, a recoverer after the    *)
(* commit.                                                                  *)
Ready(p) == IF p \in Execs THEN "acquire" ELSE "mark"

Validate(p) ==
  /\ pc[p] = "validate"
  /\ \/ mission = "CREATED" /\ Goto(p, "planning")
     \/ mission \in {"PLANNING", "EVALUATING"} /\ Goto(p, "waiting")
     \/ mission = "WAITING_WORKER" /\ Goto(p, Ready(p))
     \/ mission \in TerminalMission \cup {"WAITING_APPROVAL"} /\ Raise(p)
  /\ UNCHANGED <<storeVars, mission, child, result, afterVars>>

ToPlanning(p) ==
  /\ pc[p] = "planning"
  /\ WriteMission(p, "PLANNING", "waiting")
  /\ UNCHANGED <<storeVars, child, result, afterVars>>

ToWaiting(p) ==
  /\ pc[p] = "waiting"
  /\ WriteMission(p, "WAITING_WORKER", Ready(p))
  /\ UNCHANGED <<storeVars, child, result, afterVars>>

Acquire(e) ==
  /\ pc[e] = "acquire"
  /\ \/ AcquireLease(e) /\ Goto(e, "count")
     \/ /\ jobStatus[job[e]] # "queued"
        /\ Raise(e)
        /\ UNCHANGED storeVars
  /\ UNCHANGED <<mission, child, result, afterVars>>

CountAttempts(e) ==
  /\ pc[e] = "count"
  /\ number' = [number EXCEPT ![e] = Cardinality(AttemptsOf(job[e])) + 1]
  /\ Goto(e, "create")
  /\ UNCHANGED <<jobStatus, job, lease, attempt, outcome, requeues, mission,
                 child, result, afterVars>>

(* A refused insert is outside the try block: its lease is not released.    *)
Create(e) ==
  /\ pc[e] = "create"
  /\ \/ CreateAttempt(e) /\ Goto(e, "run")
     \/ ~CanCreateAttempt(e) /\ Raise(e) /\ UNCHANGED storeVars
  /\ UNCHANGED <<mission, child, result, afterVars>>

-----------------------------------------------------------------------------
(* registry.execute, the harness and the worker's process *)

(* The caller takes the verdict v to the check that follows. *)
TakeVerdict(p, v) ==
  /\ pc' = [pc EXCEPT ![p] = "check"]
  /\ verdict' = [verdict EXCEPT ![p] = v]
  /\ UNCHANGED target

(* A worker that runs in the caller, or is refused before a process starts. *)
RunInProcess(e, v) ==
  /\ pc[e] = "run" /\ child[e] = "none" /\ result[e] = "none"
  /\ v \in Success \cup Failure
  /\ TakeVerdict(e, v)
  /\ UNCHANGED <<storeVars, mission, child, result, afterVars>>

StartChild(e) ==
  /\ pc[e] = "run" /\ child[e] = "none" /\ result[e] = "none"
  /\ child' = [child EXCEPT ![e] = "running"]
  /\ UNCHANGED <<storeVars, mission, result, localVars, afterVars>>

(* The child writes result.json and exits later, or dies without one.  It   *)
(* does not depend on its parent, whose process may be gone.                *)
ChildReport(e, v) ==
  /\ child[e] = "running" /\ result[e] = "none"
  /\ v \in Success \cup Failure
  /\ result' = [result EXCEPT ![e] = v]
  /\ UNCHANGED <<storeVars, mission, child, localVars, afterVars>>

ChildExit(e) ==
  /\ child[e] = "running"
  /\ child' = [child EXCEPT ![e] = "exited"]
  /\ UNCHANGED <<storeVars, mission, result, localVars, afterVars>>

(* The harness saw the process exit: it takes the result, or, when there is *)
(* none, reports a retryable crash or a success salvaged from artifacts.    *)
Collect(e) ==
  /\ pc[e] = "run" /\ child[e] = "exited"
  /\ \E v \in IF result[e] # "none" THEN {result[e]} ELSE {"retry", "succeeded"} :
        TakeVerdict(e, v) /\ result' = [result EXCEPT ![e] = v]
  /\ UNCHANGED <<storeVars, mission, child, afterVars>>

(* The harness gives up: no resource slot in time, a wall or heartbeat      *)
(* timeout, or the mission is canceled.  It kills the child if there is one *)
(* and overwrites result.json, even one the child has just written.         *)
GiveUp(e) ==
  /\ pc[e] = "run" /\ child[e] \in {"none", "running"}
  /\ \E v \in {"retry", "succeeded", "canceled"} :
        /\ v = "canceled" => mission = "CANCELED"
        /\ v # "retry" => child[e] = "running"
        /\ TakeVerdict(e, v)
        /\ result' = [result EXCEPT ![e] = v]
  /\ child' = [child EXCEPT ![e] = IF @ = "running" THEN "exited" ELSE @]
  /\ UNCHANGED <<storeVars, mission, afterVars>>

-----------------------------------------------------------------------------
(* recover_harness_attempts *)

(* The scanner found a result in the workspace of e, whose attempt is       *)
(* RUNNING: the recoverer adopts it.                                        *)
Adopt(r, e) ==
  /\ pc[r] = "idle" /\ attempt[e] = "running" /\ result[e] # "none"
  /\ target' = [target EXCEPT ![r] = e]
  /\ verdict' = [verdict EXCEPT ![r] = result[e]]
  /\ pc' = [pc EXCEPT ![r] = "check"]
  /\ UNCHANGED <<storeVars, mission, child, result, afterVars>>

(* The scanner found a heartbeat and no result: the child is dead, or its   *)
(* heartbeat is old and --terminate-stale allows to kill it.  A workspace   *)
(* without a heartbeat is invalid and skipped, a live child is left alone.  *)
Interrupt(r, e) ==
  /\ pc[r] = "idle" /\ result[e] = "none" /\ child[e] # "none"
  /\ target' = [target EXCEPT ![r] = e]
  /\ verdict' = [verdict EXCEPT ![r] = "retry"]
  /\ pc' = [pc EXCEPT ![r] = "inspect"]
  /\ UNCHANGED <<storeVars, mission, child, result, afterVars>>

(* It kills what is left, and goes on if the attempt is still RUNNING.      *)
Inspect(r) ==
  /\ pc[r] = "inspect"
  /\ child' = [child EXCEPT ![target[r]] = "exited"]
  /\ Goto(r, IF attempt[target[r]] = "running" THEN "overwrite" ELSE "idle")
  /\ UNCHANGED <<storeVars, mission, result, afterVars>>

(* It writes an interrupted result.json, whatever is there by now. *)
Overwrite(r) ==
  /\ pc[r] = "overwrite"
  /\ result' = [result EXCEPT ![target[r]] = "retry"]
  /\ Goto(r, "commit")
  /\ UNCHANGED <<storeVars, mission, child, afterVars>>

-----------------------------------------------------------------------------
(* The calls that finish an attempt *)

(* Both callers read the mission before they commit: a success becomes      *)
(* CANCELED when the mission is, for a recoverer a failure does too, and a  *)
(* recoverer goes on to check that the mission accepts a success.           *)
Check(p) ==
  /\ pc[p] = "check"
  /\ LET canceled == mission = "CANCELED"
                     /\ (p \in Recoverers \/ verdict[p] \in Success)
     IN /\ verdict' = [verdict EXCEPT ![p] = IF canceled THEN "canceled" ELSE @]
        /\ pc' = [pc EXCEPT ![p] = IF p \in Recoverers /\ verdict[p] \in Success
                                      /\ ~canceled
                                   THEN "admit" ELSE "commit"]
  /\ UNCHANGED <<storeVars, mission, child, result, target, afterVars>>

Admit(r) ==
  /\ pc[r] = "admit"
  /\ IF mission \in TerminalMission \cup {"WAITING_APPROVAL"}
     THEN Raise(r) ELSE Goto(r, "commit")
  /\ UNCHANGED <<storeVars, mission, child, result, afterVars>>

StatusOf(v) == IF v \in Success THEN "succeeded"
               ELSE IF v \in Failure THEN "failed" ELSE "canceled"

(* Mutation of Commit: a conflict does not stop the caller. *)
CommitOrIgnore(p) ==
  /\ pc[p] = "commit"
  /\ \/ CommitJob(target[p], StatusOf(verdict[p]))
     \/ ~Fenced(target[p]) /\ UNCHANGED storeVars
  /\ Goto(p, IF p \in Recoverers /\ verdict[p] \in Success THEN "validate" ELSE "mark")
  /\ UNCHANGED <<mission, child, result, afterVars>>

Commit(p) ==
  /\ pc[p] = "commit"
  /\ \/ /\ CommitJob(target[p], StatusOf(verdict[p]))
        /\ Goto(p, IF p \in Recoverers /\ verdict[p] \in Success
                   THEN "validate" ELSE "mark")
     \/ /\ ~Fenced(target[p])
        /\ pc' = [pc EXCEPT ![p] = "fencedRead"]
        /\ verdict' = [verdict EXCEPT ![p] = "raised"]
        /\ UNCHANGED <<storeVars, target>>
  /\ UNCHANGED <<mission, child, result, afterVars>>

(* _complete_stale_fenced_attempt after a JobExecutionConflictError. *)
FencedRead(p) ==
  /\ pc[p] = "fencedRead"
  /\ Goto(p, IF attempt[target[p]] = "running" THEN "fenced" ELSE "release")
  /\ UNCHANGED <<storeVars, mission, child, result, afterVars>>

MarkFenced(p) ==
  /\ pc[p] = "fenced"
  /\ CompleteAttempt(target[p], "fenced")
  /\ Goto(p, "release")
  /\ UNCHANGED <<mission, child, result, afterVars>>

(* complete_job_attempt; then execute_job writes the checkpoint of a        *)
(* success, and every other path releases the lease first.                  *)
Mark(p) ==
  /\ pc[p] = "mark"
  /\ CompleteAttempt(target[p],
       CASE verdict[p] \in Success -> "succeeded"
         [] verdict[p] = "canceled" -> "canceled"
         [] OTHER -> IF RetryAvailable(p) THEN "retry_available" ELSE "failed")
  /\ Goto(p, IF p \in Execs /\ verdict[p] \in Success THEN "checkpoint"
                                                      ELSE "release")
  /\ UNCHANGED <<mission, child, result, afterVars>>

(* execute_job releases a second time after a requeue, which changes        *)
(* nothing.                                                                 *)
Release(p) ==
  /\ pc[p] = "release"
  /\ ReleaseLease(target[p])
  /\ Goto(p, IF p \in Recoverers /\ verdict[p] \in Success THEN "checkpoint"
             ELSE IF RetryAvailable(p) THEN "requeueRead" ELSE End(p))
  /\ UNCHANGED <<mission, child, result, afterVars>>

RequeueRead(p) ==
  /\ pc[p] = "requeueRead"
  /\ IF jobStatus[JobOf(p)] = "failed" THEN Goto(p, "requeue") ELSE Raise(p)
  /\ UNCHANGED <<storeVars, mission, child, result, afterVars>>

Requeue(p) ==
  /\ pc[p] = "requeue"
  /\ RequeueJob(JobOf(p))
  /\ Goto(p, End(p))
  /\ UNCHANGED <<mission, child, result, afterVars>>

(* create_checkpoint, then request_approval or EVALUATING. *)
Checkpoint(p) ==
  /\ pc[p] = "checkpoint"
  /\ checkpoints' = [checkpoints EXCEPT ![JobOf(p)] = @ + 1]
  /\ Goto(p, IF verdict[p] = "approval" THEN "ask" ELSE "evaluate")
  /\ UNCHANGED <<storeVars, mission, child, result, approvals>>

Ask(p) ==
  /\ pc[p] = "ask"
  /\ approvals' = [approvals EXCEPT ![JobOf(p)] = @ + 1]
  /\ Goto(p, "await")
  /\ UNCHANGED <<storeVars, mission, child, result, checkpoints>>

Last(p) == IF p \in Execs THEN "release" ELSE "idle"

Await(p) ==
  /\ pc[p] = "await"
  /\ WriteMission(p, "WAITING_APPROVAL", Last(p))
  /\ UNCHANGED <<storeVars, child, result, afterVars>>

Evaluate(p) ==
  /\ pc[p] = "evaluate"
  /\ WriteMission(p, "EVALUATING", Last(p))
  /\ UNCHANGED <<storeVars, child, result, afterVars>>

-----------------------------------------------------------------------------
(* Failures, and what the rest of the system does *)

(* A store call, or reading an artifact's bytes for its manifest, may raise: *)
(* the busy timeout of SQLite, a full disk.                                 *)
Abort(p) ==
  /\ StoreErrors
  /\ pc[p] \notin {"idle", "release", "done"}
  /\ Raise(p)
  /\ UNCHANGED <<storeVars, mission, child, result, afterVars>>

(* The process of an execute_job dies; its child lives on.  (That of a      *)
(* recoverer leaves what Abort leaves.)                                     *)
Crash(e) ==
  /\ pc[e] \notin {"idle", "done"}
  /\ Goto(e, "done")
  /\ UNCHANGED <<storeVars, mission, child, result, afterVars>>

(* `mission resume` recovers leases that have expired. *)
RecoverExpired ==
  /\ \E E \in SUBSET Expirable : RecoverLeases(E)
  /\ UNCHANGED <<mission, child, result, localVars, afterVars>>

(* The CLI cancels, approvals are resolved, and the mission loop or the     *)
(* graph runner moves the mission.                                          *)
MoveMission ==
  /\ \E to \in AllowedTransitions[mission] \cap OtherMoves : mission' = to
  /\ UNCHANGED <<storeVars, child, result, localVars, afterVars>>

-----------------------------------------------------------------------------

(* The calls that both kinds of caller make. *)
Finish(p) ==
  \/ Validate(p) \/ ToPlanning(p) \/ ToWaiting(p)
  \/ Check(p) \/ Commit(p) \/ FencedRead(p) \/ MarkFenced(p) \/ Mark(p)
  \/ Release(p) \/ RequeueRead(p) \/ Requeue(p)
  \/ Checkpoint(p) \/ Ask(p) \/ Await(p) \/ Evaluate(p)

ExecStep(e) ==
  \/ Acquire(e) \/ CountAttempts(e) \/ Create(e)
  \/ \E v \in Report : RunInProcess(e, v)
  \/ StartChild(e) \/ Collect(e) \/ GiveUp(e)
  \/ Finish(e)

ChildStep(e) == ChildExit(e) \/ \E v \in Report : ChildReport(e, v)

RecoverStep(r) == Inspect(r) \/ Overwrite(r) \/ Admit(r) \/ Finish(r)

Next ==
  \/ \E e \in Execs : \/ \E j \in Jobs : Begin(e, j)
                       \/ ExecStep(e) \/ ChildStep(e) \/ Crash(e)
  \/ \E r \in Recoverers : \/ \E e \in Execs : Adopt(r, e) \/ Interrupt(r, e)
                            \/ RecoverStep(r)
  \/ \E p \in Procs : Abort(p)
  \/ RecoverExpired
  \/ MoveMission

Spec == Init /\ [][Next]_vars

(* The operator runs `mission resume` again and again, so that it also runs *)
(* after a lease has expired.  Nothing else is obliged to happen: a call,   *)
(* its child or a recoverer may hang or die.                                *)
Fairness == WF_vars(RecoverExpired)

FairSpec == Spec /\ Fairness

-----------------------------------------------------------------------------
(* Safety *)

(* The fence: however calls, recoveries and crashes interleave, a job never *)
(* has two unreleased leases, and none while it is queued, so acquiring a   *)
(* job always gives it an owner that can commit.                            *)
OneOwner ==
  \A j \in Jobs : /\ \A e, f \in ActiveLeases(j) : e = f
                  /\ jobStatus[j] = "queued" => ActiveLeases(j) = {}

(* The UPDATE of requeue_failed_job does not repeat the check for FAILED    *)
(* that it made in an earlier transaction; nobody changes the job between.  *)
RequeueFindsFailed ==
  \A p \in Procs : pc[p] = "requeue" => jobStatus[JobOf(p)] = "failed"

(* A job is completed by one attempt at most, which then is its only        *)
(* success: one checkpoint and one approval request, whoever finishes the   *)
(* attempt, its own call or a recoverer.                                    *)
OneSuccess ==
  \A j \in Jobs :
    LET winners == {e \in Execs : job[e] = j /\ outcome[e] = "succeeded"}
    IN /\ Cardinality(winners) <= 1
       /\ checkpoints[j] <= Cardinality(winners)
       /\ approvals[j] <= checkpoints[j]

(* The rows of job_attempts tell the truth.  They are numbered 1, 2, 3, ... *)
(* although the number is read in an earlier transaction than the insert,   *)
(* so that the UNIQUE constraint never refuses one; a row that claims a     *)
(* result has the one its own lease committed; and the automatic retries    *)
(* that follow from them stay within the job's budget.                      *)
AttemptsHonest ==
  /\ \A j \in Jobs :
       /\ {number[e] : e \in AttemptsOf(j)} = 1 .. Cardinality(AttemptsOf(j))
       /\ requeues[j] <= RetryLimit
  /\ \A e \in Execs :
       /\ attempt[e] \in {"succeeded", "failed", "canceled"} => outcome[e] = attempt[e]
       /\ attempt[e] = "retry_available" => outcome[e] = "failed"

(* No step takes a job out of SUCCEEDED or CANCELED, and only a requeue or  *)
(* nothing takes it out of FAILED.                                          *)
FinalStays ==
  [][\A j \in Jobs :
       /\ jobStatus[j] \in {"succeeded", "canceled"} => jobStatus'[j] = jobStatus[j]
       /\ jobStatus[j] = "failed" => jobStatus'[j] \in {"failed", "queued"}]_vars

(* A result is committed only by the job's newest attempt, and never twice  *)
(* by the same one: a stale attempt whose lease was recovered cannot write  *)
(* over the attempt that replaced it.                                       *)
NewestCommits ==
  [][\A e \in Execs : outcome'[e] # outcome[e] =>
       /\ outcome[e] = "none"
       /\ \A f \in AttemptsOf(job[e]) \ {e} : number[f] < number[e]]_vars

-----------------------------------------------------------------------------
(* The inductive invariant behind OneOwner, RequeueFindsFailed and          *)
(* FinalStays.                                                              *)

(* Nothing exists of a call that has not started, no lease before Acquire.  *)
NotStarted ==
  \A e \in Execs :
    /\ job[e] = NoJob <=> pc[e] = "idle"
    /\ pc[e] = "idle" => attempt[e] = "none" /\ child[e] = "none" /\ result[e] = "none"
    /\ pc[e] \in {"idle", "validate", "planning", "waiting", "acquire"} =>
         lease[e] = "none"

(* A recoverer at work has an attempt at hand that has started. *)
TargetsStarted ==
  \A r \in Recoverers :
    pc[r] # "idle" => target[r] \in Execs /\ job[target[r]] # NoJob

(* The caller that has failed the job of its attempt, until it requeues it. *)
AfterFailure(p) ==
  \/ pc[p] \in {"requeueRead", "requeue"}
  \/ pc[p] \in {"mark", "release"} /\ verdict[p] \in Failure

(* Until then the job stays FAILED, because only this caller may change it, *)
(* and no lease but the failed one is left.                                 *)
FailureIsKept ==
  \A p \in Procs :
    AfterFailure(p) =>
      /\ jobStatus[JobOf(p)] = "failed"
      /\ ActiveLeases(JobOf(p)) \subseteq {target[p]}
      /\ pc[p] \in {"requeueRead", "requeue"} => lease[target[p]] # "active"
      /\ \A q \in Procs : AfterFailure(q) /\ JobOf(q) = JobOf(p) => q = p

(* Where a caller stands tells what it holds: the paths of a success, of a  *)
(* refused commit and of a requeue do not mix.                              *)
PathOf(p) ==
  /\ p \in Recoverers /\ pc[p] \in {"validate", "planning", "waiting"} =>
       verdict[p] \in Success
  /\ pc[p] \in {"checkpoint", "ask", "await", "evaluate"} => verdict[p] \in Success
  /\ pc[p] \in {"fencedRead", "fenced"} => verdict[p] = "raised"
  /\ pc[p] \in {"requeueRead", "requeue"} => verdict[p] = "retry"

PathsApart == \A p \in Procs : PathOf(p)

IInv == /\ TypeOK /\ NotStarted /\ TargetsStarted /\ PathsApart
        /\ OneOwner /\ FailureIsKept

-----------------------------------------------------------------------------
(* The inductive invariant behind OneSuccess, AttemptsHonest and            *)
(* NewestCommits, on top of IInv.                                           *)

(* A caller that has committed a result and not written it into the row of  *)
(* the attempt; that has not written the checkpoint of a success yet; that  *)
(* works on an attempt that is there.                                       *)
Committed(p) ==
  \/ pc[p] = "mark"
  \/ p \in Recoverers /\ pc[p] \in {"validate", "planning", "waiting"}
BeforeCheckpoint(p) ==
  /\ verdict[p] \in Success
  /\ Committed(p) \/ pc[p] = "checkpoint" \/ (p \in Recoverers /\ pc[p] = "release")
AfterSuccess(p) == BeforeCheckpoint(p) \/ pc[p] = "ask"
AtWork(p) == Committed(p) \/ pc[p] \in InTry \cup {"overwrite", "admit", "release"}

(* What a caller knows by where it stands. *)
CallerRight(p) ==
  /\ pc[p] \in {"inspect", "overwrite", "check", "admit", "commit", "mark"} =>
       verdict[p] \in Report
  /\ AtWork(p) => attempt[target[p]] # "none"
  /\ Committed(p) => outcome[target[p]] = StatusOf(verdict[p])
  /\ AfterSuccess(p) => /\ outcome[target[p]] = "succeeded"
                        /\ \A q \in Procs : AfterSuccess(q) /\ JobOf(q) = JobOf(p) => q = p
  /\ BeforeCheckpoint(p) => checkpoints[JobOf(p)] = 0
  /\ pc[p] = "ask" => checkpoints[JobOf(p)] = 1 /\ approvals[JobOf(p)] = 0

CallersRight == \A p \in Procs : CallerRight(p)

(* A result is committed once, and the job knows it. *)
ResultsRight ==
  \A e \in Execs :
    /\ outcome[e] # "none" =>
         /\ attempt[e] # "none" /\ lease[e] # "none"
         /\ lease[e] = "active" => jobStatus[job[e]] # "leased"
    /\ outcome[e] = "succeeded" =>
         /\ jobStatus[job[e]] = "succeeded"
         /\ \A f \in Execs : outcome[f] = "succeeded" /\ job[f] = job[e] => f = e
    /\ attempt[e] \in {"succeeded", "failed", "canceled"} => outcome[e] = attempt[e]
    /\ attempt[e] = "retry_available" => outcome[e] = "failed"

(* A checkpoint is a success's, and an approval request a checkpoint's. *)
CheckpointsRight ==
  \A j \in Jobs :
    /\ checkpoints[j] \in {0, 1} /\ approvals[j] <= checkpoints[j]
    /\ checkpoints[j] = 1 => \E e \in Execs : job[e] = j /\ outcome[e] = "succeeded"

(* The attempts of a job are numbered as they were made, because who counts *)
(* has the lease, and the attempt of an unreleased lease is the newest.     *)
Count(j) == Cardinality(AttemptsOf(j))
NumbersRight ==
  /\ \A j \in Jobs : {number[e] : e \in AttemptsOf(j)} = 1 .. Count(j)
  /\ \A e, f \in Execs :
       /\ attempt[e] # "none" /\ attempt[f] # "none"
       /\ job[e] = job[f] /\ number[e] = number[f]
       => e = f
  /\ \A e \in Execs :
       /\ pc[e] \in {"validate", "planning", "waiting", "acquire", "count", "create"} =>
            attempt[e] = "none"
       /\ lease[e] = "active" /\ attempt[e] # "none" => number[e] = Count(job[e])
       /\ lease[e] = "active" /\ pc[e] = "create" => number[e] = Count(job[e]) + 1

(* Each requeue of a job is paid for by a failed attempt, the newest one. *)
Failures(j) == {e \in Execs : job[e] = j /\ outcome[e] = "failed"}
RetriesRight ==
  /\ \A j \in Jobs : requeues[j] <= Cardinality(Failures(j)) /\ requeues[j] <= RetryLimit
  /\ \A p \in Procs :
       AfterFailure(p) =>
         /\ requeues[JobOf(p)] < Cardinality(Failures(JobOf(p)))
         /\ number[target[p]] = Count(JobOf(p))
         /\ pc[p] \in {"requeueRead", "requeue"} => number[target[p]] <= RetryLimit

AInv == /\ CallersRight /\ ResultsRight /\ CheckpointsRight
        /\ NumbersRight /\ RetriesRight

-----------------------------------------------------------------------------
(* Refinement *)

(* The calls, the recoveries and the crashes implement the ledger of jobs.  *)
Ledger == INSTANCE JobLedger WITH
            Owners <- Execs,
            status <- jobStatus,
            owners <- [j \in Jobs |-> ActiveLeases(j)]

ImplementsLedger == Ledger!Spec

-----------------------------------------------------------------------------
(* Liveness *)

(* A leased job is completed or goes back to the queue, also when the       *)
(* process that leased it has died.                                         *)
LeaseEnds ==
  \A j \in Jobs : jobStatus[j] = "leased" ~> jobStatus[j] # "leased"

-----------------------------------------------------------------------------
(* What the documents say and the code does not do *)

(* "a retryable Job is requeued within the budget" (bounded mission loop,   *)
(* acceptance 2): an attempt with the decision retry_available is requeued  *)
(* by a call that is still at work, or was.                                 *)
RetryNotLost ==
  \A e \in Execs :
    attempt[e] = "retry_available" /\ jobStatus[job[e]] = "failed"
      => \E p \in Procs : /\ target[p] = e
                          /\ pc[p] \in {"release", "requeueRead", "requeue"}

(* "an expired lease can be recovered to queued" (bounded mission loop,     *)
(* 6.1): a leased job has a lease that recovery can find.                   *)
LeasedIsRecoverable ==
  \A j \in Jobs : jobStatus[j] = "leased" => ActiveLeases(j) # {}
=============================================================================
