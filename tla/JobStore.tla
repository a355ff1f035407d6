------------------------------ MODULE JobStore ------------------------------
(***************************************************************************)
(* The part of the SQLite mission store that jobs, worker leases and job   *)
(* attempts live in.  Every operator below is one transaction of the       *)
(* store.  One call of AgentRuntime.execute_job creates at most one lease  *)
(* and at most one attempt, so an element of Execs names the call, its     *)
(* lease and its attempt.                                                  *)
(***************************************************************************)
EXTENDS Naturals, FiniteSets

CONSTANTS
  Jobs,    \* the jobs of the mission
  Execs,   \* the calls of execute_job: each names its lease and its attempt
  NoJob    \* "no job yet" of a call that has not started

ASSUME JobStoreAssumption == IsFiniteSet(Execs) /\ NoJob \notin Jobs

VARIABLES
  jobStatus,   \* jobs.status
  job,         \* worker_leases.job_id and job_attempts.job_id
  lease,       \* worker_leases: no row, released_at IS NULL, released_at set
  number,      \* job_attempts.attempt_number
  attempt,     \* job_attempts.status (with the retry decision where it tells)
  outcome,     \* the terminal job event that carries this lease_id
  requeues     \* the JOB_REQUEUED events of a job

storeVars == <<jobStatus, job, lease, number, attempt, outcome, requeues>>

Final == {"succeeded", "failed", "canceled"}
JobStatus == {"queued", "leased"} \cup Final
LeaseStatus == {"none", "active", "released"}

(* "retry_available" and "failed" are FAILED attempts with and without a    *)
(* retry decision, "fenced" is CANCELED with the decision stale_fenced.     *)
AttemptStatus == {"none", "running", "succeeded", "failed", "retry_available",
                  "canceled", "fenced"}

StoreInit ==
  /\ jobStatus = [j \in Jobs |-> "queued"]
  /\ job = [e \in Execs |-> NoJob]
  /\ lease = [e \in Execs |-> "none"]
  /\ number = [e \in Execs |-> 0]
  /\ attempt = [e \in Execs |-> "none"]
  /\ outcome = [e \in Execs |-> "none"]
  /\ requeues = [j \in Jobs |-> 0]

StoreTypeOK ==
  /\ jobStatus \in [Jobs -> JobStatus]
  /\ job \in [Execs -> Jobs \cup {NoJob}]
  /\ lease \in [Execs -> LeaseStatus]
  /\ number \in [Execs -> Nat]
  /\ attempt \in [Execs -> AttemptStatus]
  /\ outcome \in [Execs -> {"none"} \cup Final]
  /\ requeues \in [Jobs -> Nat]

-----------------------------------------------------------------------------
(* Reads *)

ActiveLeases(j) == {e \in Execs : job[e] = j /\ lease[e] = "active"}
AttemptsOf(j) == {e \in Execs : job[e] = j /\ attempt[e] # "none"}

(* Mutations of Fenced: the job's status is not checked; the lease is not.  *)
FencedByLease(e) == ActiveLeases(job[e]) = {e}
FencedByStatus(e) == jobStatus[job[e]] = "leased"

(* The WHERE clause of complete_job, fail_job and cancel_job called with a  *)
(* lease: the job is LEASED, this lease is unreleased, and no other is.     *)
Fenced(e) == jobStatus[job[e]] = "leased" /\ ActiveLeases(job[e]) = {e}

-----------------------------------------------------------------------------
(* Transactions *)

(* Mutation of AcquireLease: the UPDATE has no condition on the status. *)
AcquireAnyway(e) ==
  /\ jobStatus' = [jobStatus EXCEPT ![job[e]] = "leased"]
  /\ lease' = [lease EXCEPT ![e] = "active"]
  /\ UNCHANGED <<job, number, attempt, outcome, requeues>>

(* The conditional UPDATE of acquire_job_lease and the INSERT of the lease. *)
AcquireLease(e) ==
  /\ jobStatus[job[e]] = "queued"
  /\ jobStatus' = [jobStatus EXCEPT ![job[e]] = "leased"]
  /\ lease' = [lease EXCEPT ![e] = "active"]
  /\ UNCHANGED <<job, number, attempt, outcome, requeues>>

(* release_job_lease: a second release changes nothing. *)
ReleaseLease(e) ==
  /\ lease' = [lease EXCEPT ![e] = IF @ = "active" THEN "released" ELSE @]
  /\ UNCHANGED <<jobStatus, job, number, attempt, outcome, requeues>>

(* Mutation of Expirable: the SELECT does not join jobs.status. *)
ExpirableAnyStatus == {e \in Execs : lease[e] = "active"}

(* The rows recover_expired_leases may select: any unreleased lease of a    *)
(* LEASED job may have expired, whether or not its worker is still running; *)
(* leases are never renewed.                                                *)
Expirable == {e \in Execs : lease[e] = "active" /\ jobStatus[job[e]] = "leased"}

(* Mutations of RecoverLeases: the job's UPDATE is missing; the lease's is. *)
RecoverLeaseOnly(E) ==
  /\ E # {} /\ E \subseteq Expirable
  /\ lease' = [e \in Execs |-> IF e \in E THEN "released" ELSE lease[e]]
  /\ UNCHANGED <<jobStatus, job, number, attempt, outcome, requeues>>

RecoverJobOnly(E) ==
  /\ E # {} /\ E \subseteq Expirable
  /\ jobStatus' = [j \in Jobs |-> IF \E e \in E : job[e] = j THEN "queued"
                                                             ELSE jobStatus[j]]
  /\ UNCHANGED <<job, lease, number, attempt, outcome, requeues>>

(* The transaction over the selected rows E: the UPDATE of a row whose job  *)
(* an earlier row already requeued matches nothing, so the rows that take   *)
(* effect have distinct jobs.                                               *)
RecoverLeases(E) ==
  /\ E # {} /\ E \subseteq Expirable
  /\ \A e, f \in E : job[e] = job[f] => e = f
  /\ jobStatus' = [j \in Jobs |-> IF \E e \in E : job[e] = j THEN "queued"
                                                             ELSE jobStatus[j]]
  /\ lease' = [e \in Execs |-> IF e \in E THEN "released" ELSE lease[e]]
  /\ UNCHANGED <<job, number, attempt, outcome, requeues>>

(* complete_job, fail_job, cancel_job: the fenced UPDATE and its event.     *)
CommitJob(e, status) ==
  /\ Fenced(e)
  /\ jobStatus' = [jobStatus EXCEPT ![job[e]] = status]
  /\ outcome' = [outcome EXCEPT ![e] = status]
  /\ UNCHANGED <<job, lease, number, attempt, requeues>>

(* The UPDATE of requeue_failed_job has no condition on the status: the     *)
(* check for FAILED is a read in an earlier transaction.                    *)
RequeueJob(j) ==
  /\ jobStatus' = [jobStatus EXCEPT ![j] = "queued"]
  /\ requeues' = [requeues EXCEPT ![j] = @ + 1]
  /\ UNCHANGED <<job, lease, number, attempt, outcome>>

(* create_job_attempt inserts only while the lease is unreleased, and the   *)
(* table has UNIQUE(job_id, attempt_number).                                *)
CanCreateAttempt(e) ==
  /\ lease[e] = "active"
  /\ \A f \in AttemptsOf(job[e]) : number[f] # number[e]

CreateAttempt(e) ==
  /\ CanCreateAttempt(e)
  /\ attempt' = [attempt EXCEPT ![e] = "running"]
  /\ UNCHANGED <<jobStatus, job, lease, number, outcome, requeues>>

(* complete_job_attempt: an UPDATE without a condition on the old status.   *)
CompleteAttempt(e, status) ==
  /\ attempt' = [attempt EXCEPT ![e] = status]
  /\ UNCHANGED <<jobStatus, job, lease, number, outcome, requeues>>
=============================================================================
