---------------------------- MODULE MissionLoop ----------------------------
(***************************************************************************)
(* MissionLoopController.advance: the bounded loop that takes a mission    *)
(* from its queued jobs to an outcome.  Each call makes one decision; the  *)
(* CLI calls it again and again, possibly from several processes at once.  *)
(*                                                                         *)
(* The jobs are those of JobLedger, which JobExecution implements: here    *)
(* execute_job keeps its order of effects and leaves out what the ledger   *)
(* hides (workspaces, attempts' rows, checkpoints).  Operators resolve the *)
(* approvals the jobs ask for (ApprovalService), cancel the mission and    *)
(* recover expired leases.                                                 *)
(***************************************************************************)
EXTENDS MissionStates, Integers, FiniteSets, Sequences

CONSTANTS
  NumJobs,        \* the jobs are numbered in the order of their creation
  Controllers,    \* the processes that call advance
  Reviewers,      \* the processes that resolve approvals
  Refused,        \* the jobs that need a real AEDT the profile does not allow
  RetryLimit,     \* jobs.retry_limit
  MaxAttempts,    \* profile.max_job_attempts
  MaxIterations,  \* profile.max_iterations
  OtherLimits,    \* may the wall clock or another budget be used up?
  Asking,         \* may a job ask for an approval?
  Cancels,        \* may the mission be canceled?
  EarlyExpiry,    \* may a lease expire while its caller is at work?
  Patient,        \* do reviewers wait until the mission waits for them?
  Mortal,         \* the processes that may die
  MaxCrashes      \* bound: how many may die

Jobs == 1 .. NumJobs

ASSUME LoopAssumption ==
  /\ NumJobs \in Nat \ {0} /\ MaxAttempts \in Nat \ {0} /\ MaxIterations \in Nat \ {0}
  /\ RetryLimit \in Nat /\ MaxCrashes \in Nat
  /\ IsFiniteSet(Controllers) /\ Controllers \cap Reviewers = {}
  /\ EarlyExpiry \in BOOLEAN /\ Patient \in BOOLEAN
  /\ Mortal \subseteq Controllers \cup Reviewers
  /\ Refused \subseteq Jobs /\ OtherLimits \subseteq BOOLEAN /\ OtherLimits # {}
  /\ Asking \in BOOLEAN /\ Cancels \in BOOLEAN

VARIABLES
  status, owners,  \* the job ledger
  attempts,   \* the rows of job_attempts: a job and an attempt_number
  approval,   \* the decision of the approval a job asked for
  mission,    \* missions.state
  final,      \* the code of missions.final_outcome_json
  loop,       \* the row of mission_loops
  backoff,    \* is the time retry_not_before still to come?
  pc,         \* the next step of a controller or a reviewer
  copy,       \* the MissionLoopRecord in a controller's hands
  seen,       \* the mission state it read first
  picked,     \* queued[0] of the jobs it listed
  job,        \* the job it executes; a reviewer's approval
  number,     \* attempt_number
  verdict,    \* the result of execute_job; a reviewer's decision
  goal,       \* what follows the writes of the mission's state in route
  route,
  crashes

ledgerVars == <<status, owners>>
storeVars == <<ledgerVars, attempts, approval, mission, final, loop, backoff>>
localVars == <<pc, copy, seen, picked, job, number, verdict, goal, route>>
vars == <<storeVars, localVars, crashes>>

Ledger == INSTANCE JobLedger WITH Owners <- Controllers

Procs == Controllers \cup Reviewers
NoJob == 0

LoopStatus == {"none", "active", "waiting_approval", "completed", "failed"}
Loop == [status : LoopStatus, iterations : Nat, attempts : Nat, retryNotBefore : BOOLEAN]
NoLoop == [status |-> "none", iterations |-> 0, attempts |-> 0, retryNotBefore |-> FALSE]
NewLoop == [NoLoop EXCEPT !.status = "active"]

Failures == {"job_failed", "budget_exhausted", "real_aedt_disabled"}
Codes == {"completed"} \cup Failures

Init ==
  /\ Ledger!Init
  /\ attempts = {}
  /\ approval = [j \in Jobs |-> "none"]
  /\ mission = "CREATED" /\ final = "none"
  /\ loop = NoLoop /\ backoff = FALSE
  /\ pc = [p \in Procs |-> "idle"]
  /\ copy = [c \in Controllers |-> NoLoop]
  /\ seen = [c \in Controllers |-> "CREATED"]
  /\ picked = [c \in Controllers |-> NoJob]
  /\ job = [p \in Procs |-> NoJob]
  /\ number = [c \in Controllers |-> 0]
  /\ verdict = [p \in Procs |-> "none"]
  /\ goal = [c \in Controllers |-> "none"]
  /\ route = [c \in Controllers |-> <<>>]
  /\ crashes = 0

PC == {"idle", "load", "insert", "sync", "assess", "list", "fetch", "plan", "move",
       "acquire", "attempt", "run", "commit", "ask", "release", "requeue",
       "resync", "after", "remaining", "record", "conclude", "outcome",
       "resolve", "notify"}

Success == {"succeeded", "approval"}

TypeOK ==
  /\ status \in [Jobs -> {"queued", "leased"} \cup Ledger!Settled]
  /\ owners \in [Jobs -> SUBSET Controllers]
  /\ attempts \in SUBSET (Jobs \X Nat) /\ IsFiniteSet(attempts)
  /\ approval \in [Jobs -> {"none", "pending", "approved", "rejected"}]
  /\ mission \in MissionState /\ final \in {"none"} \cup Codes
  /\ loop \in Loop /\ backoff \in BOOLEAN
  /\ pc \in [Procs -> PC]
  /\ copy \in [Controllers -> Loop] /\ seen \in [Controllers -> MissionState]
  /\ picked \in [Controllers -> Jobs \cup {NoJob}]
  /\ job \in [Procs -> Jobs \cup {NoJob}]
  /\ number \in [Controllers -> Nat]
  /\ verdict \in [Procs -> {"none", "retry", "error", "canceled", "approved",
                            "rejected"} \cup Success]
  /\ goal \in [Controllers -> {"none", "status", "acquire", "release", "record"} \cup Codes]
  /\ route \in [Controllers -> Seq(MissionState)]
  /\ crashes \in Nat

-----------------------------------------------------------------------------
(* Control *)

Goto(p, label) ==
  /\ pc' = [pc EXCEPT ![p] = label]
  /\ UNCHANGED <<copy, seen, picked, job, number, verdict, goal, route>>

(* A call that returns, raises or dies forgets what it held. *)
Forget(c) ==
  /\ pc' = [pc EXCEPT ![c] = "idle"]
  /\ copy' = [copy EXCEPT ![c] = NoLoop]
  /\ seen' = [seen EXCEPT ![c] = "CREATED"]
  /\ picked' = [picked EXCEPT ![c] = NoJob]
  /\ job' = [job EXCEPT ![c] = NoJob]
  /\ number' = [number EXCEPT ![c] = 0]
  /\ verdict' = [verdict EXCEPT ![c] = "none"]
  /\ goal' = [goal EXCEPT ![c] = "none"]
  /\ route' = [route EXCEPT ![c] = <<>>]

(* The finally of execute_job: a call that raises while it runs a job       *)
(* releases the lease, then ends.                                           *)
Raise(c) ==
  IF pc[c] \in {"run", "commit", "ask", "requeue"} \/ goal[c] = "release"
  THEN /\ pc' = [pc EXCEPT ![c] = "release"]
       /\ verdict' = [verdict EXCEPT ![c] = "none"]
       /\ UNCHANGED <<copy, seen, picked, job, number, goal, route>>
  ELSE Forget(c)

Decided(rec, to, increment, retryNotBefore) ==
  [status |-> to, iterations |-> rec.iterations + increment,
   attempts |-> rec.attempts, retryNotBefore |-> retryNotBefore]

(* evaluate_mission_budget; the budgets of wall time, evidence, improvement *)
(* and duplicates are used up when `other` is TRUE.                         *)
Exhausted(rec, other) ==
  rec.iterations >= MaxIterations \/ rec.attempts >= MaxAttempts \/ other

(* The caller goes on to conclude the mission with a code. *)
Conclude(c, code, increment) ==
  /\ goal' = [goal EXCEPT ![c] = code]
  /\ copy' = [copy EXCEPT ![c] =
       Decided(@, IF code = "completed" THEN "completed" ELSE "failed", increment, FALSE)]
  /\ pc' = [pc EXCEPT ![c] = "plan"]
  /\ UNCHANGED <<seen, picked, job, number, verdict, route>>

(* The caller goes on to record a decision that leaves the mission open. *)
Decide(c, to, increment, retryNotBefore) ==
  /\ copy' = [copy EXCEPT ![c] = Decided(@, to, increment, retryNotBefore)]
  /\ pc' = [pc EXCEPT ![c] = "record"]
  /\ UNCHANGED <<seen, picked, job, number, verdict, goal, route>>

Queued == {j \in Jobs : status[j] = "queued"}
NextQueued(j) == j \in Queued /\ \A k \in Queued : j <= k

-----------------------------------------------------------------------------
(* advance, up to the choice of a job *)

(* get_mission; `mission loop-status` only loads and refreshes the loop. *)
Begin(c, command) ==
  /\ pc[c] = "idle"
  /\ goal' = [goal EXCEPT ![c] = command]
  /\ seen' = [seen EXCEPT ![c] = mission]
  /\ pc' = [pc EXCEPT ![c] = "load"]
  /\ UNCHANGED <<storeVars, copy, picked, job, number, verdict, route, crashes>>

(* get_or_create_loop *)
Load(c) ==
  /\ pc[c] = "load"
  /\ copy' = [copy EXCEPT ![c] = loop]
  /\ pc' = [pc EXCEPT ![c] = IF loop.status = "none" THEN "insert" ELSE "sync"]
  /\ UNCHANGED <<storeVars, seen, picked, job, number, verdict, goal, route, crashes>>

(* mission_loops.mission_id is UNIQUE: the second insert raises. *)
Insert(c) ==
  /\ pc[c] = "insert"
  /\ IF loop.status = "none"
     THEN /\ loop' = NewLoop
          /\ copy' = [copy EXCEPT ![c] = NewLoop]
          /\ pc' = [pc EXCEPT ![c] = "sync"]
          /\ UNCHANGED <<seen, picked, job, number, verdict, goal, route>>
     ELSE UNCHANGED loop /\ Raise(c)
  /\ UNCHANGED <<ledgerVars, attempts, approval, mission, final, backoff, crashes>>

(* _sync_usage: counts the attempts and, if the number is new, writes the   *)
(* whole record, whatever another caller has written since it was read.     *)
Sync(c, from, label) ==
  /\ pc[c] = from
  /\ LET synced == [copy[c] EXCEPT !.attempts = Cardinality(attempts)]
     IN /\ copy' = [copy EXCEPT ![c] = synced]
        /\ loop' = IF synced # copy[c] THEN synced ELSE loop
  /\ pc' = [pc EXCEPT ![c] = label]
  /\ UNCHANGED <<ledgerVars, attempts, approval, mission, final, backoff,
                 seen, picked, job, number, verdict, goal, route, crashes>>

(* Mutation of Assess: the budget is not looked at before a job is run. *)
AssessWithoutBudget(c) ==
  /\ pc[c] = "assess"
  /\ \/ /\ goal[c] = "status" \/ seen[c] \in TerminalMission
        /\ Forget(c)
     \/ /\ goal[c] # "status" /\ seen[c] = "WAITING_APPROVAL"
        /\ Decide(c, "waiting_approval", 0, FALSE)
     \/ /\ goal[c] # "status" /\ seen[c] \notin TerminalMission \cup {"WAITING_APPROVAL"}
        /\ IF copy[c].retryNotBefore /\ backoff
           THEN Decide(c, copy[c].status, 0, FALSE)
           ELSE Goto(c, "list")
  /\ UNCHANGED <<storeVars, crashes>>

(* The decisions that need no job.  with_decision clears retry_not_before   *)
(* unless it is given one.                                                  *)
Assess(c) ==
  /\ pc[c] = "assess"
  /\ \/ /\ goal[c] = "status" \/ seen[c] \in TerminalMission
        /\ Forget(c)
     \/ /\ goal[c] # "status" /\ seen[c] = "WAITING_APPROVAL"
        /\ Decide(c, "waiting_approval", 0, FALSE)
     \/ /\ goal[c] # "status" /\ seen[c] \notin TerminalMission \cup {"WAITING_APPROVAL"}
        /\ IF copy[c].retryNotBefore /\ backoff
           THEN Decide(c, copy[c].status, 0, FALSE)
           ELSE \E other \in OtherLimits :
                  IF Exhausted(copy[c], other) THEN Conclude(c, "budget_exhausted", 0)
                                               ELSE Goto(c, "list")
  /\ UNCHANGED <<storeVars, crashes>>

(* list_jobs: complete, fail, idle, or pick the first queued job. *)
List(c) ==
  /\ pc[c] = "list"
  /\ \/ /\ Queued = {} /\ \A j \in Jobs : status[j] = "succeeded"
        /\ Conclude(c, "completed", 0)
     \/ /\ Queued = {} /\ \E j \in Jobs : status[j] = "failed"
        /\ Conclude(c, "job_failed", 0)
     \/ /\ Queued = {} /\ \E j \in Jobs : status[j] # "succeeded"
        /\ \A j \in Jobs : status[j] # "failed"
        /\ Decide(c, "active", 0, FALSE)
     \/ /\ \E j \in Refused : NextQueued(j)
        /\ Conclude(c, "real_aedt_disabled", 0)
     \/ /\ \E j \in Jobs \ Refused :
             NextQueued(j) /\ picked' = [picked EXCEPT ![c] = j]
        /\ pc' = [pc EXCEPT ![c] = "fetch"]
        /\ UNCHANGED <<copy, seen, job, number, verdict, goal, route>>
  /\ UNCHANGED <<storeVars, crashes>>

(* execute_next_job asks the store again for the first queued job. *)
Fetch(c) ==
  /\ pc[c] = "fetch"
  /\ \/ Queued = {} /\ Raise(c)
     \/ /\ \E j \in Jobs : NextQueued(j) /\ job' = [job EXCEPT ![c] = j]
        /\ goal' = [goal EXCEPT ![c] = "acquire"]
        /\ pc' = [pc EXCEPT ![c] = "plan"]
        /\ UNCHANGED <<copy, seen, picked, number, verdict, route>>
  /\ UNCHANGED <<storeVars, crashes>>

-----------------------------------------------------------------------------
(* Writes of the mission's state *)

(* The states that _ensure_mission_ready_for_worker, _move_to_waiting_worker, *)
(* _complete and _terminate write, by the state they read first.            *)
ToWorker(from) ==
  CASE from = "CREATED" -> <<"PLANNING", "WAITING_WORKER">>
    [] from \in {"PLANNING", "EVALUATING"} -> <<"WAITING_WORKER">>
    [] OTHER -> <<>>

ToCompleted(from) ==
  CASE from = "CREATED" -> <<"PLANNING", "WAITING_WORKER", "EVALUATING", "COMPLETED">>
    [] from = "WAITING_WORKER" -> <<"EVALUATING", "COMPLETED">>
    [] OTHER -> <<"COMPLETED">>

ToFailed(from) == IF from = "CREATED" THEN <<"PLANNING", "FAILED">> ELSE <<"FAILED">>

Route(to, from) ==
  CASE to \in {"acquire", "record"} -> ToWorker(from)
    [] to = "completed" -> ToCompleted(from)
    [] OTHER -> ToFailed(from)

(* execute_job raises when the job is no longer queued or the mission does  *)
(* not accept work.                                                         *)
NotReady(c) ==
  /\ goal[c] = "acquire"
  /\ status[job[c]] # "queued" \/ mission \in TerminalMission \cup {"WAITING_APPROVAL"}

Plan(c) ==
  /\ pc[c] = "plan"
  /\ IF NotReady(c)
     THEN Raise(c)
     ELSE /\ route' = [route EXCEPT ![c] = Route(goal[c], mission)]
          /\ pc' = [pc EXCEPT ![c] = "move"]
          /\ UNCHANGED <<copy, seen, picked, job, number, verdict, goal>>
  /\ UNCHANGED <<storeVars, crashes>>

(* Mutation of Move: a refused write does not stop the caller. *)
MoveOrIgnore(c) ==
  /\ pc[c] = "move"
  /\ IF route[c] = <<>>
     THEN UNCHANGED mission /\ Goto(c, IF goal[c] \in Codes THEN "conclude" ELSE goal[c])
     ELSE /\ mission' = IF CanWrite(mission, Head(route[c])) THEN Head(route[c]) ELSE mission
          /\ route' = [route EXCEPT ![c] = Tail(@)]
          /\ UNCHANGED <<pc, copy, seen, picked, job, number, verdict, goal>>
  /\ UNCHANGED <<ledgerVars, attempts, approval, final, loop, backoff, crashes>>

(* update_mission_state, once for each state of the route. *)
Move(c) ==
  /\ pc[c] = "move"
  /\ IF route[c] = <<>>
     THEN UNCHANGED mission /\ Goto(c, IF goal[c] \in Codes THEN "conclude" ELSE goal[c])
     ELSE IF CanWrite(mission, Head(route[c]))
          THEN /\ mission' = Head(route[c])
               /\ route' = [route EXCEPT ![c] = Tail(@)]
               /\ UNCHANGED <<pc, copy, seen, picked, job, number, verdict, goal>>
          ELSE UNCHANGED mission /\ Raise(c)
  /\ UNCHANGED <<ledgerVars, attempts, approval, final, loop, backoff, crashes>>

-----------------------------------------------------------------------------
(* execute_job *)

Acquire(c) ==
  /\ pc[c] = "acquire"
  /\ IF status[job[c]] = "queued"
     THEN Ledger!Take(job[c], c) /\ Goto(c, "attempt")
     ELSE UNCHANGED ledgerVars /\ Raise(c)
  /\ UNCHANGED <<attempts, approval, mission, final, loop, backoff, crashes>>

(* The count and the insert, which is refused once the lease is released.   *)
Attempt(c) ==
  /\ pc[c] = "attempt"
  /\ LET next == Cardinality({a \in attempts : a[1] = job[c]}) + 1
     IN IF owners[job[c]] = {c}
        THEN /\ attempts' = attempts \cup {<<job[c], next>>}
             /\ number' = [number EXCEPT ![c] = next]
             /\ pc' = [pc EXCEPT ![c] = "run"]
             /\ UNCHANGED <<copy, seen, picked, job, verdict, goal, route>>
        ELSE UNCHANGED attempts /\ Raise(c)
  /\ UNCHANGED <<ledgerVars, approval, mission, final, loop, backoff, crashes>>

(* The worker, and the look at the mission that turns a success into a      *)
(* cancellation.                                                            *)
Run(c) ==
  /\ pc[c] = "run"
  /\ \E v \in {"succeeded", "retry", "error"} \cup (IF Asking THEN {"approval"} ELSE {}) :
       verdict' = [verdict EXCEPT ![c] =
         IF v \in Success /\ mission = "CANCELED" THEN "canceled" ELSE v]
  /\ pc' = [pc EXCEPT ![c] = "commit"]
  /\ UNCHANGED <<storeVars, copy, seen, picked, job, number, goal, route, crashes>>

Result(v) == CASE v \in Success -> "succeeded"
               [] v = "canceled" -> "canceled"
               [] OTHER -> "failed"

(* complete_job, fail_job, cancel_job; a fenced call raises. *)
Commit(c) ==
  /\ pc[c] = "commit"
  /\ IF status[job[c]] = "leased" /\ owners[job[c]] = {c}
     THEN /\ Ledger!Settle(job[c], c, Result(verdict[c]))
          /\ \/ verdict[c] = "approval" /\ Goto(c, "ask")
             \/ /\ verdict[c] = "succeeded"
                /\ goal' = [goal EXCEPT ![c] = "release"]
                /\ route' = [route EXCEPT ![c] = <<"EVALUATING">>]
                /\ pc' = [pc EXCEPT ![c] = "move"]
                /\ UNCHANGED <<copy, seen, picked, job, number, verdict>>
             \/ verdict[c] \notin Success /\ Goto(c, "release")
     ELSE UNCHANGED ledgerVars /\ Raise(c)
  /\ UNCHANGED <<attempts, approval, mission, final, loop, backoff, crashes>>

(* request_approval: the approval in one transaction, the state in the next. *)
Ask(c) ==
  /\ pc[c] = "ask"
  /\ approval' = [approval EXCEPT ![job[c]] = "pending"]
  /\ goal' = [goal EXCEPT ![c] = "release"]
  /\ route' = [route EXCEPT ![c] = <<"WAITING_APPROVAL">>]
  /\ pc' = [pc EXCEPT ![c] = "move"]
  /\ UNCHANGED <<ledgerVars, attempts, mission, final, loop, backoff,
                 copy, seen, picked, job, number, verdict, crashes>>

(* A call that raised ends after the release. *)
Release(c) ==
  /\ pc[c] = "release"
  /\ IF owners[job[c]] = {c} THEN Ledger!Leave(job[c], c) ELSE UNCHANGED ledgerVars
  /\ IF verdict[c] = "none"
     THEN Forget(c)
     ELSE Goto(c, IF verdict[c] = "retry" /\ number[c] <= RetryLimit
                  THEN "requeue" ELSE "resync")
  /\ UNCHANGED <<attempts, approval, mission, final, loop, backoff, crashes>>

Requeue(c) ==
  /\ pc[c] = "requeue"
  /\ Ledger!Retry(job[c])
  /\ Goto(c, "resync")
  /\ UNCHANGED <<attempts, approval, mission, final, loop, backoff, crashes>>

-----------------------------------------------------------------------------
(* advance, after execute_job *)

(* A failure looks at the job that was listed first, to see if it is queued *)
(* for a retry; anything else looks at the mission.                         *)
After(c) ==
  /\ pc[c] = "after"
  /\ \/ /\ verdict[c] \in {"retry", "error"} /\ status[picked[c]] = "queued"
        /\ \E other \in OtherLimits :
             IF Exhausted(copy[c], other)
             THEN Conclude(c, "budget_exhausted", 1)
             ELSE Decide(c, "active", 1, TRUE)
     \/ /\ verdict[c] \in {"retry", "error"} /\ status[picked[c]] # "queued"
        /\ Conclude(c, "job_failed", 1)
     \/ /\ verdict[c] \notin {"retry", "error"} /\ mission = "WAITING_APPROVAL"
        /\ Decide(c, "waiting_approval", 1, FALSE)
     \/ /\ verdict[c] \notin {"retry", "error"} /\ mission # "WAITING_APPROVAL"
        /\ Goto(c, "remaining")
  /\ UNCHANGED <<storeVars, crashes>>

(* Mutation of Remaining: the jobs are not listed again. *)
CompleteAtOnce(c) ==
  /\ pc[c] = "remaining"
  /\ Conclude(c, "completed", 1)
  /\ UNCHANGED <<storeVars, crashes>>

(* Only a queued job is work that remains. *)
Remaining(c) ==
  /\ pc[c] = "remaining"
  /\ IF Queued = {}
     THEN Conclude(c, "completed", 1)
     ELSE \E other \in OtherLimits :
            IF Exhausted(copy[c], other)
            THEN Conclude(c, "budget_exhausted", 1)
            ELSE /\ copy' = [copy EXCEPT ![c] = Decided(@, "active", 1, FALSE)]
                 /\ goal' = [goal EXCEPT ![c] = "record"]
                 /\ pc' = [pc EXCEPT ![c] = "plan"]
                 /\ UNCHANGED <<seen, picked, job, number, verdict, route>>
  /\ UNCHANGED <<storeVars, crashes>>

(* update_mission_loop of a decision that leaves the mission open. *)
Record(c) ==
  /\ pc[c] = "record"
  /\ loop' = copy[c]
  /\ backoff' = (backoff \/ copy[c].retryNotBefore)
  /\ Forget(c)
  /\ UNCHANGED <<ledgerVars, attempts, approval, mission, final, crashes>>

(* update_mission_loop and set_mission_final_outcome of _complete and       *)
(* _terminate.                                                              *)
RecordEnd(c) ==
  /\ pc[c] = "conclude"
  /\ loop' = copy[c]
  /\ Goto(c, "outcome")
  /\ UNCHANGED <<ledgerVars, attempts, approval, mission, final, backoff, crashes>>

SetOutcome(c) ==
  /\ pc[c] = "outcome"
  /\ final' = IF mission \in TerminalMission THEN goal[c] ELSE final
  /\ Forget(c)
  /\ UNCHANGED <<ledgerVars, attempts, approval, mission, loop, backoff, crashes>>

-----------------------------------------------------------------------------
(* ApprovalService.approve and reject *)

(* get_approval and the SELECT of resolve_approval: the approval must be    *)
(* pending.                                                                 *)
Open(r, j, decision) ==
  /\ pc[r] = "idle" /\ approval[j] = "pending"
  /\ Patient => mission = "WAITING_APPROVAL"
  /\ job' = [job EXCEPT ![r] = j]
  /\ verdict' = [verdict EXCEPT ![r] = decision]
  /\ pc' = [pc EXCEPT ![r] = "resolve"]
  /\ UNCHANGED <<storeVars, copy, seen, picked, number, goal, route, crashes>>

(* The UPDATE of resolve_approval, which begins a transaction only now and  *)
(* has no condition on the decision.                                        *)
Resolve(r) ==
  /\ pc[r] = "resolve"
  /\ approval' = [approval EXCEPT ![job[r]] = verdict[r]]
  /\ Goto(r, "notify")
  /\ UNCHANGED <<ledgerVars, attempts, mission, final, loop, backoff, crashes>>

Dismiss(r) ==
  /\ pc' = [pc EXCEPT ![r] = "idle"]
  /\ job' = [job EXCEPT ![r] = NoJob]
  /\ verdict' = [verdict EXCEPT ![r] = "none"]
  /\ UNCHANGED <<copy, seen, picked, number, goal, route>>

(* Mutation of Notify: an approval does not wake the mission. *)
NotifyRejection(r) ==
  /\ pc[r] = "notify"
  /\ mission' = IF verdict[r] = "rejected" /\ CanWrite(mission, "FAILED")
                THEN "FAILED" ELSE mission
  /\ Dismiss(r)
  /\ UNCHANGED <<ledgerVars, attempts, approval, final, loop, backoff, crashes>>

(* update_mission_state, or an exception. *)
Notify(r) ==
  /\ pc[r] = "notify"
  /\ LET to == IF verdict[r] = "approved" THEN "WAITING_WORKER" ELSE "FAILED"
     IN mission' = IF CanWrite(mission, to) THEN to ELSE mission
  /\ Dismiss(r)
  /\ UNCHANGED <<ledgerVars, attempts, approval, final, loop, backoff, crashes>>

-----------------------------------------------------------------------------
(* The rest of the system *)

(* `mission cancel` *)
Cancel ==
  /\ Cancels /\ mission # "CANCELED" /\ CanWrite(mission, "CANCELED")
  /\ mission' = "CANCELED"
  /\ UNCHANGED <<ledgerVars, attempts, approval, final, loop, backoff, localVars, crashes>>

(* `mission resume` recovers leases that have expired. *)
AtWork(j) == \E c \in Controllers : job[c] = j /\ owners[j] = {c}

RecoverExpired ==
  /\ \E J \in (SUBSET {j \in Jobs : EarlyExpiry \/ ~AtWork(j)}) \ {{}} : Ledger!Recover(J)
  /\ UNCHANGED <<attempts, approval, mission, final, loop, backoff, localVars, crashes>>

Elapse ==
  /\ backoff /\ backoff' = FALSE
  /\ UNCHANGED <<ledgerVars, attempts, approval, mission, final, loop, localVars, crashes>>

Crash(p) ==
  /\ p \in Mortal /\ crashes < MaxCrashes /\ pc[p] # "idle"
  /\ crashes' = crashes + 1
  /\ IF p \in Controllers THEN Forget(p) ELSE Dismiss(p)
  /\ UNCHANGED storeVars

-----------------------------------------------------------------------------

Advance(c) ==
  \/ Load(c) \/ Insert(c) \/ Sync(c, "sync", "assess") \/ Assess(c) \/ List(c) \/ Fetch(c)
  \/ Plan(c) \/ Move(c)
  \/ Acquire(c) \/ Attempt(c) \/ Run(c) \/ Commit(c) \/ Ask(c) \/ Release(c) \/ Requeue(c)
  \/ Sync(c, "resync", "after") \/ After(c) \/ Remaining(c)
  \/ Record(c) \/ RecordEnd(c) \/ SetOutcome(c)

Review(r) ==
  \/ \E j \in Jobs, decision \in {"approved", "rejected"} : Open(r, j, decision)
  \/ Resolve(r) \/ Notify(r)

Next ==
  \/ \E c \in Controllers : \/ \E command \in {"none", "status"} : Begin(c, command)
                             \/ Advance(c)
  \/ \E r \in Reviewers : Review(r)
  \/ \E p \in Procs : Crash(p)
  \/ Cancel \/ RecoverExpired \/ Elapse

Spec == Init /\ [][Next]_vars

(* The CLI is called again and again: advance is among the calls, a call    *)
(* that has begun goes on, leases expire and are recovered, approvals are   *)
(* resolved and time passes.                                                *)
Fairness ==
  /\ \A c \in Controllers : SF_vars(Begin(c, "none")) /\ WF_vars(Advance(c))
  /\ \A r \in Reviewers : WF_vars(Review(r))
  /\ WF_vars(RecoverExpired) /\ WF_vars(Elapse)

FairSpec == Spec /\ Fairness

-----------------------------------------------------------------------------
(* Safety, with any number of controllers, reviewers and crashes *)

(* The final outcome tells the truth about the mission, although it is set  *)
(* two transactions after the state, from a decision made earlier still.    *)
OutcomeMatches ==
  /\ final = "completed" => mission = "COMPLETED"
  /\ final \in Failures => mission = "FAILED"

(* Controllers that check the budget at the same time exceed it by at most  *)
(* one attempt for each of the others, although each counts the attempts    *)
(* long before it adds one and overwrites what the others have counted.     *)
AttemptsBounded ==
  Cardinality(attempts) <= MaxAttempts + Cardinality(Controllers) - 1

-----------------------------------------------------------------------------
(* Safety, with one controller *)

JobsSucceeded == \A j \in Jobs : status[j] = "succeeded"
NothingPending == \A j \in Jobs : approval[j] # "pending"

(* Unless a controller has died, a completed mission has no job that is not *)
(* done and no approval that is not resolved: a success that follows an     *)
(* expired lease, a retry or an approval in between does not hide work that *)
(* is left.  It ends as job_failed only if a job failed for good, although  *)
(* a failure is judged after the job was looked at again.                   *)
EndsAsWorked ==
  /\ mission = "COMPLETED" /\ crashes = 0 => JobsSucceeded /\ NothingPending
  /\ final = "job_failed" => \E j \in Jobs : status[j] = "failed"

-----------------------------------------------------------------------------
(* Liveness *)

(* A lease is recovered while the controller that holds it is at work.      *)
LeaseTaken == \E j \in Jobs : AtWork(j) /\ ~AtWork(j)' /\ UNCHANGED localVars

(* A mission that is advanced again and again comes to an end, whatever its *)
(* workers report, also when a controller dies once: unless the leases of   *)
(* controllers at work expire without end.                                  *)
MissionEnds == <>[][~LeaseTaken]_vars => <>(mission \in TerminalMission)

-----------------------------------------------------------------------------
(* What the documents say and the code does not do *)

(* "retry backoff is active" (mission_loop.py): no job is started before    *)
(* the time a retry was put off to.                                         *)
BackoffHonored ==
  [][\A j \in Jobs : status[j] = "queued" /\ status'[j] = "leased" => ~backoff]_vars

(* "all jobs succeeded and no approval pending: COMPLETED" (design, 4.1).   *)
CompletedHasSucceeded == mission = "COMPLETED" => JobsSucceeded

(* "a pending approval: waiting_approval" (design, 5.3): when nobody is at  *)
(* work, a mission waits for an approval only if one is pending.            *)
WaitingHasPending ==
  mission = "WAITING_APPROVAL" /\ (\A p \in Procs : pc[p] = "idle") => ~NothingPending

-----------------------------------------------------------------------------
(* The inductive invariant behind OutcomeMatches and AttemptsBounded.       *)

Target(code) == IF code = "completed" THEN "COMPLETED" ELSE "FAILED"

(* The paths of advance: what a controller writes the mission's state for,  *)
(* and that it has a job when it needs one.                                 *)
GoalFitsOf(c) ==
  /\ pc[c] = "plan" => goal[c] \in {"acquire", "record"} \cup Codes
  /\ pc[c] = "move" => goal[c] \in {"acquire", "release", "record"} \cup Codes
  /\ pc[c] \in {"conclude", "outcome"} => goal[c] \in Codes
  /\ \/ pc[c] \in {"acquire", "attempt"}
     \/ pc[c] \in {"plan", "move"} /\ goal[c] = "acquire"
     => job[c] \in Jobs

(* The writes that are left lead to the state the outcome will tell. *)
RouteLeadsOf(c) ==
  /\ pc[c] = "move" /\ goal[c] \in Codes =>
       IF route[c] = <<>> THEN mission = Target(goal[c])
                          ELSE route[c][Len(route[c])] = Target(goal[c])
  /\ pc[c] \in {"conclude", "outcome"} => mission = Target(goal[c])

PathsFit == \A c \in Controllers : GoalFitsOf(c) /\ RouteLeadsOf(c)

ReviewsFit ==
  \A r \in Reviewers : pc[r] = "resolve" => verdict[r] \in {"approved", "rejected"}

(* A controller that may still add an attempt. *)
MayAttempt(c) ==
  \/ pc[c] = "assess" /\ copy[c].attempts < MaxAttempts
  \/ pc[c] \in {"list", "fetch", "acquire", "attempt"}
  \/ pc[c] \in {"plan", "move"} /\ goal[c] = "acquire"

Permitted == {c \in Controllers : MayAttempt(c)}

(* Once the budget is used up no controller gets a new permit. *)
PermitsBounded ==
  Cardinality(attempts) >= MaxAttempts =>
    Cardinality(attempts) + Cardinality(Permitted) <= MaxAttempts + Cardinality(Controllers) - 1

IInv == TypeOK /\ PathsFit /\ ReviewsFit /\ OutcomeMatches /\ PermitsBounded
=============================================================================
