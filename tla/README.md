# A TLA+ model of the ansys-agent core

`ansys-agent` (sources under `src/src/aedt_agent/`) runs engineering missions on
Ansys AEDT.  It has two halves, and this project models both.

The *mission half* splits a mission into jobs, lets workers execute them, asks
operators for approvals, and keeps everything in one SQLite database.  There is no
server: `cli.py`, the graph runner, the mission loop, the recovery commands and the
approval commands are separate processes that open the same file, any number of
them at the same time, and each may die between two transactions.

The *live half* is an assistant attached to running AEDT desktops.  Every change of
a design is previewed, approved and applied; a worker process per desktop makes the
PyAEDT calls; the engineer goes on working in the same desktop meanwhile, and a call
may fail after it has acted.

Contents: inventory, modules, runs, proofs, known disagreements, not modelled, plan.

## 1. Inventory

| Part | State it keeps | Operations | What must be true of it |
|---|---|---|---|
| Mission state machine (`agent/orchestrator/state_machine.py`, `update_mission_state`) | `missions.state` | compare-and-set along a table | terminal states are final; every writer goes through the table |
| Job store (`infrastructure/sqlite_mission_store.py`) | `jobs`, `worker_leases`, `job_attempts`, `approvals`, `checkpoints`, `mission_loops` | acquire, release, recover, complete (fenced), requeue, attempts | one owner for a job; a stale owner cannot write; final results stay |
| Agent runtime (`agent/orchestrator/runtime.py`) | none of its own | `execute_job`, `execute_next_job`, `recover_harness_attempts`, `cancel` | attempts tell the truth; one success; retries within the limit |
| Process harness (`infrastructure/harness/`) | the workspace of an attempt: `manifest.json`, `heartbeat`, `result.json` | start, collect, give up, child report, inspect | one of child, parent and recovery decides the result |
| Resource gate (`infrastructure/harness/resources.py`) | bounded semaphores for `license`, `aedt`, `cpu` | `acquire_many`, release | no slot lost; no circular wait; a request ends |
| Mission loop (`agent/orchestrator/mission_loop.py`, `loop_contracts.py`, `agent/policies/mission_budget.py`) | one `mission_loops` row | `advance`, `status` | budgets; the outcome matches the jobs; it ends |
| Approval service (`agent/approvals/service.py`) | `approvals` | request, approve, reject | a waiting mission has something to wait for |
| Graph runner and scheduler (`agent/graph_runner.py`, `graph_scheduler.py`, `graph_executors.py`, `graph_template.py`) | `graph_runs`, `node_runs`, `graph_handoffs`, the job bound to a node run | advance: resume, find ready nodes, execute a wave, route, settle; resume a gate | a handoff is routed once; joins are complete; limits hold; success means nothing is left; the graph ends |
| Interventions (`agent/graph_interventions.py`, `intervene_graph`) | a journal of interventions | retry-node, cancel-branch | one transaction against a graph somebody is advancing; applied or refused |
| Live broker and worker (`live/broker.py`, `worker.py`, `protocol.py`) | one child process for each AEDT target, aliases | execute, stop, alias, close | an answer goes to its request; a desktop stays reachable; calls end |
| Approval authorities (`live/approval.py`, `desktop/approval_*.py`) | records, tokens, consumed nonces | register, decide, issue, verify, release | a token makes one change, the one its question showed |
| Live session manager (`live/manager.py`, `interactive/session_tools.py`) | sessions, contexts, tainted sessions, plans | attach, the preview/apply pairs, release, close | what belongs to a session goes with it; a failed rollback blocks the session |
| Exploratory plans (`exploration/`) | a trace file for each plan | validate, preview, apply, promote | the trace tells what happened to the design |
| Live backend (`live/backend.py`, `harness/variables.py`) | previews by digest, cached PyAEDT wrappers | 31 preview/apply commands, 25 reads, `hfss_design_create` | what is applied is what was shown; a failure leaves nothing or says so; a gap in an answer is said |
| Solves, exports, scripts (`live/backend.py`) | runs, previews | start, status, cancel, export, save, open script | a run is solved only when a simulation since its start has ended; a script has its backup |
| Live workflows (`interactive/workflows.py`, `live_workflow_handlers.py`) | a graph run, previews of its steps | preview and apply of a start and of each advance | the graph knows what it did to the design |
| Assistant server (`interactive/server.py`) | none | registers the tools | passes each call to the manager |
| Controlled actions (`agent/actions/`) | `actions`, `action_executions` | request, approve, execute, review | nothing is applied without an approval of exactly this digest |
| PyEDB worker, MCP node server (`interactive/process_manager.py`, `mcp/`) | a child process, a lock | one request at a time | - |
| Event replay, retention, web, workbench, supervisor, Stage C workflow, BRD workers, layout, reporting, knowledge, desktop launcher, v0 | files, views | sequential computations | numerical or textual |

How they interact.  In the mission half the CLI creates a mission and its jobs.
Either the mission loop or the graph runner calls the runtime, which leases a job,
starts a worker (in the process, or through the harness, which asks the resource gate
first), and commits the result through the store's fence.  A success may ask for an
approval; an operator resolves it from another process.  `mission resume` recovers
expired leases, `mission recover-harness` finishes attempts whose process has died.

In the live half the server hands a tool call to the session manager.  A preview goes
to the backend (directly, or through the broker to a worker process) and then to the
approval authority; an apply verifies the token and goes to the backend, which reads
the design again before it changes it.  A live workflow is a graph whose nodes make
these calls: each advance needs an approval of its own, and the node that applies an
operation a second one.  The solver and the engineer change the same design.

What is hard, and listed line by line under `hazards` in `PROJECT.json`:
transactions that read in one step and act in the next, late results of recovered
leases, crashes between a job's commit and the rows that describe it, two finishers of
one attempt, waves whose results are applied row by row, interventions under a driver;
and, in the live half, late answers of a worker that timed out, aliases that meet, a
preview that is stale or used twice, a call that fails after it has acted, a rollback
that fails or goes by names, a cached wrapper that is broken, an old solution that
looks like a new one, and two approvals that are needed at once.

## 2. Modules

```
MissionStates        the transition table, CanWrite
  JobStore           jobs, leases, attempts: one operator for each transaction
    JobExecution     execute_job and recover_harness_attempts, harness and child
      JobExecutionProofs
  JobLedger          the abstract job: status and owner    (JobExecution implements it)
  MissionLoop        advance and the approval service, over JobLedger
    MissionLoopProofs
  GraphRun           advance_graph, resume_graph, interventions
    GraphRunProofs
ResourceGate         acquire_many and release
  ResourceGateProofs
AedtBroker           broker registry, workers, late answers
  AedtBrokerProofs
LiveApproval         the three approval authorities
  LiveSession        session manager, backends, exploratory plans (with LiveTools)
    LiveWorkflow     live workflows over the session (with LiveFlows)
      LiveWorkflowProofs       (and of LiveApproval)
  ChangeLedger       the abstract approval: sessions, tokens, changes  (LiveWorkflow implements it)
LiveCommands         the table of the 31 commands that change a design
LiveTransaction      preview, apply, readback, rollback: for any such table
  LiveTransactionProofs
LiveProject          save, open script
  LiveAnalysis       solves, with LiveReads: the 25 reads
    LiveAnalysisProofs
MC*                  symmetry and constants for TLC
```

**MissionStates** is `ALLOWED_TRANSITIONS` and the guard of
`update_mission_state`; writing the current state again is allowed by the code
and so by `CanWrite`.

**JobStore** has an operator for every transaction on jobs.  An execution `e`
(a call of `execute_job`) has at most one lease and one attempt, so a lease and
an attempt are indexed by `e`: `lease[e]` is `none`, `active` or `released`,
`attempt[e]` is the status of its row.  `outcome[e]` and `requeues[j]` are the
job events the store appends.  `Fenced(e)` is `_job_execution_fence_sql`: the job
is `LEASED`, and `e`'s lease is not released.  Time is not modelled: a lease
expires when `recover_expired_leases` says so, at any moment.

**JobExecution** gives every store call of `execute_job` its own step; `pc` names
the next one.  `Raise` is the `finally` block.  The steps that finish an attempt
(`Check`, `Commit`, `Mark`, `Release`, `Requeue`, `Checkpoint`, `Ask`, `Await`,
`Evaluate`) are shared by a call and a recoverer, which take them in the
different orders the code has: `execute_job` writes the checkpoint before it
releases the lease, the recoverer after.  `StartChild`, `ChildReport`,
`ChildExit`, `Collect` and `GiveUp` are the harness; the child outlives a crashed
parent and writes `result.json` whenever it likes.  `Adopt`, `Interrupt`,
`Inspect` and `Overwrite` are the recovery.  `Abort` is an exception of a store
call, `Crash` the death of a process, `MoveMission` everybody else.

**JobLedger** is what the others may rely on: a status and a set of owners for
each job.  `JobExecution` maps `owners` to the unreleased leases.

**MissionLoop** is `MissionLoopController.advance`, one step for each read or
write of shared state.  `copy[c]` is the record read at the beginning and written
back as a whole, so a lost update is a behaviour of the model.  `Plan` reads the
mission's state and plans the states that `_ensure_mission_ready_for_worker`,
`_move_to_waiting_worker`, `_complete` or `_terminate` will write; `Move` writes
them one by one.  The jobs are `JobLedger`'s (an `INSTANCE`): `execute_job`
keeps its order of effects and leaves out what the ledger hides.  `Open`,
`Resolve`, `Notify` are the three steps of approve and reject.  The wall clock
and the budgets for duplicates and improvement are one nondeterministic
`other \in OtherLimits`.  `EarlyExpiry` lets a lease expire under a live caller;
`Patient` keeps reviewers from answering before the mission waits.

**ResourceGate** is a semaphore for each class, callers that take the classes of
their request in `RESOURCE_ORDER`, time out, and give back in reverse order.

**GraphRun** has one step for each store call of a driver; `call[d]` is where it is,
with the wave it works on.  The rows (`runs`, `handoffs`, `bound`, `jobs`,
`approvals`) outlive it: `Crash` loses only `call`.  The worker threads of a wave
interleave (`Thread`); `TooLate` is a thread that ends after its driver has died.
`execute_job` is seen from outside: leased, then settled.  The handoffs of an edge are
counted in one transaction (`Route`) and the next is inserted in another (`HandOver`),
which does not look at the limit again.  The module shares
`MissionStates` with the others and not `JobStore`: which jobs may be leased twice is
`JobExecution`'s subject.  `RetryNode` and `CancelBranch` are each one transaction
(`BEGIN IMMEDIATE`); `Refused` is a journal row without an effect, for a stale cursor or
a target that does not qualify.

**AedtBroker** gives every step under the registry's `_guard` an action, and keeps the
broker's own lock over many.  A worker answers late, fails, prints lines that are no
answer, is bound to another version or dies.  The thread that reads its lines ends with it,
or alone, at a line that is not UTF-8 (`Undecodable`), and a process may still be there
three seconds after it was killed, so that `_stop` raises (`KillFails`).  A request's id is
the number of its call.

**LiveApproval** is `LiveApprovalAuthority`, the automatic and the desktop one behind
one set of operators; time is what is left of a record's ttl.  **LiveSession** adds the
manager: attach, the 35 preview/apply pairs of `LiveTools` (one step each, which looks
at the authority once and at the design once), exploratory plans with a step for each
write that can fail, release, close, and the end of the process.  The design has two
versions, so a change can also come back.  `LiveTools` also lists the tools that need
no approval: an answer that does not come in time ends the worker, and what it held
(`Unanswered`).  An apply whose token is accepted is answered, or raises, or is not
answered in time; in the last two cases the change was made or not, the context stays with
the manager, and the worker may be gone (`Applies`, which the tools and the nodes of a
workflow share).  `Promote` makes a verified plan a candidate capability.
**LiveWorkflow** composes it with the workflow manager: `LiveFlows` gives each of the
32 templates as the sequence of its nodes; what a handler compares inside a node is a
choice between going on and failing.  A node whose apply raises or is cut off fails or
stays where it is, whatever the design got.

**ChangeLedger** is what all of it promises to whoever approves a change, whatever the
authority: sessions that open once and end for good, tokens that allow one change in one
session, and changes.  `LiveWorkflow` implements it with `sess`, `issued` and `ran`; when
and by whom a token is accepted, lost answers and the restart that forgets which HMAC
tokens were used are below its level.

**LiveTransaction** is the scheme of every command that changes a design: preview,
staleness check, calls, readback, rollback, verdict.  A command is a record of the
table `Handlers`: what its preview watches, the items of its plan, when it records an
item, what its readback checks, what its rollback undoes and compares.  Three objects
stand for the design: one or two that are asked to change and another.  **LiveCommands**
is that table, with the definitions named after the functions they translate; a
behaviour takes one command.  A call does what it should, half of it, something else or
nothing, and reports what it likes; AEDT chooses another name; others edit; a worker is
killed.

**LiveReads** gives each of the 25 reads as a sequence of sections with the manner in
which each meets a fault: through the wrapper or AEDT's editor, reporting it, skipping
the object, taking the collection for empty, or raising.  A failed collection may leave
the layout wrapper broken, which later reads of the same wrapper notice or not.
**LiveProject** and **LiveAnalysis** are the files: versions of the design in memory and
on disk, and the backup of a script, made in steps between which the user edits and saves:
the save, the copy of the project's file, that of its database, and the rename into a
directory that has the name of the preview below that of the (UTC) day; solves of which the
backend sees only that something runs and that files are there.  A start of a solve takes
its snapshot of the results, starts, and records the run, and others solve and write
between any two of these.  The three are composed in one worker, which may be lost.

Definitions marked "Mutant" or "Mutation of" are plausible bugs of the definition they
stand before; each property is checked to fail for one of them.

## 3. Runs

`tlc -config <run>.cfg <module>`; each passing run finishes in less than three minutes
on two cores.

| Run | Instance | Checks |
|---|---|---|
| job_calls | 2 calls of `execute_job` and a recoverer, 1 job, store errors, crashes, retry limit 1, cancel | `OneOwner`, `OneSuccess`, `AttemptsHonest`, `NewestCommits`, `FinalStays` |
| job_lease | 2 calls, 2 jobs, crashes, fairness of `mission resume` | `ImplementsLedger`, `LeaseEnds` |
| resource_gate | 3 callers, limits 1, 1 and 2, every request | `SlotsConserved`, `NoCircularWait`, `RequestEnds` |
| loop_concurrent | 2 controllers, 2 jobs of which one is refused, reviewer, cancel, early expiry | `OutcomeMatches`, `AttemptsBounded` |
| loop_ends | 1 controller that may crash once, 3 jobs, a patient reviewer, early expiry, fairness | `MissionEnds`, `EndsAsWorked` |
| graph_review | 4 templates, step limits 1 and 6, 1 driver that may die once, late workers, 1 intervention, reviewers, cancel | `RoutedOnce`, `JoinComplete`, `SucceededMeansSettled`, `WithinLimits`, `ResultsTrue`, `NoStepBeyond`, `GraphEnds` |
| live_broker | 2 threads, 2 keys of one desktop, 3 worker processes, 3 calls or mishaps | `OwnAnswer`, `RegistryRight`, `CallsEnd` |
| live_transactions | each of the 31 commands; 2 applies, 1 edit, 2 faults, 1 kill | `BegunAsShown`, `CleanFailure`, `VerifiedAsShown`, `OthersKept` |
| live_analysis | 2 setups, 2 solves; 3 versions on 2 days; 2 reads of 2 objects, 1 fault, 1 edit | `FreshHasEnded`, `ScriptBackedUp`, `MissingIsSaid`, `PendingEnds` |
| live_workflow | every tool family, 2 sessions, 2 plans, all 32 workflows and one of them with a tool or a plan beside it, 3 authorities | `TypeOK`, `OneQuestion`, `ReleasedForgotten`, `TraceTruth`, `GraphKnowsDesign`, `TaintHolds`, `ImplementsChangeLedger`, `HostFreed` |
| graph_own_job, live_nested | the smallest instance | one property each that the code violates, section 5 |

What the live runs show.  `live_broker`: no thread finds an answer that is not its own,
whatever timed out before; no desktop is lost from the registry and no process is
forgotten, but for a process that outlived its kill and one whose reader has ended alone
(section 5).  `live_transactions`: a command begins its changes only on objects that are
as they were shown; one that says it failed cleanly has left nothing; what it verifies is
what was shown; a careful rollback deletes nothing of others.  `live_analysis`: a run is
called solved only after a simulation that was under way since its start has ended, and not
after it was canceled, and if its setup had no solution when the snapshot was taken, only
after a solve of that setup has succeeded; if it had one, a failed solve may be called solved
(section 5).  A script never runs without a backup that no
other run has, each part of which was saved after the call began; the same preview may be
made, backed up and run again on another day.  An answer that says nothing
is missing misses nothing, unless the section is one of those that leave out silently
(`Quiet`, section 5).  `live_workflow`: a token makes at most the one change its question
showed, and makes it while its session is attached (`ImplementsChangeLedger`); a released
session leaves nothing usable; the trace and the graph say what was
done to the design, the graph but for the one operation of an apply node that has failed or
hangs; after a failed rollback no plan changes anything more in that
session under the desktop host, unless a write of the trace failed; and the host's single
slot becomes free again.

Why the bounds are enough.  With one job, two calls and a recoverer, an attempt can have
two finishers and a successor; the retry limit 1 gives an attempt below and one at the
limit.  Two jobs are needed only where jobs meet: one `recover_expired_leases` over
several leases (job_lease), the next queued job (MissionLoop), a job left behind while
another succeeds (loop_ends has three).  Two controllers give every pairwise race of
`advance`; `MaxAttempts` is 1 in loop_concurrent so that both meet the limit, and above
the jobs in loop_ends so that the mission can also complete.  Three threads and limits of
one are the smallest gate in which a cycle of waits could have length three.  The four
graphs of `MCGraphRun` have between them a join of a gate's and of two workers' branches,
a loop with limits, fallback, skip, retry and a bounded round; the step limit 1 is met in
the middle of each, 6 in none.  One driver suffices because its own crash and late
threads already give two writers.  Two threads and two keys are the smallest registry in
which aliases meet; three processes allow a replacement after each of two stops.  Three
objects let a command have two targets and a bystander; two applies of one preview, one
edit and two faults (one in the work, one in its undo) are what each property needs to be
violated by its mutant.  Two reads show what the first leaves in the wrapper.  Two days are enough for
a preview to be made again below another directory, three versions for an edit before a
script's call and one during it, two solves for one to end while another is recorded;
every setup has an old solution at first, or none has (`OldSolutions`).  One
failed call in the reads is enough because it may break the wrapper the second one uses.  In
`MCLiveWorkflow` each element of `AllUses` is a scenario with bounds of its own, so that
faults, restarts, second sessions and repeated previews are combined where they meet and
not everywhere.

Type invariants that are proved are no part of these runs: those of `JobExecution`,
`ResourceGate`, `MissionLoop`, `AedtBroker`, `LiveTransaction`, `LiveApproval` and
`LiveAnalysis`; that of `GraphRun` is, because a mutant of the code breaks it.

Counters are finite because calls are finite in number (JobExecution), because budgets
bound them (MissionLoop, GraphRun), or by named bounds that are guards: `MaxCrashes`,
`MaxEvents`, `Limit`, `MaxEvidence`, `MaxSolves`, `MaxVersion`, `MaxDay`, `MaxReads`, `MaxFaults`,
`MaxEdits`, `MaxPolls`, `TTL` and the fields of a `use`.

`CHECK_DEADLOCK FALSE` stands where the system really stops: every call has ended, the
graph is over, or the bounds are used up.

Fairness.  `LeaseEnds` assumes only that `mission resume` is run again and again; calls,
children and recoverers may hang or die.  It is checked without store errors, because
with them it is false (section 5).  `MissionEnds` assumes that `advance` is called again
and again (`SF` of `Begin`, because a status call may be chosen instead), that a call
which has begun goes on, that leases are recovered, reviewers answer, and time passes;
reviewers answer after the mission has begun to wait, because otherwise it may wait for
ever (section 5).  `RequestEnds` assumes that time passes and that a thread which can go
on does; workers may keep their slots for ever.  `GraphEnds` assumes that drivers are
called again and again, that threads run on, reviewers decide and leases are recovered;
it is asked of behaviours without a crash, because a crash at the wrong place leaves the
graph stuck (section 5).  `CallsEnd` assumes that a thread that can go on does: a wait
ends by an answer or by its timeout.  `PendingEnds` assumes that the solver's work ends,
that a call which starts a solve goes on, and that the status of a run is asked for again
and again: `SF`, because the worker serves other calls in between.  `HostFreed` assumes only that
the clock goes on.

## 4. Proofs

All of it by `tlapm` (SMT, Zenon, LS4), from the named assumptions of the modules
and nothing else, for every value of the constants.

`JobExecutionProofs`
- `TypeCorrect`, `Invariance`: `Spec => []IInv`.
- `OwnerIsUnique`, `RequeueIsSafe`, `ResultsAreFinal`: `OneOwner`,
  `RequeueFindsFailed`, `FinalStays`.
- `Implementation`: `Spec => Ledger!Spec`.
- `OneSuccessEach` (`OneSuccess`), `AttemptsAreHonest` (`AttemptsHonest`),
  `NewestCommit` (`NewestCommits`).

`OneOwner` alone is not inductive.  `requeue_failed_job` puts a job back to
`QUEUED` without a condition: to know that it has no owner and is still `FAILED`,
one must know that a caller between its failed commit and the requeue is the only
one who may change the job (`FailureIsKept`): nobody else can acquire a `FAILED`
job, the fence refuses everybody else because the only lease is this caller's, and
no second caller can be in that phase for the same job, because it would have
needed the fence after it.  That in turn needs that a verdict is not carried from
one path into another (`PathsApart`: a success never reaches the requeue, a
refused commit carries no verdict) and that an execution that has not reached
`Acquire` has no lease (`NotStarted`).  The proof shows first that types are kept,
then groups the steps by what they touch: the quiet ones, which change no job and
lease of others (`QuietSafe`), and one lemma for each of the steps that do.

The last three rest on a second invariant, `AInv`, proved on top of `IInv`
(`ANext`).  A commit must be the first of its lease: once a lease has committed and
is not released, its job is not `LEASED` any more (`ResultsRight`), and that stays
true because nobody leases a job that has an unreleased lease (`OneOwner`).  The
checkpoint comes several steps after the commit and after crashes of others, so
`CallerRight` says that one caller at most is on the way from a job's success to its
checkpoint and its question, and that neither is written yet.  The attempt number is
read one transaction before the insert: it is still right then, because the insert is
let through only with an unreleased lease, and who holds one is alone (`NumbersRight`:
the attempt of an unreleased lease is the newest).  And the retry budget, which the
code checks by the attempt's number and never by counting requeues, holds because each
requeue is paid for by a failed attempt: there are fewer requeues than failed attempts,
no more failed attempts than attempts, and the newest one's number is how many there
are (`RetriesRight`).  `CallerShape` is what a step may do to its caller; every action
but the commit and the checkpoint has it, and each lemma after it is about one change
of the store.

`ResourceGateProofs`
- `Invariance`, `Conservation` (`SlotsConserved`), `DeadlockFreedom`
  (`NoCircularWait`).  The argument is the classical one: a waiting caller holds
  only classes before the ones it wants (`HeldInOrder`); take the last class
  anybody waits for; whoever holds it waits for nothing, and by conservation
  somebody does hold it.

`MissionLoopProofs`
- `TypeCorrect`, `Invariance`: `Spec => []IInv`.
- `OutcomeIsTrue` (`OutcomeMatches`), `BudgetBound` (`AttemptsBounded`).
- `EndIsEarned` (`EndsAsWorked`), under the hypotheses `OneController` and
  `OneReviewer`: any number of jobs, but one process advances the mission at a time and
  one resolves its approvals.

The outcome is written two transactions after the mission's state, from a decision
made before that, so `OutcomeMatches` needs to know what each controller is on its
way to: `PathsFit` says that the states left in `route` end in the state its code
stands for, and that after the last write the mission *is* in that state.  Others
cannot undo it because `COMPLETED` and `FAILED` have no way out
(`MissionFinal`), and a write that comes too late raises before the outcome is
set.  `AttemptsBounded` is about permits: a controller between its budget check
and its attempt may add one attempt.  While the budget is not used up nothing
needs to be known; the attempt that uses it up gives its own permit back, so at
most n - 1 others have one; and from then on every new check fails, because the
count only grows (`PermitsBounded`).  `ReviewsFit` is there for the types: a
reviewer that resolves has a decision.  All steps of a controller but three
(the `Sync` before the budget check, `Attempt`, `SetOutcome`) are `Quiet`: they fit
the controller's own path and give it no permit; the three have lemmas of their own.

`EndsAsWorked` is true only of one controller and one reviewer: with two of either,
TLC finds a mission completed while a job is not done or an approval is pending (the
second has asked, or leased a job, after the first has looked), so the two hypotheses are
needed.  Its invariant `EndInv` has two parts.  `JudgeInv` holds through crashes: the job
that a controller judges a failure is one, because between the fetch and the judgement
only an expired lease or the controller itself moves it (`JudgedRight`), and a failed job
is requeued only by who judges it.  `FaultlessInv` holds until somebody dies: the one
lease belongs to the controller at work (`WorkRight`); a failed job has stopped the
mission or is about to be judged; the state of the mission tells where its controller
can be and what it has left to write (`StateRight`), in particular nobody works while it
waits for approval; so one approval is pending at a time (`PendingRight`), and when the
controller finds nothing queued all jobs have succeeded.

`AedtBrokerProofs`
- `Types`, `Invariance`: `Spec => []IInv`, for any threads, keys, brokers and calls.
- `OwnAnswers` (`OwnAnswer`), `RegistryIsRight` (`RegistryRight`).

A broker's lock is held from the write of a request to the end of the exchange
(`LockRight`), so a write meets a broker without a request or an answer (`Clean`): there
is one request or one answer at a time, and an answer exists only while its caller waits
for it or stops the broker (`ExchangesRight`).  A caller that gives up stops the broker
before it leaves the lock, so what comes too late is never read.  For the registry the
danger is a broker that is being stopped and still found: whoever uses one is not alone
with it (`Stopping`) until `Discard` takes out every key of it (`StopsRight`), or its process
has outlived the kill, which is the only case in which it stays (`Doomed`).  A process
that is down has an empty stdin, and no line follows the `None` of its reader
(`PipesRight`).  A worker that nobody reads any more may have requests of several callers,
none of which is answered; hence what is said of requests is said of workers that are read
(`reading`), and `RegistryRight` of those too (`Heard`).

`LiveTransactionProofs`
- `Invariance`: `Spec => []IInv`.
- `BeginningIsFresh` (`BegunAsShown`), `VerificationIsTrue` (`VerifiedAsShown`),
  `FailureIsClean` (`CleanFailure`), `RollbackKeepsOthers` (`OthersKept`).

They hold for any table of commands that satisfies `HandlersAssumption`,
`PlansAssumption` and `ComparesAssumption`, any objects and any inventory, and so for a command added to
`LiveCommands` as long as the assumptions, which TLC evaluates on the table, go on to
hold.  A preview's view is what was seen of the design it was shown with (`ViewsTrue`);
a call that works has begun in a design that looks like that view (`Working`).  A relative
move is the one change whose end does not tell how often it was made: within a call only
an object that was moved once when it was shown can be moved twice (`MovedOnce`).  What a
careful rollback undoes is recorded by the call or was not there when it began, and where
nothing was only the call has put what its plan makes (`MadeByCall`, `UndoesOwn`).

`CleanFailure` rests on the comparison after the rollback, which sees less than what the
call may have changed: presence only for some objects, and not every object of the design
(a created via that AEDT has given another name is outside of what is compared).
`ComparesAssumption` says what makes this enough, and TLC evaluates it on the table: an
object of the plan is compared by value, or it is one the plan adds; AEDT's own Undo is
only called by a command that compares everything.  Outside its plan a call only makes
objects where nothing was (`KeptOutside`), so presence decides; and what is not compared
is as it was, has still to be deleted, or could not be, which the answer says
(`UnjudgedKept`).

`GraphRunProofs`
- `TypeCorrect` (`TypeOK`, which no run repeats), `NodeLimitsHold` (`NodesWithin`, a part
  of `WithinLimits`), for every template, any number of drivers, crashes, interventions
  and approvals.
- `LimitsHold` (`WithinLimits`), `SuccessIsSettled` (`SucceededMeansSettled`),
  `StepsAreBounded` (`NoStepBeyond`),
  `RoutesOnce` (`RoutedOnce`), `JoinsAreComplete` (`JoinComplete`), `ResultsHold`
  (`ResultsTrue`): for every template and any number of the rest, under the hypothesis
  `OneDriver`, that no two drivers call at a time.

The first two come from one invariant, `BaseInv`, because the types are not kept on their own: a
waiting run has an approval only because a gate that answers `waiting` has asked for one
(`InCall`), and the current item of a wave exists only because of where the call is.  A
driver checks `max_runs` when it plans and inserts later, when other drivers may have
inserted and `retry-node` has raised the limit.  What saves the bound is the sequence
number: as long as nobody has inserted since the runs were read (`NoRunSince`) the counts
read are the counts (`RunsCounted`), and when somebody has, the insert fails and the call
raises.  The limit it has read only grows (`LimitsGrow`).  `KnownIn` says that each begun
item of a wave has a run of its own, of its node and index.  Nothing of this kind saves
the limits of the edges: the insert of a handoff does not look at them.

`OneDriver` is a hypothesis of the others and not a fact of the code: nothing there keeps
two processes from advancing one graph.  With two of them TLC finds `EdgesWithin`, the
other part of `WithinLimits` (both count before either inserts), `RoutedOnce`,
`SucceededMeansSettled`, `NoStepBeyond` and `ResultsTrue` violated (both resume the same
run and route it, one settles the graph under the other, one retries a run that the other
has ended); of `JoinComplete` it finds no violation on the template `Meet`, but the proof
needs what the others need.  With one driver at a time, crashes included, each invariant
adds what the one before it did not need:

- `StatusInv`: only the driver writes the status and the step of the graph, so what it
  has read of them is still so when it writes (`StatusRight`); interventions and reviewers
  may put runs and handoffs behind its back, and only such as do not matter.
- `EdgeInv`: what the driver has counted on an edge it is about to write to is still below
  the limit (`RoomRight`); operators insert synthetic handoffs in between, which are not
  traversals.
- `RouteInv`: the runs of the items still to be applied have not ended (`Ahead`), because
  an intervention ends no run that is at work and only retries one that has ended; the
  handoffs of the run that is being routed are over edges before the current one; and
  what is sent was sent by a run that has ended (`SentRight`).  A crash between a run's
  end and its handoffs loses them: it cannot send them twice.
- `JoinInv`: a node has one active run (`OneActive`), and while a run is undone what it
  was started for is still pending (`InputsRight`), or was taken back by `retry-node`; a
  wave's inputs were complete when they were read (`InputsIn`), and are taken only after
  the run has ended.  This is kept also by a run that is resumed, whose inputs are read
  again.
- `ResultInv`: a job is bound to one place (`BoundOnce`), an item that is at its job
  knows it is the bound one, and what it answers is what that job was settled with
  (`ItemJob`); a settled job does not change.  A future that times
  out makes its item fail and says nothing of the job (`TooLate`); and a place is unbound
  only for a retry of the run that is still ahead, so that no run that has succeeded loses
  its job.

`LiveWorkflowProofs`
- `QuestionsOneByOne` (`OneQuestion`), `AuthorityInvariance`, `AcceptedOnce`: of
  `LiveApproval` on its own, for any resources, tokens and time to live.
- `Invariance`: `Spec => []IInv`.
- `Implementation` (`ImplementsChangeLedger`), `ChangesAreApproved` (`ApprovedChanges`),
  `ReleaseForgets` (`ReleasedForgotten`),
  `HostAsksOneByOne` (`OneQuestion`), `TraceIsTrue` (`TraceTruth`), `TaintKeepsOut`
  (`TaintHolds`), `GraphKeepsCount` (`GraphKnowsDesign`), `TypesHold` (`TypeOK`), for any
  table of uses over the listed tools and workflows (`UsesAssumption`), any sessions, plans
  and tokens.

The host's record of a dialog does not come to life again, and a new one is made only
when none is live (`HostInv`).  A token is in one record at most, and what can still be
accepted has not been accepted (`TokensKnown`, `UnusedTokens`).

`AcceptedOnce` is not enough for `ApprovedChanges`: the process that ends forgets which
HMAC tokens it has accepted, and a plan owes its change for two steps after its token was
accepted.  A token is `Spent` when its record is used, its nonce consumed, or its session
over; a spent token stays so, because the restart that forgets the nonces ends the
sessions for good (`SpentStays`), and a token that is accepted is of a session that is
attached and hence not spent (`AcceptedIsNotSpent`).  A call that owes a change has spent
its token and not used it (`ChangesInv`).  That the change is the one shown needs that
what the backend and the manager hold agree (`RunsWhatWasShown`), and that every workflow
of the table is a nonempty sequence of nodes with tools of the table (`FlowsAreFlows`).

`TraceInv` has what `TraceTruth` needs of each plan: it has one preview at most, the step
of the call fits what the manager has recorded of it (`CallInv`), a trace that says how
the plan ended agrees with the outcome and no preview is left to run it again
(`PlanInv`), and as long as no write has failed the trace is at most one step behind
(`FaultlessInv`).

A session is tainted by one plan while a second one may wait there, previewed before.
`TaintHolds` is kept from it by the host: while a plan is being carried out nothing is
live at the host (`HostFree`), so no waiting plan of a session is approved when that
session becomes tainted (`NoneTainted`); a record that is closed does not come to life
again (`RevivesNothing`), and a new preview is refused.  The automatic and the HMAC
authority have no such single question, hence `mode = "desktop"`.

`GraphKnowsDesign` speaks of the time between two calls.  `GraphInv` has the steps in
between: the node that has ended and is not recorded yet has made its operation if it is
an apply node (`Made`), a node only ends while the graph runs, and
what is carried out for a plan is a plan (`PlanRows`), so that it is not counted as an
operation of a node.  An apply node that has failed, or whose call was cut off, has made its
operation or not (`InDoubt`): the count is then that of the nodes passed or one more, and as
the graph does not go on from there the doubt does not add up.  A node makes its operation under a token that has made nothing yet
(`AcceptedIsNotSpent` again), which is why the count grows by one.  Operations are told
from the changes a caller makes beside the flow by their tool; `GraphKeepsCount` assumes
that no use has one tool in both (`FlowsApart`, which TLC evaluates on the uses of the run;
two of them have a tool or a plan beside a flow).

`TypesHold` assumes that all a use can preview is a resource of the approvals
(`ResourcesSuffice`; the instance takes its resources from its uses, and the version or the
turn from the naturals).  A step that puts a preview down puts down one, of a session the
manager knows (`OnePreview`), and what is approved is a preview that is kept
(`ApprovalStep`); so a bound on what is shown bounds the contexts, the questions and the
records together.

`Implementation`: `LiveWorkflow` implements `ChangeLedger` (`ImplementsChangeLedger`), of
which `ApprovedChanges` says what can be seen in one state; TLC checks the first.  A
step changes the sessions (`StartsOrEnds`), makes a change (`ChangesAsGranted`) or issues a
token (`GrantsOnce`), and never two of these (`LedgerStep`).  A change is made under a token
accepted in that step, of a session that is attached and not spent before
(`AcceptedIsNotSpent`), or by the execution of a plan that owes it (`ChangesInv`), whose
session is attached too (`CallFits`).

`LiveAnalysisProofs`
- `Invariance`: `Spec => []IInv`, for any finite set of objects, any setups and bounds.
- `FreshRuns` (`FreshHasEnded`), `ScriptsAreBackedUp` (`ScriptBackedUp`), `ReadsAreHonest`
  (`MissingIsSaid`).

The three modules of one worker meet only when it is lost, so `IInv` is a conjunction and
the proof has a part for each.  What a script's call has read and saved says nothing of
the design now, which the engineer goes on changing; it says what the versions were when
each step was made: from its save on the version the call met is on disk, and then in what
it copies (`CallKeepsUp`).  No script has run that has its backup in the directory the call
is about to rename into, because that directory would be there.  What a record says of a run
rests on one fact that others cannot disturb: of a run that was seen running, something is
still simulated or a simulation has ended since its start (`RecordsTrue`).  That a listed
solution is an old one or has come since is kept through the three steps of a start
(`SolutionsKnown`).  A read is an induction over its
sections, which `read.next` carries: the sections before it miss nothing but what the
answer says (`SaidSoFar`), a break of the wrapper is said or no section to come relies on
the wrapper (`BreakIsSaid`), and a wrapper broken by an earlier read was dropped before
this one began (`DroppedInTime`).  What this needs of the 25 reads is in `SectionTable`.
`MissingIsSaid` also needs that the sections come to an end, hence the lengths in the
types.

Only model-checked: liveness (`LeaseEnds`, `RequestEnds`, `MissionEnds`, `GraphEnds`,
`CallsEnd`, `PendingEnds`, `HostFreed`), which is out of the prover's reach.

## 5. Where the code and its documents disagree

Kept as runs (`expect: violation`):
- `graph_own_job`: a worker node adopts any queued job of its capability that is not
  bound yet, also one a sibling of the same wave has created (`graph_executors.py:650`);
  the design says it never does.
- `live_nested`: with the desktop approval host the step that applies an approved
  operation cannot be approved, because the host refuses a question while another
  approval waits to be used (`desktop/approval_host.py:61`); the user guide describes
  exactly that order.

Seen while modelling and present in the behaviours of the modules, but not kept as
runs.  The names in parentheses are definitions that state the violated claim.

*Jobs and missions.*  A crash after the decision `retry_available` and before the requeue
leaves the job `FAILED` for good (`RetryNotLost`); an exception after the acquisition and
before the commit releases the lease while the job stays `LEASED`, and no recovery finds
it (`LeasedIsRecoverable`); the second `advance` during a backoff starts the job, because
the first has cleared `retry_not_before` (`BackoffHonored`); an approval resolved between
its insertion and the mission's move leaves the mission waiting for nothing
(`WaitingHasPending`); a mission completes while a dead process's job is leased
(`CompletedHasSucceeded`, `mission_loop.py:207` against the bounded-loop design, :142).
Two overlapping decisions on one approval both succeed (`resolve_approval` reads outside
the transaction that writes); with two controllers a job the profile refuses can be run
(`execute_next_job` fetches again), and a mission can be failed for a job that is about
to be requeued; a crash inside `_complete` loses the final outcome for good; a recoverer
may record as `stale_fenced` an attempt whose own result was committed.

*Graphs.*  `max_rounds` counts nodes that ran at least once (`graph_runner.py:1214`), so
`max_rounds: 1` ends after the root wave, and `_complete_graph_with_rounds_exhausted`
sets the final outcome before the mission is terminal, which raises.  A gate asks for an
approval of its own where the design (6.5) lets it take the upstream worker's.  A crash
after `create_node_run` and before the job is bound, or inside a program or gate node,
leaves the graph `RUNNING` for ever.  After a mission has failed while a worker was
retried every `advance` raises.  An intervention during a driver's call meets a
`max_runs` the driver has read before: the retried node ends as `node_run_limit`, or the
graph succeeds over a pending synthetic handoff.  `_complete_mission` raises when the
mission waits for an approval.  Two drivers can overwrite a terminal status, and can both
count the handoffs of an edge before either inserts (`graph_runner.py:1031`, `:1043`): the
edge then carries more than `max_traversals`.
The step of a wave is counted once for each part in which the wave is resumed
(`graph_runner.py:208`), so `step_count` may pass `max_steps`; only a new wave is refused.
The rounds are counted before a wave and the graph ends after it: a `cancel-branch`
between the two adds a visit, and the rounds that ended the graph are no longer the ones
one counts afterwards (`RoundsUsed` looks at each prefix).  `retry-node` does not look at
the active runs behind the failed node: it takes a handoff back that a join has counted
on, and a worker of that join which is resumed after a crash runs with what is left
(`TakenBack`).  A resumed run consumes every handoff that waits for its node at that
moment, also those that came after it began (`graph_runner.py:600`).

*Broker.*  A call whose broker was merged away by an alias gets `broker_unavailable`
although the desktop has another; after a worker's death two keys of one desktop lead to
two workers until the next ping; `close()` stops only the brokers of its snapshot.  When the
thread that reads a worker's lines ends alone, at a line that is not UTF-8
(`broker.py:142`, `:240`), the caller only discards the broker (`:72`): a live process is left
that no key leads to and that no thread will stop (`CleanedUp`), where the plan of the live
sessions has the end of a worker's output among the cases with a certain cleanup
(2026-07-17-live-aedt-unified-assistant.md:48).  Whether it ends is left to the interpreter,
which may close the pipes of an object it has dropped.  A
process that is still there three seconds after `kill()` makes `_stop` raise: its broker
stays in the registry as `stopping`, every later call of its keys is refused, and a `close()`
that meets it leaves its other brokers running.

*Live approvals and sessions.*  `wait_for_live_approval` is not registered in strict
desktop mode (`server.py:1666`) though the catalogue lists it.  Consumed HMAC nonces are
kept in memory only.  The taint is looked at before a preview and not before an apply,
and is not set when the trace store raises after a failed rollback.  `close()` after such
a failure marks an executed candidate `expired`.  A direct release takes out only its own
key; it leaves an approved record at the host, which blocks the others until it expires.
An expired question's dialog hides the next.  An expired exploratory candidate cannot be
validated again.  A repeated preview of an unchanged change returns the host's old record,
expired, rejected or used (user-guide.zh.md:1841, :3007-3008, :3369-3370).  An automatic
verification with a wrong token burns the record.  A failed live scorecard ends the graph
`SUCCEEDED` in the wave and `FAILED` when a gate is resumed; an apply that raises or times
out after AEDT has made the change (`manager.py:286-290`) leaves its node failed and the
operation made (`InDoubt`); poll nodes stop after 64
polls, and a run after 32 steps.

*Live backend.*  Six commands (setup, setup update, sweep, report, object property, trace
width) put things back in an `except` clause that passes over its own failure, and say
only the first one (`ResidueReported`; guide :389, :418).  The variable whose width is
set keeps its new value if it existed (`backend.py:6690`).  The exploratory rollback
compares only the steps it recorded.  Rollbacks of created materials, geometry, setups
and ports delete by name whatever has it (user-guide.zh.md:1652, :2492-2495).  A deleted
material's values that PyAEDT has cached are not seen to change.

*Reads.*  Completed layout reads of the three products-neutral inventories stay in the
cache although the docstring (`backend.py:97-103`) says none does; a preview or apply
whose wrapper failed leaves it to the next read.  Left out silently: a property that
raises `AttributeError` counts as empty (ports, boundaries, reports, geometry names); pins
and lines whose net cannot be read; controlled lists beyond 50; files with `OSError`.
`_layout_read_section_taints_wrapper` takes two valid answers for a fault, so that ports
are not attempted.

*Solves and scripts.*  `solve_success_verified` can be true of a failed solve
(`SuccessIsOwn`; user guide :2710, :2990): `backend.py:15072` asks that a simulation was seen,
that a solution of the setup is listed and that the results have changed since the snapshot,
and with an old solution any file that was written will do.  The latest result file may be two seconds older than the
run (`backend.py:15068`), where the guide (:2987) has it no older; a scan of the results that
fails or is cut when the solve is started compares as changed with a later one that is
complete.  A cancel
without a setup, of another setup, or a second start leaves a run `submitted` or `running`
for ever; a cancel marks a finished run `canceled`; an accepted start whose status read
raises leaves no record and a usable preview.  The manifest of a script's backup
fingerprints the source after the copies, which are made one after the other, so that a
project saved in between has a backup of two versions; unsaved edits are not part of the staleness
check; a failed backup leaves the project saved, so the retry is stale.

## 6. Not modelled

The rows of the inventory without a module, with the reason in `PROJECT.json`:
numerical scoring, reports, web pages, installers, and sequential file processing.
Controlled actions are one process's sequence over rows whose interplay with approvals is
that of `MissionLoop`; event replay only reads; the PyEDB worker is the broker's protocol
with one target.

Of the modelled parts: timestamps (expiry, backoff and deadlines are nondeterministic or
a small counter), the content of payloads, artifacts and manifests, the journal of events
other than job events, the environment of a worker's process, graph nodes that add nodes
(`expand`) and agent nodes.  Of the live half: how a specification is normalised and
which PyAEDT call carries out which item (a call is what it may do to the three objects),
the launching and discovery of desktops, the values a handler of a workflow node
compares, the limit of sixteen exploratory previews, the validator of exploratory plans,
and the routing of phrases to tools.

## 7. What is left

1. `ActionLifecycle`: request, approve, execute, review, rollback, over the approvals of
   `MissionLoop`.
2. `GraphRun` over `JobStore` in place of its own `jobs`, and an abstract token game on
   the template that it implements.
3. Proofs: that the abstract token game of 2 is implemented.
