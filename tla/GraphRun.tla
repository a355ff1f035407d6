------------------------------ MODULE GraphRun ------------------------------
(***************************************************************************)
(* One run of a YAML graph: advance_graph executes one wave of ready nodes *)
(* and writes node runs, handoffs and the status of the graph, one         *)
(* transaction at a time.  The module lets a driver die between any two of *)
(* them, lets the worker threads of a wave interleave, lets operators      *)
(* decide approvals and intervene (retry-node, cancel-branch) while a      *)
(* driver is at work, and lets lease recovery give back the jobs of dead   *)
(* workers.                                                                *)
(*                                                                         *)
(* The template is one of a few; nodes that add nodes (expand) are left out. *)
(* Of a payload only the approval_id it carries is kept.  execute_job is   *)
(* JobExecution's, seen from outside: its job is leased, then settled.     *)
(***************************************************************************)
EXTENDS MissionStates, Integers, FiniteSetsExt, SequencesExt, TLC

CONSTANTS
  Templates,   \* the templates a graph may be created from
  StepLimits,  \* graph_runs.max_steps is one of these
  Early,       \* the capabilities of the jobs queued before the graph was created
  Drivers,     \* the processes that call advance_graph and resume_graph
  Keys,        \* bound: the idempotency keys of the interventions
  Lateness,    \* may a worker answer after its timeout?
  Cancels,     \* may the mission be canceled?
  MaxCrashes   \* bound: how many drivers may die

Failures == {"failed", "canceled", "rejected"}
Successes == {"succeeded", "passed", "approval_required", "approved"}

(* outs is what the node's handler or worker may answer; "retryable" is a   *)
(* failure whose job execute_job queues again.                              *)
NodeType(N) ==
  [kind : {"validator", "scorecard", "worker", "gate"}, cap : Nat,
   join : {"any", "all"}, maxRuns : Nat \ {0},
   onFailure : {"fail", "skip", "retry", "fallback"}, attempts : Nat,
   fanOut : BOOLEAN, after : SUBSET N,
   outs : SUBSET (Successes \cup {"failed", "retryable"})]
EdgeType(N) ==
  [from : N, to : N, on : Successes \cup Failures \cup {"skipped"},
   limit : Nat \ {0}, after : SUBSET N, cond : BOOLEAN]

(* Nodes and edges in the order of the template; rounds is max_rounds, 0 if *)
(* the template has none.                                                   *)
IsTemplate(t) ==
  t \in [nodes : Seq(NodeType(DOMAIN t.nodes)), edges : Seq(EdgeType(DOMAIN t.nodes)), rounds : Nat]

ASSUME GraphAssumption ==
  /\ Templates # {} /\ \A t \in Templates : IsTemplate(t)
  /\ StepLimits \subseteq Nat \ {0} /\ MaxCrashes \in Nat
  /\ Early \subseteq Nat
  /\ Lateness \in BOOLEAN /\ Cancels \in BOOLEAN

VARIABLES
  graph,      \* status, step_count, max_steps and error code of the graph run
  snapshot,   \* template_snapshot_json
  runs,       \* the node runs; the position is the sequence number
  handoffs,   \* the handoffs, in the order of their creation
  jobs,       \* the mission's jobs, by idempotency key
  bound,      \* graph_node_jobs: the job of a node and a run_index
  approvals,  \* the approvals of the mission, in the order of their creation
  mission,    \* missions.state
  call,       \* the call each driver is in
  used,       \* the keys of graph_interventions
  crashes

storeVars == <<graph, snapshot, runs, handoffs, jobs, bound, approvals, mission>>
vars == <<storeVars, call, used, crashes>>

Node == snapshot.nodes
Edge == snapshot.edges
MaxRounds == snapshot.rounds
Nodes == DOMAIN Node
Edges == DOMAIN Edge

NoKey == <<0, 0, 0>>
NoCall ==
  [pc |-> "idle", mode |-> "none", limits |-> <<>>, step |-> 0, wave |-> <<>>,
   base |-> 0, cur |-> 0, via |-> 0, room |-> FALSE, tries |-> 0, goal |-> "none"]

NewGraph(limit) == [status |-> "RUNNING", step |-> 0, max |-> limit, code |-> "none"]

Init ==
  /\ \E limit \in StepLimits : graph = NewGraph(limit)
  /\ snapshot \in Templates
  /\ runs = <<>> /\ handoffs = <<>> /\ approvals = <<>>
  /\ jobs = [k \in {<<0, c, 0>> : c \in Early} |-> "queued"]
  /\ bound = <<>>
  /\ mission = "CREATED"
  /\ call = [d \in Drivers |-> NoCall]
  /\ used = {} /\ crashes = 0

-----------------------------------------------------------------------------
(* What the rows say *)

Ended == {"SUCCEEDED", "FAILED", "CANCELED"}
ActiveRun == {"CREATED", "RUNNING", "WAITING_APPROVAL"}
TerminalRun == {"SUCCEEDED", "FAILED", "SKIPPED"}

RunsOf(n) == {r \in DOMAIN runs : runs[r].node = n}
RunsIn(S) == {r \in DOMAIN runs : runs[r].status \in S}
Latest(n) == Max(RunsOf(n))
IndexOf(r) == Cardinality({q \in RunsOf(runs[r].node) : q <= r})

Pending == {h \in DOMAIN handoffs : handoffs[h].status = "PENDING"}
PendingTo(n) == {h \in Pending : Edge[handoffs[h].edge].to = n}
Incoming(n) == {e \in Edges : Edge[e].to = n}
Outgoing(n, out) == {e \in Edges : Edge[e].from = n /\ Edge[e].on = out}

Sources(H) == {Edge[handoffs[h].edge].from : h \in H}

(* Has what a node of several sources waits for arrived?                     *)
AnyArrived(n, arrived) == arrived # {}
JoinMet(n, arrived) ==
  IF Node[n].join = "all"
    THEN {Edge[e].from : e \in Incoming(n)} \subseteq Sources(arrived)
    ELSE arrived # {}

(* ready_nodes; limits is max_runs as the driver's template has it.         *)
Ready(n, limits) ==
  LET arrived == PendingTo(n)
      after == Node[n].after \cup UNION {Edge[handoffs[h].edge].after : h \in arrived}
  IN /\ Cardinality(RunsOf(n)) < limits[n]
     /\ RunsOf(n) \cap RunsIn(ActiveRun) = {}
     /\ Incoming(n) # {} => JoinMet(n, arrived)
     /\ \A m \in after : RunsOf(m) # {} /\ runs[Latest(m)].status \in TerminalRun

ReadyNodes(limits) == {n \in Nodes : Ready(n, limits)}

(* _count_completed_cycles: how often all the nodes that ran have run again. *)
Cycles(visited) ==
  LET Count(acc, n) ==
        IF acc.seen \cup {n} = Range(visited)
          THEN [seen |-> {}, cycles |-> acc.cycles + 1]
          ELSE [acc EXCEPT !.seen = @ \cup {n}]
  IN FoldLeft(Count, [seen |-> {}, cycles |-> 0], visited).cycles
Visited(k) == [r \in 1 .. k |-> runs[r].node]
CompletedCycles == Cycles(Visited(Len(runs)))

(* merge_handoff_payloads keeps a value on which the payloads agree.        *)
Merged(H) ==
  LET ids == {handoffs[h].approval : h \in H} \ {0}
  IN IF Cardinality(ids) = 1 THEN CHOOSE a \in ids : TRUE ELSE 0

Cap(k) == IF k[1] = 0 THEN k[2] ELSE Node[k[1]].cap
Bound == {bound[b] : b \in DOMAIN bound}
Adoptable(n) ==
  {k \in DOMAIN jobs : jobs[k] = "queued" /\ Cap(k) = Node[n].cap /\ k \notin Bound}

Put(f, x, v) == [y \in DOMAIN f \cup {x} |-> IF y = x THEN v ELSE f[y]]

(* create_job answers the job that already has the key.                     *)
Created(k) == IF k \in DOMAIN jobs THEN jobs ELSE Put(jobs, k, "queued")

-----------------------------------------------------------------------------
(* Control of a driver *)

Go(d, c) == call' = [call EXCEPT ![d] = c]
Goto(d, label) == Go(d, [call[d] EXCEPT !.pc = label])
Return(d) == call' = [call EXCEPT ![d] = NoCall]
At(d, label) == call[d].pc = label
Item(d) == call[d].wave[call[d].cur]
Set(d, k, item) == Go(d, [call[d] EXCEPT !.wave = [call[d].wave EXCEPT ![k] = item]])
Moves(d, k, at) == Set(d, k, [call[d].wave[k] EXCEPT !.at = at])
Answers(d, k, out) == Set(d, k, [call[d].wave[k] EXCEPT !.at = "done", !.out = out])

Start(d) ==
  /\ At(d, "idle")
  /\ \/ Goto(d, "look")
     \/ graph.status = "WAITING_APPROVAL" /\ Goto(d, "wake")
  /\ UNCHANGED <<storeVars, used, crashes>>

(* resume_graph: the status is written whatever it has become.              *)
Wake(d) ==
  /\ At(d, "wake")
  /\ graph' = [graph EXCEPT !.status = "RUNNING", !.code = "none"]
  /\ Goto(d, "look")
  /\ UNCHANGED <<snapshot, runs, handoffs, jobs, bound, approvals, mission, used, crashes>>

Look(d) ==
  /\ At(d, "look")
  /\ IF graph.status \in Ended
       THEN Return(d)
       ELSE Go(d, [call[d] EXCEPT !.pc = "scan", !.step = graph.step,
                                  !.limits = [n \in Nodes |-> Node[n].maxRuns]])
  /\ UNCHANGED <<storeVars, used, crashes>>

WaveItem(n, r, i, inputs, approval, at, out) ==
  [node |-> n, run |-> r, index |-> i, inputs |-> inputs, approval |-> approval,
   job |-> NoKey, at |-> at, out |-> out]

(* The elements of a set of numbers by their rank.                          *)
InOrder(S) ==
  [i \in 1 .. Cardinality(S) |-> CHOOSE x \in S : Cardinality({y \in S : y <= x}) = i]

StepsUsedLate(d) == call[d].step > graph.max
StepsUsed(d) == call[d].step >= graph.max

Scan(d) ==
  /\ At(d, "scan")
  /\ LET waiting == RunsIn({"WAITING_APPROVAL"})
         active == RunsIn({"CREATED", "RUNNING"})
         Gate(r) == WaveItem(runs[r].node, r, IndexOf(r), {}, runs[r].approval, "done", "none")
         order == InOrder(waiting)
     IN CASE waiting # {} ->
               Go(d, [call[d] EXCEPT !.pc = "gate", !.mode = "gates", !.cur = 1,
                      !.wave = [i \in DOMAIN order |-> Gate(order[i])]])
          [] waiting = {} /\ active # {} -> Goto(d, "resume")
          [] waiting = {} /\ active = {} /\ StepsUsed(d) ->
               Go(d, [call[d] EXCEPT !.pc = "finish", !.goal = "graph_step_limit"])
          [] OTHER ->
               IF MaxRounds > 0 /\ CompletedCycles >= MaxRounds
                 THEN Goto(d, "rounds")
                 ELSE Goto(d, "plan")
  /\ UNCHANGED <<storeVars, used, crashes>>

(* set_mission_final_outcome raises unless the mission has ended, before    *)
(* _complete_mission is reached: the mission is never completed.            *)
Rounds(d) ==
  /\ At(d, "rounds")
  /\ graph' = [graph EXCEPT !.status = "SUCCEEDED", !.code = "none"]
  /\ Return(d)
  /\ UNCHANGED <<snapshot, runs, handoffs, jobs, bound, approvals, mission, used, crashes>>

-----------------------------------------------------------------------------
(* What comes next, and the end of a call *)

SettledUnlessActive(limits) ==
  IF RunsIn(ActiveRun) # {} THEN "active"
  ELSE IF ReadyNodes(limits) # {} THEN "ready" ELSE "succeeded"

(* _settle_graph, from the rows as they are at this step.                   *)
Settled(limits) ==
  CASE RunsIn({"WAITING_APPROVAL"}) # {} -> "waiting"
    [] RunsIn({"WAITING_APPROVAL"}) = {} /\ RunsIn(ActiveRun) # {} -> "active"
    [] RunsIn(ActiveRun) = {} /\ ReadyNodes(limits) # {} -> "ready"
    [] OTHER ->
         IF Pending = {} THEN "succeeded"
         ELSE IF \E h \in Pending : LET n == Edge[handoffs[h].edge].to
                                    IN Cardinality(RunsOf(n)) >= limits[n]
                THEN "node_run_limit"
                ELSE "graph_deadlock"

Settle(d) ==
  /\ At(d, "settle")
  /\ Go(d, [call[d] EXCEPT !.pc = "finish", !.goal = Settled(call[d].limits)])
  /\ UNCHANGED <<storeVars, used, crashes>>

(* The nodes of the next wave, with the handoffs each will consume.         *)
Plan(d) ==
  /\ At(d, "plan")
  /\ LET limits == call[d].limits
         order == InOrder(ReadyNodes(limits))
         New(n) == WaveItem(n, 0, Cardinality(RunsOf(n)) + 1, PendingTo(n),
                            Merged(PendingTo(n)), "todo", "none")
     IN IF order = <<>>
          THEN Go(d, [call[d] EXCEPT !.pc = "finish", !.goal = Settled(limits)])
          ELSE Go(d, [call[d] EXCEPT !.pc = "create", !.mode = "wave", !.base = Len(runs),
                      !.cur = 1, !.wave = [i \in DOMAIN order |-> New(order[i])]])
  /\ UNCHANGED <<storeVars, used, crashes>>

Finish(d) ==
  /\ At(d, "finish")
  /\ LET goal == call[d].goal
     IN \/ /\ goal = "waiting"
           /\ graph' = [graph EXCEPT !.status = "WAITING_APPROVAL", !.code = "none"]
           /\ Return(d)
        \/ /\ goal \in {"active", "ready"}
           /\ graph' = [graph EXCEPT !.status = "RUNNING", !.code = "none"]
           /\ Return(d)
        \/ /\ goal = "succeeded"
           /\ graph' = [graph EXCEPT !.status = "SUCCEEDED", !.code = "none"]
           /\ Goto(d, "complete")
        \/ /\ goal \notin {"waiting", "active", "ready", "succeeded"}
           /\ graph' = [graph EXCEPT !.status = "FAILED", !.code = goal]
           /\ Goto(d, "fail")
  /\ UNCHANGED <<snapshot, runs, handoffs, jobs, bound, approvals, mission, used, crashes>>

(* _complete_mission raises when the mission waits for an approval.         *)
CompleteMission(d) ==
  /\ At(d, "complete")
  /\ mission' = IF mission \in TerminalMission \cup {"WAITING_APPROVAL"}
                  THEN mission ELSE "COMPLETED"
  /\ Return(d)
  /\ UNCHANGED <<graph, snapshot, runs, handoffs, jobs, bound, approvals, used, crashes>>

FailMission(d) ==
  /\ At(d, "fail")
  /\ mission' = IF mission \in TerminalMission THEN mission ELSE "FAILED"
  /\ Return(d)
  /\ UNCHANGED <<graph, snapshot, runs, handoffs, jobs, bound, approvals, used, crashes>>

-----------------------------------------------------------------------------
(* A wave: its node runs are created one by one *)

(* The sequence number was chosen when the runs were read: if another       *)
(* driver has taken it the insert fails and the call raises.                *)
CreateRun(d) ==
  /\ At(d, "create")
  /\ LET c == call[d]
     IN IF Len(runs) + 1 # c.base + c.cur
          THEN Return(d) /\ UNCHANGED runs
          ELSE /\ runs' = Append(runs, [node |-> Item(d).node, status |-> "CREATED",
                                        out |-> "none", input |-> Item(d).approval, approval |-> 0])
               /\ Go(d, [call[d] EXCEPT !.pc = "mark",
                         !.wave = [c.wave EXCEPT ![c.cur].run = Len(runs) + 1]])
  /\ UNCHANGED <<graph, snapshot, handoffs, jobs, bound, approvals, mission, used, crashes>>

MarkRunning(d) ==
  /\ At(d, "mark")
  /\ runs' = [runs EXCEPT ![Item(d).run].status = "RUNNING"]
  /\ IF call[d].cur < Len(call[d].wave)
       THEN Go(d, [call[d] EXCEPT !.pc = "create", !.cur = call[d].cur + 1])
       ELSE Goto(d, "prepare")
  /\ UNCHANGED <<graph, snapshot, handoffs, jobs, bound, approvals, mission, used, crashes>>

IsWorker(item) == Node[item.node].kind = "worker"
ToWorker == IF mission \in {"CREATED", "PLANNING", "EVALUATING"} THEN "WAITING_WORKER" ELSE mission

Prepare(d) ==
  /\ At(d, "prepare")
  /\ mission' = IF \E k \in DOMAIN call[d].wave : IsWorker(call[d].wave[k])
                  THEN ToWorker ELSE mission
  /\ Goto(d, "execute")
  /\ UNCHANGED <<graph, snapshot, runs, handoffs, jobs, bound, approvals, used, crashes>>

(* The runs of workers in S whose bound job is in none of the states of T.   *)
JobOf(r) == bound[<<runs[r].node, IndexOf(r)>>]
Held(S, T) ==
  {r \in RunsIn(S) : /\ Node[runs[r].node].kind = "worker"
                     /\ <<runs[r].node, IndexOf(r)>> \in DOMAIN bound
                     /\ jobs[JobOf(r)] \notin T}
ResumableDone == Held({"RUNNING", "SUCCEEDED"}, {"leased"})
ResumableSettled == Held({"RUNNING"}, {"leased", "queued"})

(* The active runs whose job is queued again or settled.                    *)
Resumable == Held({"RUNNING"}, {"leased"})

(* A job that is settled answers for the worker that is gone.               *)
Persisted(item, status) == [item EXCEPT !.at = "done", !.out = status]

(* All the handoffs that now wait for the node become the run's inputs.      *)
Resume(d) ==
  /\ At(d, "resume")
  /\ LET resumed == Resumable
         order == InOrder(resumed)
         Repeat(r) == WaveItem(runs[r].node, r, IndexOf(r), PendingTo(runs[r].node), 0,
                               "todo", "none")
         Again(r) == IF jobs[JobOf(r)] = "queued" THEN Repeat(r)
                     ELSE Persisted(Repeat(r), jobs[JobOf(r)])
     IN IF resumed = {}
          THEN Go(d, [call[d] EXCEPT !.pc = "finish", !.goal = "active"]) /\ UNCHANGED mission
          ELSE /\ Go(d, [call[d] EXCEPT !.pc = "execute", !.mode = "resumed", !.cur = 1,
                         !.wave = [i \in DOMAIN order |-> Again(order[i])]])
               /\ mission' = IF \E r \in resumed : jobs[JobOf(r)] = "queued"
                               THEN ToWorker ELSE mission
  /\ UNCHANGED <<graph, snapshot, runs, handoffs, jobs, bound, approvals, used, crashes>>

-----------------------------------------------------------------------------
(* A wave is executed: programs and gates one by one, then the workers, each *)
(* in a thread of its own.  In "again" the driver itself repeats one item.   *)

Executing(d, k, at) ==
  LET c == call[d]
      Done(j) == c.wave[j].at = "done"
  IN /\ k \in DOMAIN c.wave /\ c.wave[k].at = at
     /\ \/ c.pc = "again" /\ k = c.cur
        \/ /\ c.pc = "execute" /\ c.mode = "wave"
           /\ \A j \in DOMAIN c.wave :
                ~IsWorker(c.wave[j]) /\ (IsWorker(c.wave[k]) \/ j < k) => Done(j)
        \/ /\ c.pc = "execute" /\ c.mode = "resumed"
           /\ \A j \in 1 .. (k - 1) : Done(j)

RunProgram(d, k) ==
  /\ Executing(d, k, "todo")
  /\ Node[call[d].wave[k].node].kind \in {"validator", "scorecard"}
  /\ \E out \in Node[call[d].wave[k].node].outs : Answers(d, k, out)
  /\ UNCHANGED <<storeVars, used, crashes>>

Answer(a) ==
  CASE approvals[a].decision = "pending" -> "waiting"
    [] approvals[a].decision = "approved" -> "approved"
    [] approvals[a].decision = "rejected" -> "rejected"

(* _execute_approval_gate: an approval_id in the payload is not asked again; *)
(* request_approval inserts the row before it moves the mission.             *)
RunGate(d, k) ==
  /\ Executing(d, k, "todo")
  /\ LET item == call[d].wave[k]
     IN /\ Node[item.node].kind = "gate"
        /\ IF item.approval # 0
             THEN /\ Answers(d, k, Answer(item.approval))
                  /\ UNCHANGED <<approvals, mission>>
             ELSE /\ approvals' = Append(approvals, [decision |-> "pending", told |-> FALSE])
                  /\ IF mission \in TerminalMission
                       THEN /\ Answers(d, k, "failed")
                            /\ UNCHANGED mission
                       ELSE /\ Set(d, k, [item EXCEPT !.at = "done", !.out = "waiting",
                                          !.approval = Len(approvals) + 1])
                            /\ mission' = "WAITING_APPROVAL"
  /\ UNCHANGED <<graph, snapshot, runs, handoffs, jobs, bound, used, crashes>>

(* An exception of execute_job is the node's failure in a wave; when the    *)
(* driver repeats a worker it is not caught and ends the call.              *)
Refuse(d, k) ==
  IF At(d, "again") THEN Return(d) ELSE Answers(d, k, "failed")

(* _execute_worker: the bound job, else a queued job of the capability that *)
(* is not bound yet, else a new one.                                        *)
Choose(d, k) ==
  /\ Executing(d, k, "todo")
  /\ LET item == call[d].wave[k]
         place == <<item.node, item.index>>
         own == <<item.node, item.index, 0>>
     IN /\ IsWorker(item)
        /\ \/ /\ place \in DOMAIN bound
              /\ Set(d, k, [item EXCEPT !.at = "start", !.job = bound[place]])
              /\ UNCHANGED jobs
           \/ /\ place \notin DOMAIN bound
              /\ \E j \in Adoptable(item.node) : Set(d, k, [item EXCEPT !.at = "bind", !.job = j])
              /\ UNCHANGED jobs
           \/ /\ place \notin DOMAIN bound /\ Adoptable(item.node) = {}
              /\ Set(d, k, [item EXCEPT !.at = "bind", !.job = own])
              /\ jobs' = Created(own)
  /\ UNCHANGED <<graph, snapshot, runs, handoffs, bound, approvals, mission, used, crashes>>

(* A place or a job that is bound already breaks a key of the table.        *)
Bind(d, k) ==
  /\ Executing(d, k, "bind")
  /\ LET item == call[d].wave[k]
         place == <<item.node, item.index>>
     IN IF place \in DOMAIN bound \/ item.job \in Bound
          THEN Refuse(d, k) /\ UNCHANGED bound
          ELSE Moves(d, k, "start") /\ bound' = Put(bound, place, item.job)
  /\ UNCHANGED <<graph, snapshot, runs, handoffs, jobs, approvals, mission, used, crashes>>

StartJob(d, k) ==
  /\ Executing(d, k, "start")
  /\ IF jobs[call[d].wave[k].job] # "queued"
        \/ mission \in TerminalMission \cup {"WAITING_APPROVAL"}
       THEN Refuse(d, k) /\ UNCHANGED mission
       ELSE Moves(d, k, "lease") /\ mission' = ToWorker
  /\ UNCHANGED <<graph, snapshot, runs, handoffs, jobs, bound, approvals, used, crashes>>

Lease(d, k) ==
  /\ Executing(d, k, "lease")
  /\ LET j == call[d].wave[k].job
     IN IF jobs[j] # "queued"
          THEN Refuse(d, k) /\ UNCHANGED jobs
          ELSE Moves(d, k, "run") /\ jobs' = [jobs EXCEPT ![j] = "leased"]
  /\ UNCHANGED <<graph, snapshot, runs, handoffs, bound, approvals, mission, used, crashes>>

(* The worker answers and its job is settled.                               *)
Work(d, k) ==
  /\ Executing(d, k, "run")
  /\ LET item == call[d].wave[k]
     IN \E out \in Node[item.node].outs :
          \/ /\ out \in Successes /\ mission # "CANCELED"
             /\ jobs' = [jobs EXCEPT ![item.job] = out]
             /\ Set(d, k, [item EXCEPT !.at = "report", !.out = out])
          \/ /\ out \in Successes /\ mission = "CANCELED"
             /\ jobs' = [jobs EXCEPT ![item.job] = "canceled"]
             /\ Answers(d, k, "canceled")
          \/ /\ out \in {"failed", "retryable"}
             /\ jobs' = [jobs EXCEPT ![item.job] = IF out = "failed" THEN "failed" ELSE "queued"]
             /\ Answers(d, k, "failed")
  /\ UNCHANGED <<graph, snapshot, runs, handoffs, bound, approvals, mission, used, crashes>>

(* The mission follows a job that succeeded: it waits for the approval the   *)
(* worker asks for or is evaluated; a move the table forbids raises.         *)
Report(d, k) ==
  /\ Executing(d, k, "report")
  /\ LET asks == call[d].wave[k].out = "approval_required"
         to == IF asks THEN "WAITING_APPROVAL" ELSE "EVALUATING"
     IN /\ approvals' = IF asks THEN Append(approvals, [decision |-> "pending", told |-> FALSE])
                        ELSE approvals
        /\ IF CanWrite(mission, to)
             THEN Moves(d, k, "done") /\ mission' = to
             ELSE Refuse(d, k) /\ UNCHANGED mission
  /\ UNCHANGED <<graph, snapshot, runs, handoffs, jobs, bound, used, crashes>>

(* The future times out; the pool still waits for its thread.               *)
TooLate(d, k) ==
  /\ Lateness /\ At(d, "execute") /\ call[d].mode = "wave"
  /\ k \in DOMAIN call[d].wave
  /\ IsWorker(call[d].wave[k]) /\ call[d].wave[k].at = "done"
  /\ call[d].wave[k].out \notin Failures
  /\ Set(d, k, [call[d].wave[k] EXCEPT !.out = "failed"])
  /\ UNCHANGED <<storeVars, used, crashes>>

Collect(d) ==
  /\ At(d, "execute")
  /\ \A k \in DOMAIN call[d].wave : call[d].wave[k].at = "done"
  /\ Go(d, [call[d] EXCEPT !.pc = "apply", !.cur = 1])
  /\ UNCHANGED <<storeVars, used, crashes>>

-----------------------------------------------------------------------------
(* The results are applied one node after the other *)

Complete(r, status, out, approval) ==
  runs' = [runs EXCEPT ![r] =
             [runs[r] EXCEPT !.status = status, !.out = out, !.approval = approval]]

(* The approval_id a node hands on: validators and gates keep their payload; *)
(* of what failed only a gate's answer has one.                             *)
Given(item) == IF Node[item.node].kind = "gate" THEN item.approval ELSE 0
Kept(item) == IF Node[item.node].kind \in {"validator", "gate"} THEN item.approval ELSE 0

ApplyWaiting(d) ==
  /\ At(d, "apply") /\ Item(d).out = "waiting"
  /\ Complete(Item(d).run, "WAITING_APPROVAL", "waiting", Item(d).approval)
  /\ Goto(d, "consume")
  /\ UNCHANGED <<graph, snapshot, handoffs, jobs, bound, approvals, mission, used, crashes>>

ApplySuccess(d) ==
  /\ At(d, "apply") /\ Item(d).out \in Successes
  /\ Complete(Item(d).run, "SUCCEEDED", Item(d).out, Kept(Item(d)))
  /\ Go(d, [call[d] EXCEPT !.pc = "route", !.via = 1])
  /\ UNCHANGED <<graph, snapshot, handoffs, jobs, bound, approvals, mission, used, crashes>>

Repeats(d) ==
  LET node == Node[Item(d).node]
  IN node.onFailure = "retry" /\ call[d].tries + 1 < node.attempts

(* _handle_failed_node, once there is nothing to repeat.                    *)
ApplyFailure(d) ==
  /\ At(d, "apply") /\ Item(d).out \in Failures /\ ~Repeats(d)
  /\ LET item == Item(d)
         how == Node[item.node].onFailure
         out == CASE how = "skip" -> "skipped"
                  [] how = "fail" -> item.out
                  [] OTHER -> "failed"
         unhandled == how \in {"fail", "retry"} /\ Outgoing(item.node, out) = {}
     IN /\ Complete(item.run, IF how = "skip" THEN "SKIPPED" ELSE "FAILED", out, Given(item))
        /\ IF unhandled
             THEN Go(d, [call[d] EXCEPT !.pc = "consume", !.goal = "unhandled_node_outcome"])
             ELSE Go(d, [call[d] EXCEPT !.pc = "route", !.via = 1])
  /\ UNCHANGED <<graph, snapshot, handoffs, jobs, bound, approvals, mission, used, crashes>>

(* on_failure: retry.  The job of the place is unbound ...                   *)
ApplyRetry(d) ==
  /\ At(d, "apply") /\ Item(d).out \in Failures /\ Repeats(d)
  /\ LET place == <<Item(d).node, Item(d).index>>
     IN bound' = [b \in DOMAIN bound \ {place} |-> bound[b]]
  /\ LET c == call[d]
     IN Go(d, [call[d] EXCEPT !.pc = IF IsWorker(Item(d)) THEN "fresh" ELSE "again",
               !.tries = c.tries + 1, !.wave = [c.wave EXCEPT ![c.cur].at = "todo"]])
  /\ UNCHANGED <<graph, snapshot, runs, handoffs, jobs, approvals, mission, used, crashes>>

FreshUnbound(d) ==
  /\ At(d, "fresh")
  /\ LET c == call[d]
         key == <<Item(d).node, Item(d).index, c.tries>>
     IN /\ jobs' = Created(key)
        /\ Go(d, [call[d] EXCEPT !.pc = "again",
                  !.wave = [c.wave EXCEPT ![c.cur].at = "start", ![c.cur].job = key]])
  /\ UNCHANGED <<graph, snapshot, runs, handoffs, bound, approvals, mission, used, crashes>>

(* ... a worker gets a fresh one, is bound to it and executes it again.      *)
Fresh(d) ==
  /\ At(d, "fresh")
  /\ LET c == call[d]
         key == <<Item(d).node, Item(d).index, c.tries>>
     IN /\ jobs' = Created(key)
        /\ Go(d, [call[d] EXCEPT !.pc = "again",
                  !.wave = [c.wave EXCEPT ![c.cur].at = "bind", ![c.cur].job = key]])
  /\ UNCHANGED <<graph, snapshot, runs, handoffs, bound, approvals, mission, used, crashes>>

Repeated(d) ==
  /\ At(d, "again") /\ Item(d).at = "done"
  /\ Goto(d, "apply")
  /\ UNCHANGED <<storeVars, used, crashes>>

(* _create_matching_edges: one handoff per edge that matches the outcome,    *)
(* fan_out matches every edge, a condition may refuse one; the traversals of *)
(* the edge are counted first.                                              *)
Matching(d, e) ==
  /\ Edge[e].from = Item(d).node
  /\ \/ Edge[e].on = runs[Item(d).run].out
     \/ Node[Item(d).node].fanOut /\ call[d].mode # "gates"
PendingTraversals(e) == Cardinality({h \in Pending : handoffs[h].edge = e})
Traversals(e) == Cardinality({h \in DOMAIN handoffs : handoffs[h].edge = e})

Routed(d, goal) ==
  Go(d, [call[d] EXCEPT !.pc = IF call[d].mode = "gates" THEN "next" ELSE "consume",
                        !.goal = goal])

Counted(d, e) == Go(d, [call[d] EXCEPT !.via = e, !.room = TRUE])

(* The count and the insert are two transactions; the insert does not look   *)
(* at the limit again.                                                      *)
Route(d) ==
  /\ At(d, "route") /\ ~call[d].room
  /\ LET open == {e \in Edges : e >= call[d].via /\ Matching(d, e)}
         e == Min(open)
     IN \/ /\ open = {}
           /\ Routed(d, call[d].goal)
        \/ /\ open # {} /\ Edge[e].cond /\ call[d].mode # "gates"
           /\ Go(d, [call[d] EXCEPT !.via = e + 1])
        \/ /\ open # {} /\ Traversals(e) >= Edge[e].limit
           /\ Routed(d, "edge_traversal_limit")
        \/ /\ open # {} /\ Traversals(e) < Edge[e].limit
           /\ Counted(d, e)
  /\ UNCHANGED <<storeVars, used, crashes>>

HandOver(d) ==
  /\ At(d, "route") /\ call[d].room
  /\ LET e == call[d].via
     IN /\ handoffs' = Append(handoffs,
               [edge |-> e, source |-> Item(d).run, status |-> "PENDING", by |-> 0,
                approval |-> runs[Item(d).run].approval, synthetic |-> FALSE])
        /\ Go(d, [call[d] EXCEPT !.via = e + 1, !.room = FALSE])
  /\ UNCHANGED <<graph, snapshot, runs, jobs, bound, approvals, mission, used, crashes>>

Taken(H, by) ==
  [h \in DOMAIN handoffs |->
     IF h \in H THEN [handoffs[h] EXCEPT !.status = "CONSUMED", !.by = by] ELSE handoffs[h]]

(* consume_graph_handoffs, one transaction: a handoff that is not pending    *)
(* any more makes the call raise.                                           *)
Consume(d) ==
  /\ At(d, "consume")
  /\ IF Item(d).inputs \subseteq Pending
       THEN /\ handoffs' = Taken(Item(d).inputs, Item(d).run)
            /\ Goto(d, "next")
       ELSE Return(d) /\ UNCHANGED handoffs
  /\ UNCHANGED <<graph, snapshot, runs, jobs, bound, approvals, mission, used, crashes>>

NextItem(d) ==
  /\ At(d, "next")
  /\ LET c == call[d]
         gates == c.mode = "gates"
     IN IF c.goal # "none" THEN Goto(d, "finish")
        ELSE IF c.cur < Len(c.wave)
          THEN Go(d, [call[d] EXCEPT !.pc = IF gates THEN "gate" ELSE "apply",
                      !.cur = c.cur + 1, !.tries = 0])
          ELSE Goto(d, IF gates THEN "reopen" ELSE "count")
  /\ UNCHANGED <<storeVars, used, crashes>>

CountStep(d) ==
  /\ At(d, "count")
  /\ graph' = [graph EXCEPT !.step = @ + 1]
  /\ IF \E k \in DOMAIN call[d].wave : call[d].wave[k].out = "waiting"
       THEN Go(d, [call[d] EXCEPT !.pc = "finish", !.goal = "waiting"])
       ELSE Goto(d, "settle")
  /\ UNCHANGED <<snapshot, runs, handoffs, jobs, bound, approvals, mission, used, crashes>>

(* _resume_waiting_gates: the first gate that still waits ends the call.     *)
ResumeGate(d) ==
  /\ At(d, "gate")
  /\ LET item == Item(d)
         answer == Answer(item.approval)
     IN IF answer = "waiting"
          THEN Go(d, [call[d] EXCEPT !.pc = "finish", !.goal = "waiting"]) /\ UNCHANGED runs
          ELSE /\ Complete(item.run, IF answer = "approved" THEN "SUCCEEDED" ELSE "FAILED",
                           answer, item.approval)
               /\ IF answer = "rejected" /\ Outgoing(item.node, answer) = {}
                    THEN Go(d, [call[d] EXCEPT !.pc = "finish", !.goal = "unhandled_node_outcome"])
                    ELSE Go(d, [call[d] EXCEPT !.pc = "route", !.via = 1])
  /\ UNCHANGED <<graph, snapshot, handoffs, jobs, bound, approvals, mission, used, crashes>>

Reopen(d) ==
  /\ At(d, "reopen")
  /\ graph' = [graph EXCEPT !.status = "RUNNING", !.code = "none"]
  /\ Goto(d, "settle")
  /\ UNCHANGED <<snapshot, runs, handoffs, jobs, bound, approvals, mission, used, crashes>>

Crash(d) ==
  /\ crashes < MaxCrashes /\ ~At(d, "idle")
  /\ crashes' = crashes + 1
  /\ Return(d)
  /\ UNCHANGED <<storeVars, used>>

-----------------------------------------------------------------------------
(* Operators, and the recovery of jobs *)

(* ApprovalService.approve and reject: the row, then the mission.           *)
Decide(a) ==
  /\ approvals[a].decision = "pending"
  /\ \E decision \in {"approved", "rejected"} :
       approvals' = [approvals EXCEPT ![a].decision = decision]
  /\ UNCHANGED <<graph, snapshot, runs, handoffs, jobs, bound, mission, call, used, crashes>>

Tell(a) ==
  /\ approvals[a].decision # "pending" /\ ~approvals[a].told
  /\ approvals' = [approvals EXCEPT ![a].told = TRUE]
  /\ LET to == IF approvals[a].decision = "approved" THEN "WAITING_WORKER" ELSE "FAILED"
     IN mission' = IF CanWrite(mission, to) THEN to ELSE mission
  /\ UNCHANGED <<graph, snapshot, runs, handoffs, jobs, bound, call, used, crashes>>

CancelMission ==
  /\ Cancels /\ CanWrite(mission, "CANCELED") /\ mission' = "CANCELED"
  /\ UNCHANGED <<graph, snapshot, runs, handoffs, jobs, bound, approvals, call, used, crashes>>

(* recover_expired_leases: the lease of a worker that died expires.         *)
AtWork(j) ==
  \E d \in Drivers : \E k \in DOMAIN call[d].wave :
    call[d].wave[k].at = "run" /\ call[d].wave[k].job = j
RecoverJob(j) ==
  /\ jobs[j] = "leased" /\ ~AtWork(j)
  /\ \E status \in {"queued", "failed"} : jobs' = [jobs EXCEPT ![j] = status]
  /\ UNCHANGED <<graph, snapshot, runs, handoffs, bound, approvals, mission, call, used, crashes>>

JobsOf(n) == {bound[b] : b \in {b \in DOMAIN bound : b[1] = n}}
Open(n) ==
  /\ graph.status = "RUNNING" /\ mission \notin TerminalMission
  /\ \A j \in JobsOf(n) : jobs[j] \notin {"queued", "leased"}

Insert(key) == key \notin used /\ used' = used \cup {key}

Refused(key) ==
  /\ Insert(key)
  /\ UNCHANGED <<storeVars, call, crashes>>

Synthetic(e, source, approval) ==
  [edge |-> e, source |-> source, status |-> "PENDING", by |-> 0, approval |-> approval,
   synthetic |-> TRUE]

(* retry-node: the handoffs of the failure are taken back, max_runs leaves  *)
(* room for one more run, and its inputs are handed to the node again.  A    *)
(* handoff taken by an intervention has by = 0.                              *)
RetryNode(key, n) ==
  /\ Insert(key) /\ Open(n)
  /\ RunsOf(n) # {} /\ RunsOf(n) \cap RunsIn(ActiveRun) = {}
  /\ LET last == Latest(n)
         branch == {h \in DOMAIN handoffs :
                      /\ handoffs[h].source = last
                      /\ Edge[handoffs[h].edge].on \in Failures \cup {runs[last].out}}
         given == {h \in DOMAIN handoffs : handoffs[h].by = last}
         inputEdges == {handoffs[h].edge : h \in given} \cap Incoming(n)
         chosen == IF Node[n].join = "all" \/ Incoming(n) = {} THEN Incoming(n)
                   ELSE {Min(IF inputEdges # {} THEN inputEdges ELSE Incoming(n))}
         SourceOf(e) == IF \E h \in given : handoffs[h].edge = e
                          THEN handoffs[Min({h \in given : handoffs[h].edge = e})].source
                          ELSE last
         order == InOrder(chosen)
     IN /\ runs[last].status = "FAILED"
        /\ branch \subseteq Pending
        /\ handoffs' = Taken(branch, 0) \o
             [i \in DOMAIN order |-> Synthetic(order[i], SourceOf(order[i]), runs[last].input)]
  /\ snapshot' = [snapshot EXCEPT !.nodes[n].maxRuns = Max({@, Cardinality(RunsOf(n)) + 1})]
  /\ UNCHANGED <<graph, runs, jobs, bound, approvals, mission, call, crashes>>

(* The nodes that can be reached from n: they are in every set that holds n  *)
(* and is closed under the edges.                                           *)
Reachable(n) ==
  {m \in Nodes : \A S \in SUBSET Nodes :
     (n \in S /\ \A e \in Edges : Edge[e].from \in S => Edge[e].to \in S) => m \in S}

(* _unsafe_join_cancel_details finds nothing.                               *)
SafeToCancel(n) ==
  \A e \in Edges :
    (/\ Edge[e].from = n /\ Edge[e].on # "canceled"
     /\ \E m \in Reachable(Edge[e].to) : Node[m].join = "all")
    => \E f \in Outgoing(n, "canceled") : Edge[f].to = Edge[e].to

Skipped(n) ==
  [node |-> n, status |-> "SKIPPED", out |-> "canceled",
   input |-> Merged(PendingTo(n)), approval |-> Merged(PendingTo(n))]

(* cancel-branch: a node that has never run is skipped, with the handoffs    *)
(* that wait for it, and its canceled edges are followed.                   *)
CancelBranch(key, n) ==
  /\ Insert(key) /\ Open(n)
  /\ Incoming(n) # {} /\ RunsOf(n) = {} /\ PendingTo(n) # {} /\ SafeToCancel(n)
  /\ runs' = Append(runs, Skipped(n))
  /\ LET order == InOrder(Outgoing(n, "canceled"))
     IN handoffs' = Taken(PendingTo(n), Len(runs) + 1) \o
          [i \in DOMAIN order |-> Synthetic(order[i], Len(runs) + 1, Merged(PendingTo(n)))]
  /\ UNCHANGED <<graph, snapshot, jobs, bound, approvals, mission, call, crashes>>

-----------------------------------------------------------------------------
Thread(d, k) ==
  \/ RunProgram(d, k) \/ RunGate(d, k)
  \/ Choose(d, k) \/ Bind(d, k) \/ StartJob(d, k) \/ Lease(d, k)
  \/ Work(d, k) \/ Report(d, k)

Driver(d) ==
  \/ Start(d) \/ Wake(d) \/ Look(d) \/ Scan(d) \/ Rounds(d)
  \/ Plan(d) \/ Settle(d) \/ Finish(d) \/ CompleteMission(d) \/ FailMission(d)
  \/ CreateRun(d) \/ MarkRunning(d) \/ Prepare(d) \/ Resume(d) \/ Collect(d)
  \/ ApplyWaiting(d) \/ ApplySuccess(d) \/ ApplyFailure(d)
  \/ ApplyRetry(d) \/ Fresh(d) \/ Repeated(d)
  \/ Route(d) \/ HandOver(d) \/ Consume(d) \/ NextItem(d) \/ CountStep(d)
  \/ ResumeGate(d) \/ Reopen(d)
  \/ \E k \in DOMAIN call[d].wave : Thread(d, k)

Reviewer == \E a \in DOMAIN approvals : Decide(a) \/ Tell(a)
Recovery == \E j \in DOMAIN jobs : RecoverJob(j)
Intervention ==
  \E key \in Keys : \/ Refused(key)
                    \/ \E n \in Nodes : RetryNode(key, n) \/ CancelBranch(key, n)

Next ==
  \/ \E d \in Drivers : Driver(d) \/ Crash(d)
  \/ \E d \in Drivers : \E k \in DOMAIN call[d].wave : TooLate(d, k)
  \/ Reviewer \/ Recovery \/ CancelMission \/ Intervention

Spec == Init /\ [][Next]_vars

(* Drivers are called again and again, threads run on, operators decide, and *)
(* expired leases are recovered.                                             *)
Fairness ==
  /\ \A d \in Drivers : WF_vars(Driver(d))
  /\ WF_vars(Reviewer) /\ WF_vars(Recovery)
FairSpec == Spec /\ Fairness

-----------------------------------------------------------------------------
(* Properties *)

Outcome == Successes \cup Failures \cup {"none", "waiting"}
Asked == 0 .. Len(approvals)
Run ==
  {run \in [node : Nodes, status : ActiveRun \cup TerminalRun, out : Outcome \cup {"skipped"},
            input : Asked, approval : Asked] :
     run.status = "WAITING_APPROVAL" => run.approval # 0}
Handoff == [edge : Edges, source : Nat, status : {"PENDING", "CONSUMED"}, by : Nat,
            approval : Asked, synthetic : BOOLEAN]
Key == Nat \X Nat \X Nat
ItemType == [node : Nodes, run : Nat, index : Nat, inputs : SUBSET DOMAIN handoffs,
             approval : Asked, job : Key, out : Outcome \cup {"retryable"},
             at : {"todo", "bind", "start", "lease", "run", "report", "done"}]

Waving == {"create", "mark", "prepare", "execute", "apply", "again", "fresh", "route",
           "consume", "next", "count", "gate"}
Limiting == {"scan", "rounds", "resume", "plan", "settle", "reopen"} \cup Waving
Goal == {"none", "waiting", "active", "ready", "succeeded", "graph_step_limit",
         "node_run_limit", "graph_deadlock", "unhandled_node_outcome", "edge_traversal_limit"}

Call == [pc : {"idle", "look", "wake", "finish", "complete", "fail"} \cup Limiting,
         mode : {"none", "wave", "resumed", "gates"}, limits : {<<>>} \cup [Nodes -> Nat],
         step : Nat, wave : Seq(ItemType), base : Nat, cur : Nat, via : Nat, room : BOOLEAN,
         tries : Nat, goal : Goal]

TypeOK ==
  /\ graph \in [status : {"RUNNING", "WAITING_APPROVAL", "SUCCEEDED", "FAILED"}, step : Nat,
                max : StepLimits, code : Goal]
  /\ IsTemplate(snapshot)
  /\ runs \in Seq(Run) /\ handoffs \in Seq(Handoff)
  /\ DOMAIN jobs \subseteq Key
  /\ jobs \in [DOMAIN jobs -> {"queued", "leased", "failed", "canceled"} \cup Successes]
  /\ DOMAIN bound \subseteq Nat \X Nat /\ bound \in [DOMAIN bound -> DOMAIN jobs]
  /\ approvals \in Seq([decision : {"pending", "approved", "rejected"}, told : BOOLEAN])
  /\ mission \in MissionState
  /\ call \in [Drivers -> Call]
  /\ used \subseteq Keys /\ crashes \in 0 .. MaxCrashes

(* A node run sends at most one handoff over an edge, however often its     *)
(* driver dies and its job is resumed (_complete_and_route).                *)
RoutedOnce ==
  \A h, i \in DOMAIN handoffs :
    /\ ~handoffs[h].synthetic /\ ~handoffs[i].synthetic
    /\ handoffs[h].edge = handoffs[i].edge /\ handoffs[h].source = handoffs[i].source
    => h = i

(* A join of all sources has taken a handoff of each (ready_nodes and the   *)
(* inputs a resumed run finds), but for one that retry-node took back       *)
(* between the run's creation and its end.                                  *)
TakenBack(n) ==
  {h \in DOMAIN handoffs : /\ handoffs[h].status = "CONSUMED" /\ handoffs[h].by = 0
                          /\ Edge[handoffs[h].edge].to = n}
AllGiven(n, given) ==
  Node[n].join = "all" =>
    {Edge[e].from : e \in Incoming(n)} \subseteq Sources(given \cup TakenBack(n))
TakenBy(r) == {h \in DOMAIN handoffs : handoffs[h].by = r}
JoinComplete ==
  \A r \in RunsIn({"SUCCEEDED", "FAILED", "WAITING_APPROVAL"}) :
    TakenBy(r) # {} => AllGiven(runs[r].node, TakenBy(r))

(* A graph that succeeded has nothing left to do: no active run, and no      *)
(* handoff that waits but those of an intervention, unless its rounds were   *)
(* used up, perhaps before a branch was canceled (advance_graph,             *)
(* _settle_graph); and a mission is completed only behind such a graph.      *)
RoundsUsed == MaxRounds > 0 /\ \E k \in 0 .. Len(runs) : Cycles(Visited(k)) >= MaxRounds
SucceededMeansSettled ==
  /\ graph.status = "SUCCEEDED" =>
       /\ RunsIn(ActiveRun) = {}
       /\ RoundsUsed \/ \A h \in Pending : handoffs[h].synthetic
  /\ mission = "COMPLETED" => graph.status = "SUCCEEDED"

(* The bounds of the template hold for the whole life of the graph: runs per *)
(* node, also while retry-node raises the bound, and traversals per edge,    *)
(* also when a handoff is inserted behind the count.  Two drivers at once    *)
(* may pass the second: the count and the insert are two transactions.       *)
NodesWithin == \A n \in Nodes : Cardinality(RunsOf(n)) <= Node[n].maxRuns
EdgesWithin ==
  \A e \in Edges :
    Cardinality({h \in DOMAIN handoffs : handoffs[h].edge = e /\ ~handoffs[h].synthetic})
      <= Edge[e].limit
WithinLimits == NodesWithin /\ EdgesWithin

(* Once max_steps waves are counted no node run begins (advance_graph); a    *)
(* branch may still be canceled, and what runs already is resumed.           *)
NoStepBeyond ==
  [][graph.step >= graph.max /\ runs' # runs =>
       \/ DOMAIN runs' = DOMAIN runs
       \/ runs'[Len(runs')].status = "SKIPPED"]_vars

(* A worker's node run succeeds only with the outcome its own bound job was  *)
(* settled with, also after the driver died and another call took over; and *)
(* what a gate answers is what was decided about the approval it shows, no   *)
(* handoff leaving it before the decision.                                  *)
ResultsTrue ==
  \A r \in DOMAIN runs :
    LET place == <<runs[r].node, IndexOf(r)>> IN
    CASE Node[runs[r].node].kind = "worker" ->
           runs[r].status = "SUCCEEDED" =>
             place \in DOMAIN bound /\ jobs[bound[place]] = runs[r].out
      [] Node[runs[r].node].kind = "gate" ->
           /\ runs[r].out \in {"approved", "rejected"} =>
                approvals[runs[r].approval].decision = runs[r].out
           /\ (\E h \in DOMAIN handoffs : handoffs[h].source = r /\ ~handoffs[h].synthetic) =>
                runs[r].status \in TerminalRun
      [] OTHER -> TRUE

(* Each worker run executes the job that was created for it, or one that     *)
(* was queued before the graph, never the job of another node.              *)
OwnJob == \A b \in DOMAIN bound : bound[b][1] \in {0, b[1]}

(* While no driver dies and the mission goes on, the graph ends.             *)
GraphEnds == <>(graph.status \in Ended \/ mission \in TerminalMission \/ crashes > 0)

=============================================================================
