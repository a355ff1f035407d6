---------------------------- MODULE LiveWorkflow ----------------------------
(***************************************************************************)
(* Graph workflows inside a live session, and everything that can happen   *)
(* to one assistant: the manager's calls of LiveSession, the workflow      *)
(* manager's four (preview and apply of a start and of each advance), the  *)
(* person at the dialog, the clock, the user of the desktop, and the end   *)
(* of the process.                                                         *)
(*                                                                         *)
(* The graph is in a database and outlives the process; the previews of    *)
(* its steps and the manager's contexts do not.  A step of the graph needs *)
(* an approval of its own, and a second one when it applies the operation  *)
(* that the node before it previewed.  One graph runs in a behaviour, and  *)
(* each of its waves is one node, as in every template of LiveFlows.       *)
(***************************************************************************)
EXTENDS LiveSession, LiveFlows

CONSTANT MaxPolls    \* bound: polls that find the solver running, in one flow

(* What a behaviour works with exists: tools of the manager, plans, a        *)
(* workflow of the table, desktops by one of their names, so many times.    *)
ASSUME UsesAssumption ==
  \A u \in Uses :
    /\ u.tools \subseteq UNION ToolFamilies /\ u.plans \subseteq Plans
    /\ u.flow \in LiveSessionWorkflows \cup {"none"}
    /\ \A i \in DOMAIN u.attached : u.attached[i] \in DesktopNames
    /\ {u.previews, u.edits, u.faults, u.stops} \subseteq Nat

(* A flow's operations are told from those of the tools a caller works with  *)
(* beside it by the tool: no use has one in both.                           *)
FlowsApart ==
  \A u \in Uses : u.flow # "none" =>
    \A i \in DOMAIN Flows[u.flow] : Flows[u.flow][i].tool \notin u.tools

VARIABLES
  graph,   \* the graph run: "none", "running", "stuck", "succeeded" or "failed"
  pos,     \* the node that is ready
  turn,    \* counts the changes of the graph's state: what the digest tells apart
  op,      \* operation_preview_id, in the output of the last preview node
  bound,   \* the target binding the mission was started with
  focus,   \* the active design of the desktop
  wfp      \* the workflow manager's _previews

graphVars == <<graph, pos, turn, op, bound, focus, wfp>>
vars == <<liveVars, graphVars>>

Nodes == Flows[use.flow]
Ready == Nodes[pos]
(* _operation_approval_requirement, from the last node that succeeded.      *)
Required ==
  /\ graph = "running" /\ pos > 1 /\ use.flow \in DOMAIN OperationNodes
  /\ Nodes[pos - 1].id \in OperationNodes[use.flow]

PlanSteps == WriteSteps \cup {"register", "execute"}
NodeSteps == {"node", "node_done", "node_again", "node_ended", "node_failed"}

Init ==
  /\ LiveInit
  /\ graph = "none" /\ pos = 1 /\ turn = 0 /\ op = NoPreview
  /\ bound = 0 /\ focus = 0 /\ wfp = {}

---------------------------------------------------------------------------
(* preview_start and preview_advance put the preview into _previews before  *)
(* the registration, which may be refused.                                  *)
Previews(s, p, loss) ==
  /\ <<s, p>> \in wfp => made < use.previews
  /\ made' = IF <<s, p>> \in wfp THEN made + 1 ELSE made
  /\ Lose(loss)
  /\ wfp' = wfp \cup {<<s, p>>}
  /\ Asks(s, p, loss)
  /\ UNCHANGED <<sess, held, design, use, edits, stops, ran, exploreVars, call,
                 graph, pos, turn, op, bound, focus>>

PreviewStart(s, loss) ==
  /\ Idle /\ Known(s) /\ graph = "none"
  /\ Previews(s, <<start, focus>>, loss)

PreviewAdvance(s, loss) ==
  /\ Idle /\ Known(s) /\ graph \in {"running", "stuck"} /\ focus = bound
  /\ Previews(s, <<advance, turn>>, loss)

(* authorize_guarded_preview: the token and the context are both spent.     *)
Authorizes(s, p, token, loss) ==
  /\ HasContext(s, p, Row(p).action)
  /\ Lose(loss)
  /\ Verify(<<s, p>>, token, loss)
  /\ contexts' = IF VerifyAnswer(<<s, p>>, token, loss)
                 THEN contexts \ {<<s, p>>} ELSE contexts

ApplyStart(s, token, loss) ==
  LET p == <<start, focus>> IN
  /\ Idle /\ Known(s) /\ <<s, p>> \in wfp
  /\ graph = "none"    \* bound: one graph
  /\ Authorizes(s, p, token, loss)
  /\ IF VerifyAnswer(<<s, p>>, token, loss)
     THEN /\ graph' = "running" /\ bound' = focus /\ wfp' = wfp \ {<<s, p>>}
          /\ ran' = [ran EXCEPT ![token] = Append(@, p)]
     ELSE UNCHANGED <<graph, bound, wfp, ran>>
  /\ UNCHANGED <<sess, held, design, use, made, edits, stops, exploreVars, call,
                 pos, turn, op, focus>>

(* The digest in the preview is the digest of the graph as it is now.       *)
SameState(p) == Row(p) = advance /\ Shown(p) = turn

ApplyAdvance(s, p, token, opToken, loss) ==
  /\ Idle /\ Known(s) /\ <<s, p>> \in wfp
  /\ SameState(p)
  /\ Required <=> opToken # NoToken
  /\ focus = bound
  /\ Authorizes(s, p, token, loss)
  /\ IF VerifyAnswer(<<s, p>>, token, loss)
     THEN /\ ran' = [ran EXCEPT ![token] = Append(@, <<advance, turn>>)]
          /\ IF graph = "running"
             THEN call' = [Call("node", s, p, token) EXCEPT !.op = opToken] /\ UNCHANGED wfp
             ELSE wfp' = wfp \ {<<s, p>>} /\ UNCHANGED call
     ELSE UNCHANGED <<ran, call, wfp>>
  /\ UNCHANGED <<sess, held, design, use, made, edits, stops, exploreVars,
                 graph, pos, turn, op, bound, focus>>

---------------------------------------------------------------------------
(* The handler of the node that is ready; every exception fails it, that of *)
(* a call without an answer too.                                            *)
NodeFails ==
  /\ call.at = "node" /\ Goto("node_failed")
  /\ \E f \in Answers : WorkerEnds(call.s, f)
  /\ UNCHANGED <<approvalVars, sess, contexts, design, use, made, edits, stops, ran,
                 exploreVars, graphVars>>

ReadNode ==
  /\ call.at = "node" /\ Ready.kind = "read" /\ Goto("node_done")
  /\ UNCHANGED <<approvalVars, sessionVars, exploreVars, graphVars>>

PreviewNode(loss) ==
  LET p == <<Ready.tool, design>> IN
  /\ call.at = "node" /\ Ready.kind = "preview" /\ Known(call.s)
  /\ Lose(loss)
  /\ held' = held \cup {<<sess[call.s], p>>}
  /\ Asks(call.s, p, loss)
  /\ IF RegisterAnswer(<<call.s, p>>, loss) = "refused"
     THEN Goto("node_failed") /\ UNCHANGED op
     ELSE Goto("node_done") /\ op' = p
  /\ UNCHANGED <<sess, design, use, made, edits, stops, ran, exploreVars,
                 graph, pos, turn, bound, focus, wfp>>

(* The result of an operation decides what becomes of its node.             *)
\* Mutant: a refusal counts as done.
AlwaysDone(ok) == "node_done"
Ended(ok) == IF ok THEN "node_done" ELSE "node_failed"

(* The operation's preview is looked for in the session of this call, with  *)
(* the token that came with the step.  A node whose apply raised has        *)
(* failed, whether AEDT made the change or not.                             *)
ApplyNode(loss) ==
  /\ call.at = "node" /\ Ready.kind = "apply" /\ call.op # NoToken
  /\ \E ok \in BOOLEAN : Applies(call.s, Ready.tool, op, call.op, loss, ok) /\ Goto(Ended(ok))
  /\ UNCHANGED <<sess, use, made, edits, stops, exploreVars, graphVars>>

(* A poll finds the solver running, and comes back, or stopped.             *)
PollNode ==
  /\ call.at = "node" /\ Ready.kind = "poll"
  /\ \/ Goto("node_done")
     \/ turn < pos - 1 + MaxPolls /\ Goto("node_again")
  /\ UNCHANGED <<approvalVars, sessionVars, exploreVars, graphVars>>

(* A scorecard that fails has no edge to go on by: the graph ends.          *)
ScoreNode ==
  /\ call.at = "node" /\ Ready.kind = "score"
  /\ Goto("node_done") \/ Goto("node_ended")
  /\ UNCHANGED <<approvalVars, sessionVars, exploreVars, graphVars>>

RunNode ==
  \/ NodeFails \/ ReadNode \/ PollNode \/ ScoreNode
  \/ \E loss \in Losses : PreviewNode(loss) \/ ApplyNode(loss)

(* The result of the node, the handoff to the next one and the state of the *)
(* graph are written, and the preview of the step is dropped.               *)
RecordNode ==
  /\ call.at \in NodeSteps \ {"node"}
  /\ pos' = IF call.at = "node_done" /\ pos < Len(Nodes) THEN pos + 1 ELSE pos
  /\ turn' = turn + 1
  /\ graph' = CASE call.at = "node_failed" -> "failed"
                [] call.at = "node_ended" -> "succeeded"
                [] call.at = "node_done" /\ pos = Len(Nodes) -> "succeeded"
                [] OTHER -> "running"
  /\ wfp' = wfp \ {<<call.s, call.p>>}
  /\ call' = NoCall
  /\ UNCHANGED <<approvalVars, sessionVars, exploreVars, op, bound, focus>>

(* The process ends inside a node: the node run stays "running" for ever    *)
(* and the graph reports it as active.                                      *)
Stop ==
  /\ Crash
  /\ wfp' = {}
  /\ IF call.at \in NodeSteps
     THEN graph' = "stuck" /\ turn' = turn + 1
     ELSE UNCHANGED <<graph, turn>>
  /\ UNCHANGED <<pos, op, bound, focus>>

(* The user of the desktop activates the other design.                      *)
Switch ==
  /\ edits < use.edits
  /\ edits' = edits + 1 /\ focus' = 1 - focus
  /\ UNCHANGED <<approvalVars, sess, contexts, held, design, use, made, faults, stops, ran,
                 exploreVars, call, graph, pos, turn, op, bound, wfp>>

---------------------------------------------------------------------------
(* A caller presents any token there is when it works with the tools, and   *)
(* one of the resource's own, or none, in a plan or a workflow.             *)
OwnTokens(r) == {t \in DOMAIN issued : issued[t] = r} \cup {NoToken}

ToolCall ==
  \E s \in Sessions, tool \in use.tools, loss \in Losses :
    \/ PreviewTool(s, tool, loss)
    \/ \E x \in contexts, token \in DOMAIN issued \cup {NoToken} :
         x[1] = s /\ ApplyTool(s, tool, x[2], token, loss)

PlanCall ==
  \/ \E c \in use.plans : Propose(c) \/ Validate(c) \/ Promote(c) \/ \E s \in Sessions : PreviewPlan(s, c)
  \/ \E x \in pv, loss \in Losses :
       \E token \in OwnTokens(x) : ApplyPlan(x[1], x[2], token, loss)
  \/ \E result \in Outcomes, changed \in BOOLEAN : Execute(result, changed)
  \/ \E loss \in Losses : RegisterPlan(loss)
  \/ \E f \in Writes : WriteTrace(f)

FlowCall ==
  /\ use.flow # "none"
  /\ \/ \E s \in Sessions, loss \in Losses : PreviewStart(s, loss) \/ PreviewAdvance(s, loss)
     \/ \E x \in wfp, loss \in Losses :
          \E token \in OwnTokens(x) :
            \/ Row(x[2]) = start /\ Shown(x[2]) = focus /\ ApplyStart(x[1], token, loss)
            \/ \E opToken \in OwnTokens(<<x[1], op>>) :
                 ApplyAdvance(x[1], x[2], token, opToken, loss)

(* The calls and people's acts that leave the graph alone.                  *)
SessionCall ==
  \/ ToolCall \/ PlanCall
  \/ \E s \in Sessions : Attach(s)
  \/ \E s \in Sessions, f \in Writes : Release(s, f)
  \/ \E x \in contexts : Wait(x[1], x[2])
  \/ \E s \in Sessions, tool \in ReadTools \cup DirectTools : Unanswered(s, tool)
  \/ Edit

Person ==
  \/ \E r \in asked : Show(r)
  \/ \E r \in shown, yes \in BOOLEAN : Decide(r, yes)
  \/ \E r \in contexts : Cardinality(OwnTokens(r)) <= use.issues /\ Issue(r)

Next ==
  \/ SessionCall /\ UNCHANGED graphVars
  \/ FlowCall \/ RunNode \/ RecordNode
  \/ \E f \in Writes : Close(f) /\ wfp' = {} /\ UNCHANGED <<graph, pos, turn, op, bound, focus>>
  \/ Stop
  \/ Person /\ UNCHANGED <<sessionVars, exploreVars, call, graphVars>>
  \/ Tick /\ UNCHANGED <<sessionVars, exploreVars, call, graphVars>>
  \/ use.flow # "none" /\ Switch

Clock == Tick /\ UNCHANGED <<sessionVars, exploreVars, call, graphVars>>
(* The clock goes on; nobody has to answer, to poll or to apply.            *)
Spec == Init /\ [][Next]_vars /\ WF_vars(Clock)

---------------------------------------------------------------------------
Versions == {0, 1}
FlowTools == IF use.flow = "none" THEN {} ELSE {Nodes[i].tool : i \in DOMAIN Nodes}
(* What can be previewed with what a behaviour works with: a change of a     *)
(* version of the design, or a step from a state of the graph.              *)
ToolsOf(u) ==
  u.tools \cup IF u.flow = "none" THEN {} ELSE {Flows[u.flow][i].tool : i \in DOMAIN Flows[u.flow]}
Showable(u) ==
  (ToolsOf(u) \cup {explore(c) : c \in u.plans} \cup {start}) \X Versions \cup {advance} \X Nat
SessionPreviews == Showable(use)
(* All of it can be put to the authority.                                   *)
ResourcesSuffice == \A u \in Uses : Sessions \X Showable(u) \subseteq Resources

TypeOK ==
  /\ ApprovalTypeOK
  /\ sess \in [Sessions -> DesktopNames \cup {"new", "gone"}]
  /\ design \in Versions /\ focus \in Versions /\ bound \in Versions /\ use \in Uses
  /\ contexts \cup pv \cup wfp \subseteq Sessions \X SessionPreviews
  /\ held \subseteq DesktopNames \X SessionPreviews
  /\ made \in 0 .. use.previews /\ edits \in 0 .. use.edits
  /\ faults \in 0 .. use.faults /\ stops \in 0 .. use.stops
  /\ tainted \subseteq Sessions /\ promoted \subseteq use.plans
  /\ \A c \in Plans : cand[c] \in {"none", "lost"} \cup DOMAIN Moves
                      /\ trace[c] \in DOMAIN Moves /\ outcome[c] \in {"none"} \cup Outcomes
  /\ graph \in {"none", "running", "stuck", "succeeded", "failed"}
  /\ turn \in Nat /\ (use.flow # "none" => pos \in DOMAIN Nodes)
  /\ Idle \/ call.at \in NodeSteps \/ (call.at \in PlanSteps /\ call.p \in SessionPreviews)

(* A token makes one change at most, and that change is the one its         *)
(* question showed: the same tool, plan or step, on the design or the state *)
(* of the graph as it was shown.  Holds over repeated previews, edits by    *)
(* the user, released sessions, lost answers and ends of the process.       *)
ApprovedChanges ==
  \A t \in Tokens :
    ran[t] # << >> => /\ Len(ran[t]) = 1
                      /\ t \in DOMAIN issued /\ issued[t][2] = ran[t][1]

Phases == [s \in Sessions |-> IF sess[s] \in DesktopNames THEN "open" ELSE sess[s]]
Ledger == INSTANCE ChangeLedger WITH phase <- Phases, grants <- issued, changes <- ran

(* The manager implements the ledger of changes, over restarts, late answers *)
(* and dialogs that outlive their session: what a token allows stays as it   *)
(* is, a change is the one allowed by a token that made none, and it is made *)
(* while the session it was allowed for is attached; no session comes back.  *)
ImplementsChangeLedger == Ledger!Spec

(* What belongs to a session goes with it, whichever of the sessions of its *)
(* desktop was released: nothing that is left can be applied, waited for    *)
(* or keep another session tainted.                                         *)
ReleasedForgotten ==
  /\ \A x \in contexts \cup pv : Known(x[1])
  /\ \A s \in tainted : Known(s)

(* The trace of a plan tells what happened to it: a final state that says   *)
(* how the change ended is how it ended, one that says it was not made is   *)
(* not the trace of a plan that ran, and between two calls no execution is  *)
(* without its state, unless a write of the trace failed.  Nothing becomes   *)
(* a candidate capability but what was verified.                            *)
TraceTruth ==
  \A c \in Plans :
    /\ trace[c] \in {"verified", "rolled_back", "rollback_failed"} => outcome[c] = trace[c]
    /\ c \in promoted => outcome[c] = "verified"
    /\ faults = 0 /\ trace[c] \in {"expired", "rejected"} => outcome[c] = "none"
    /\ faults = 0 /\ stops = 0 /\ Idle /\ outcome[c] # "none" =>
         trace[c] = IF outcome[c] \in {"error", "stale"} THEN "failed" ELSE outcome[c]

(* The graph knows what it did to the design: between two calls, the        *)
(* operations that were made are those of the apply nodes it has passed.    *)
(* Only at an apply node that failed, or at which the process ended, it     *)
(* cannot tell: that node's operation, and no other, was made or not.       *)
Operations == {t \in Tokens : ran[t] # << >> /\ Row(ran[t][1]) \in FlowTools}
OperationsMade == Cardinality(Operations)
AppliesPassed == Cardinality({i \in 1 .. pos - 1 : Nodes[i].kind = "apply"})
InDoubt == Ready.kind = "apply" /\ (graph \in {"stuck", "failed"} \/ call.at = "node_failed")
GraphKnowsDesign ==
  use.flow # "none" /\ Idle =>
    IF InDoubt THEN OperationsMade \in AppliesPassed .. AppliesPassed + 1
    ELSE OperationsMade =
           AppliesPassed + IF graph = "succeeded" /\ Ready.kind = "apply" THEN 1 ELSE 0

(* After a rollback that failed, no other plan changes the design in that   *)
(* session: with the desktop host, whose single question keeps a second     *)
(* plan from being approved before the first has ended.                     *)
TaintHolds ==
  [][\A c \in Plans \ ReadOnly :
       mode = "desktop" /\ outcome'[c] # outcome[c] => call.s \notin tainted]_vars

(* The desktop host is never held for good: a question nobody answers, or   *)
(* an approval nobody uses, makes room for the next one.                    *)
HostFreed == []<>(mode = "desktop" => ~Busy)

(* workflows.py tells the caller to approve the nested operation and to     *)
(* pass its token with the next advance: so that advance can be put to the  *)
(* host while the approval of the operation waits to be used.               *)
NestedApproval ==
  [][\A s \in Sessions :
       PreviewAdvance(s, "none") /\ Required /\ <<s, op>> \in DOMAIN records
         /\ records[<<s, op>>].state = "approved" /\ Live(records[<<s, op>>])
         => <<s, <<advance, turn>>>> \in contexts']_vars

---------------------------------------------------------------------------
(* The inductive invariants.                                                *)

(* A tool, a preview, and a resource of a session that was attached.        *)
IsTool(tool) == tool = Guarded(tool.action, tool.command)
Shaped(p) == p = <<p[1], p[2]>> /\ IsTool(p[1])
Begun(r) == r[1] \in Sessions /\ sess[r[1]] # "new" /\ Shaped(r[2])

(* The call under way, once its session was looked up, is of a session that *)
(* is attached.                                                             *)
CallFits ==
  /\ call = [at |-> call.at, s |-> call.s, p |-> call.p, token |-> call.token, op |-> call.op]
  /\ call.at \in {"previewed", "register", "authorized", "execute", "applied", "closed"} =>
       call.s \in Sessions /\ Known(call.s) /\ Shaped(call.p)
  /\ call.at = "node" => call.s \in Sessions /\ use.flow # "none"

(* Whatever is put down belongs to a session that was attached, and what    *)
(* can be used to one that still is.                                        *)
SessionsInv ==
  /\ sess \in [Sessions -> DesktopNames \cup {"new", "gone"}]
  /\ use \in Uses /\ (use.flow # "none" => pos \in DOMAIN Nodes)
  /\ \A r \in contexts \cup pv \cup wfp \cup DOMAIN records \cup asked \cup shown : Begun(r)
  /\ \A t \in DOMAIN issued : Begun(issued[t])
  /\ \A r \in contexts \cup pv : Known(r[1])
  /\ \A s \in tainted : s \in Sessions /\ Known(s)
  /\ CallFits

(* A token is in the record of the resource it was issued for, and nowhere  *)
(* else; only the desktop host has dialogs.                                 *)
TokensPlaced ==
  /\ mode \in Modes
  /\ DOMAIN issued \subseteq Tokens
  /\ \A r \in DOMAIN records :
       /\ records[r].token # NoToken =>
            records[r].token \in DOMAIN issued /\ issued[records[r].token] = r
       /\ mode = "automatic" => records[r].state = "approved"
  /\ \A t \in DOMAIN claims : t \in DOMAIN issued /\ claims[t].for = issued[t]
  /\ IF mode = "hmac" THEN DOMAIN records = {} ELSE DOMAIN claims = {}
  /\ mode # "desktop" => asked = {} /\ shown = {}

(* A token that cannot be used again: its record says so, its nonce was     *)
(* consumed, or its session is over.                                        *)
Used(t) == \A r \in DOMAIN records : records[r].token = t => records[r].state = "used"
Claimable(t) == t \in DOMAIN claims \ consumed
Spent(t) ==
  /\ t \in DOMAIN issued /\ Used(t)
  /\ Claimable(t) => sess[issued[t][1]] = "gone"

(* The token of a change is spent, before the change of a plan is made.     *)
ChangesInv ==
  /\ ran = [t \in Tokens |-> ran[t]]
  /\ \A t \in Tokens : ran[t] # << >> => ran[t] = <<issued[t][2]>> /\ Spent(t)
  /\ call.at \in {"authorized", "execute"} /\ call.token \in Tokens =>
       /\ Spent(call.token) /\ ran[call.token] = << >>
       /\ issued[call.token] = <<call.s, call.p>>

(* The call on a plan, and the previews of a plan that may still be applied. *)
CallOf(c) == call.at \in PlanSteps /\ Plan(call.p) = c
ThisCall == <<call.s, call.p>>
PreviewsOf(c) == {x \in pv : Plan(x[2]) = c}
Early == {"none", "proposed", "validated"}
Finals == {"verified", "rolled_back", "rollback_failed"}
Told(result) == IF result \in {"error", "stale"} THEN "failed" ELSE result

(* A plan is previewed once and executed from that preview; what its trace   *)
(* says of the end stays so.                                                *)
PlanInv(c) ==
  /\ trace[c] \in DOMAIN Moves /\ outcome[c] \in {"none"} \cup Outcomes
  /\ cand[c] = "none" => trace[c] = "none" /\ ~CallOf(c)
  /\ cand[c] = "lost" => PreviewsOf(c) = {} /\ ~CallOf(c)
  /\ cand[c] \in Early =>
       /\ outcome[c] = "none" /\ trace[c] \notin Finals
       /\ PreviewsOf(c) # {} => CallOf(c) /\ call.at = "previewed"
  /\ \A x, y \in PreviewsOf(c) : x = y
  /\ trace[c] \in Finals => outcome[c] = trace[c] /\ PreviewsOf(c) = {}
  /\ c \in promoted => trace[c] = "verified"
(* The step of the call fits the plan.                                      *)
CallInv(c) ==
  CallOf(c) =>
    CASE call.at = "validated" -> cand[c] = "proposed"
      [] call.at = "previewed" -> cand[c] = "validated" /\ ThisCall \in PreviewsOf(c)
      [] call.at = "failed" -> PreviewsOf(c) \subseteq {ThisCall}
      [] call.at = "stale" -> PreviewsOf(c) = {} /\ outcome[c] = "stale"
      [] call.at \in {"applied", "closed"} -> PreviewsOf(c) = {} /\ outcome[c] \in Finals
      [] OTHER -> ThisCall \in PreviewsOf(c)
(* With no write failed, the trace keeps up with the manager.               *)
FaultlessInv(c) ==
  faults = 0 =>
    /\ cand[c] \in {"proposed", "validated"} => trace[c] = cand[c]
    /\ PreviewsOf(c) # {} =>
         /\ trace[c] \in {"previewed", "approved"} \/ (CallOf(c) /\ call.at = "previewed")
         /\ outcome[c] = "none" \/ (CallOf(c) /\ call.at = "failed")
    /\ trace[c] \in {"expired", "rejected"} => outcome[c] = "none"
    /\ cand[c] # "lost" /\ outcome[c] # "none" =>
         \/ trace[c] = Told(outcome[c])
         \/ CallOf(c) /\ call.at \in {"failed", "stale", "applied", "closed"}
    /\ CallOf(c) =>
         CASE call.at = "failed" -> /\ trace[c] \in {"proposed", "validated", "previewed", "approved"}
                                    /\ outcome[c] \in {"none", "error"}
           [] call.at \in {"stale", "applied"} -> trace[c] \in {"previewed", "approved"}
           [] call.at = "closed" -> trace[c] = "applied"
           [] OTHER -> TRUE
TraceOf(c) ==
  PlanInv(c) /\ CallInv(c) /\ FaultlessInv(c) /\ (stops = 0 => cand[c] # "lost")
TraceInv ==
  /\ faults \in Nat /\ stops \in Nat
  /\ DOMAIN cand = Plans /\ DOMAIN trace = Plans /\ DOMAIN outcome = Plans
  /\ \A c \in Plans : TraceOf(c)

(* With the desktop host, one plan is approved at a time, and the next one   *)
(* has to ask before the session is tainted.  Occupied: the steps at which a *)
(* plan is being carried out.                                                *)
Occupied == {"authorized", "execute", "applied", "closed"}
Waits(r) == Plan(r[2]) \notin ReadOnly
AboutPlans ==
  /\ \A r \in pv : Plan(r[2]) \in Plans
  /\ call.at \in PlanSteps => Plan(call.p) \in Plans
  /\ call.at \in {"previewed", "register"} => call.s \notin tainted
  /\ \A c \in Plans : outcome[c] = "rollback_failed" => c \notin ReadOnly
HasToken == \A r \in DOMAIN records : records[r].state = "approved" => records[r].token # NoToken
PutToHost ==
  \A r \in pv : Waits(r) =>
    \/ r \in DOMAIN records
    \/ call.at \in {"previewed", "register"} /\ r = ThisCall
NoneTainted ==
  \A r \in pv \cap DOMAIN records : Waits(r) /\ Live(records[r]) => r[1] \notin tainted
HostFree == call.at \in Occupied /\ Waits(ThisCall) => ~Busy
CallUntainted == call.at \in {"authorized", "execute"} /\ Waits(ThisCall) => call.s \notin tainted
TaintInv ==
  /\ AboutPlans
  /\ mode = "desktop" => HasToken /\ PutToHost /\ NoneTainted /\ HostFree /\ CallUntainted

(* The operations that were made are those of the apply nodes passed, and of *)
(* the one that has ended and is not recorded yet, or is the last; that of   *)
(* an apply node that failed was made or not.                                *)
IsPlan(p) == Row(p) = explore(Plan(p))
Made == IF (call.at = "node_done" \/ graph = "succeeded") /\ Ready.kind = "apply" THEN 1 ELSE 0
Counted ==
  /\ IsFiniteSet(Operations)
  /\ IF InDoubt THEN OperationsMade \in AppliesPassed .. AppliesPassed + 1
     ELSE OperationsMade = AppliesPassed + Made
PlanRows ==
  /\ \A r \in pv : IsPlan(r[2])
  /\ call.at \in PlanSteps => IsPlan(call.p)
FlowInv ==
  /\ call.at \in NodeSteps => graph = "running"
  /\ call.at = "node_ended" => Ready.kind # "apply"
  /\ Counted
GraphInv == PlanRows /\ (use.flow # "none" => FlowInv)

IInv == SessionsInv /\ TokensPlaced /\ ChangesInv
=============================================================================
