---------------------------- MODULE LiveSession -----------------------------
(***************************************************************************)
(* The manager of live AEDT sessions (one process, one call at a time),    *)
(* its backends and the design they work on.  A change is previewed, which *)
(* asks for its approval, and applied with the token of that approval.  An *)
(* exploratory plan goes the same way with a trace of its states in files, *)
(* written before the manager's own record of them.                        *)
(*                                                                         *)
(* All sessions are of one AEDT desktop, which a session names by its      *)
(* process or by its port; in the direct access each name has a backend of *)
(* its own.  The design is one of two versions: every change, the user's   *)
(* own included, leads to the other, so that it can also come back.        *)
(*                                                                         *)
(* The dialog, the clock and the user act between any two steps.  A call   *)
(* of a plain tool is one step: it looks at the authority once and at the  *)
(* design once.  A call on a plan is a step for each thing that can fail.  *)
(***************************************************************************)
EXTENDS LiveApproval, LiveTools, Sequences

CONSTANTS
  Sessions,      \* 1 .. n: the session ids that will be given out, in this order
  Plans,         \* names of exploratory plans
  ReadOnly,      \* the plans that change nothing and need no approval
  Uses           \* bound: what a behaviour works with (some tools, some plans, a
                 \* flow, the sessions attached, by their desktop's name) and how often there is a preview
                 \* made with a tool or repeated, a token issued for one resource, an
                 \* act of the user, a request, answer or write that fails, and an end
                 \* of the manager's process

ASSUME PlansAssumption == ReadOnly \subseteq Plans
ASSUME SessionsAssumption == Sessions = 1 .. Cardinality(Sessions)

VARIABLES
  sess,       \* session id -> "new", the name of its desktop, or "gone"
  contexts,   \* _approval_contexts: the resources whose preview may be applied
  held,       \* the backends' _previews: <<desktop name, preview>>
  design,     \* the version of the design
  use,        \* what this behaviour works with
  made, edits, faults, stops,   \* what the bounds in use count
  ran,        \* token -> the changes made under it, with the design they met
  pv,         \* _exploration_previews: resources
  tainted,    \* _tainted_exploration_sessions
  cand,       \* _exploration_candidates: plan -> status
  trace,      \* the trace files: plan -> state
  outcome,    \* plan -> what its execution came to
  promoted,   \* the plans with a directory under the candidate root
  call        \* the call that is under way

sessionVars == <<sess, contexts, held, design, use, made, edits, faults, stops, ran>>
exploreVars == <<pv, tainted, cand, trace, outcome, promoted>>
liveVars == <<approvalVars, sessionVars, exploreVars, call>>

DesktopNames == {"pid", "port"}
NoPreview == <<Guarded("", ""), 0>>
(* A step of a call that is not finished: which step, of which session and  *)
(* preview, with which tokens.                                              *)
Call(at, s, p, token) == [at |-> at, s |-> s, p |-> p, token |-> token, op |-> NoToken]
NoCall == Call("idle", 0, NoPreview, NoToken)
Idle == call.at = "idle"
Goto(at) == call' = [call EXCEPT !.at = at]

\* Mutant: an id that was given out is found, released or not.
GivenOut(s) == sess[s] # "new"
Known(s) == sess[s] \in DesktopNames
Row(p) == p[1]
Shown(p) == p[2]
Plan(p) == Row(p).command
Other(version) == 1 - version

Lose(loss) ==
  /\ loss # "none" => mode = "desktop" /\ faults < use.faults
  /\ faults' = IF loss = "none" THEN faults ELSE faults + 1
Fail(f) ==
  /\ f # "ok" => faults < use.faults
  /\ faults' = IF f = "ok" THEN faults ELSE faults + 1

(* _register_approval: the context is put down first and taken back when    *)
(* the authority does not answer or refuses.                                *)
Asks(s, p, loss) ==
  /\ Register(<<s, p>>, loss)
  /\ contexts' = IF RegisterAnswer(<<s, p>>, loss) = "refused"
                 THEN contexts \ {<<s, p>>} ELSE contexts \cup {<<s, p>>}

(* _require_approval: the preview is one of this session's, made for this   *)
(* action, and the authority accepts the token.                             *)
HasContext(s, p, action) == <<s, p>> \in contexts /\ Row(p).action = action

(* A tool call that is not answered in time: the broker ends the worker of  *)
(* the desktop, and the previews its backend held are gone, while their     *)
(* contexts and approvals stay.  The worker is the brokered access's; with  *)
(* one name of the desktop, as in the uses with faults, it is the backend.  *)
Answers == {"ok", "unanswered"}
WorkerEnds(s, f) ==
  /\ Fail(f)
  /\ held' = IF f = "ok" THEN held ELSE {h \in held : h[1] # sess[s]}

(* What the backend does with <command>_apply: it has the preview under its *)
(* own name and finds the design as it was shown, or it refuses; what fails *)
(* is taken back, as far as that can be done, and keeps its preview.        *)
CanRun(s, tool, p) ==
  <<sess[s], p>> \in held /\ Row(p).command = tool.command /\ Shown(p) = design

Runs(tool, token) ==
  /\ design' = Other(design)
  /\ ran' = [ran EXCEPT ![token] = Append(@, <<tool, design>>)]

(* The manager's apply_x: the token is spent before the backend is asked,   *)
(* and the context goes only when the backend has answered.  An exception,  *)
(* the backend's own or that of a call without an answer, says nothing of   *)
(* the design: AEDT may have made the change.                               *)
Applies(s, tool, p, token, loss, ok) ==
  /\ HasContext(s, p, tool.action)
  /\ Verify(<<s, p>>, token, loss)
  /\ \/ /\ ok /\ VerifyAnswer(<<s, p>>, token, loss) /\ CanRun(s, tool, p)
        /\ Runs(tool, token)
        /\ held' = held \ {<<sess[s], p>>} /\ contexts' = contexts \ {<<s, p>>}
        /\ UNCHANGED faults
     \/ /\ ~ok /\ VerifyAnswer(<<s, p>>, token, loss)
        /\ (CanRun(s, tool, p) /\ Runs(tool, token)) \/ UNCHANGED <<design, ran>>
        /\ \E f \in Answers : WorkerEnds(s, f)
        /\ UNCHANGED contexts
     \/ /\ ~ok /\ ~VerifyAnswer(<<s, p>>, token, loss)
        /\ Lose(loss)
        /\ UNCHANGED <<design, held, ran, contexts>>

LiveInit ==
  /\ ApprovalInit
  /\ sess = [s \in Sessions |-> "new"] /\ contexts = {} /\ held = {}
  /\ design = 0 /\ use \in Uses /\ mode \in use.modes
  /\ made = 0 /\ edits = 0 /\ faults = 0 /\ stops = 0
  /\ ran = [t \in Tokens |-> << >>]
  /\ pv = {} /\ tainted = {}
  /\ cand = [c \in Plans |-> "none"] /\ trace = [c \in Plans |-> "none"]
  /\ outcome = [c \in Plans |-> "none"] /\ promoted = {}
  /\ call = NoCall

---------------------------------------------------------------------------
(* attach: a new session id each time; the backend of the desktop's name is *)
(* taken over when it is there.                                             *)
Attach(s) ==
  /\ Idle /\ sess[s] = "new" /\ \A q \in Sessions : q < s => sess[q] # "new"
  /\ s \in DOMAIN use.attached /\ Cardinality({q \in Sessions : Known(q)}) < use.atonce
  /\ sess' = [sess EXCEPT ![s] = use.attached[s]]
  /\ UNCHANGED <<approvalVars, contexts, held, design, use, made, edits, faults, stops, ran,
                 exploreVars, call>>

(* preview_x.                                                               *)
PreviewTool(s, tool, loss) ==
  LET p == <<tool, design>> IN
  /\ Idle /\ Known(s) /\ made < use.previews
  /\ Lose(loss)
  /\ held' = held \cup {<<sess[s], p>>}
  /\ Asks(s, p, loss)
  /\ made' = made + 1
  /\ UNCHANGED <<sess, design, use, edits, stops, ran, exploreVars, call>>

(* apply_x.                                                                 *)
ApplyTool(s, tool, p, token, loss) ==
  /\ Idle /\ Known(s)
  /\ \E ok \in BOOLEAN : Applies(s, tool, p, token, loss, ok)
  /\ UNCHANGED <<sess, use, made, edits, stops, exploreVars, call>>

(* A tool without a preview leaves everything as it was when it is          *)
(* answered, and when it is not, the worker ends.                           *)
Unanswered(s, tool) ==
  /\ Idle /\ Known(s)
  /\ tool \in ReadTools \/ (tool \in DirectTools /\ mode # "automatic")
  /\ WorkerEnds(s, "unanswered")
  /\ UNCHANGED <<approvalVars, sess, contexts, design, use, made, edits, stops, ran,
                 exploreVars, call>>

(* The user changes the design by hand.                                     *)
Edit ==
  /\ edits < use.edits
  /\ edits' = edits + 1 /\ design' = Other(design)
  /\ UNCHANGED <<approvalVars, sess, contexts, held, use, made, faults, stops, ran,
                 exploreVars, call>>

---------------------------------------------------------------------------
(* Exploratory plans.  The trace store's table of states:                   *)
Moves ==
  [none |-> {},
   proposed |-> {"validated", "rejected", "failed"},
   validated |-> {"previewed", "rejected", "failed"},
   previewed |-> {"approved", "applied", "rejected", "expired", "failed"},
   approved |-> {"applied", "expired", "failed"},
   applied |-> {"verified", "rolled_back", "rollback_failed", "failed"},
   verified |-> {}, rolled_back |-> {}, rollback_failed |-> {}, failed |-> {},
   rejected |-> {}, expired |-> {}]
Sealed(c) == trace[c] \in {"verified", "rolled_back", "rollback_failed", "failed",
                           "rejected", "expired"}
(* A write to the files fails before or after the event is on disk.         *)
Writes == {"ok", "before", "after"}

Propose(c) ==
  /\ Idle /\ cand[c] = "none"
  /\ cand' = [cand EXCEPT ![c] = "proposed"] /\ trace' = [trace EXCEPT ![c] = "proposed"]
  /\ UNCHANGED <<approvalVars, sessionVars, pv, tainted, outcome, promoted, call>>

(* validate: the validator's report, or its exception, is written down.     *)
Validate(c) ==
  /\ Idle /\ cand[c] = "proposed"
  /\ \E at \in {"validated", "failed"} :
       call' = Call(at, 0, <<explore(c), 0>>, NoToken)
  /\ UNCHANGED <<approvalVars, sessionVars, exploreVars>>

\* Mutant: a tainted session takes another plan.
AnySession(s) == TRUE
Explorable(s) == s \notin tainted

PreviewPlan(s, c) ==
  LET p == <<explore(c), design>> IN
  /\ Idle /\ Known(s) /\ Explorable(s) /\ cand[c] = "validated"
  /\ \/ /\ held' = held \cup {<<sess[s], p>>} /\ pv' = pv \cup {<<s, p>>}
        /\ call' = Call("previewed", s, p, NoToken)
     \/ /\ call' = Call("failed", s, p, NoToken)
        /\ UNCHANGED <<held, pv>>
  /\ UNCHANGED <<approvalVars, sess, contexts, design, use, made, edits, faults, stops, ran,
                 tainted, cand, trace, outcome, promoted>>

(* The registration, and what its answer says of the decision.              *)
AfterAnswer(answer) ==
  CASE answer = "approved" -> "decided"
    [] answer \in {"rejected", "expired"} -> answer
    [] answer = "refused" -> "failed"
    [] OTHER -> "idle"

RegisterPlan(loss) ==
  LET answer == RegisterAnswer(<<call.s, call.p>>, loss) IN
  /\ call.at = "register"
  /\ Lose(loss)
  /\ Asks(call.s, call.p, loss)
  /\ pv' = IF answer = "refused" THEN pv \ {<<call.s, call.p>>} ELSE pv
  /\ IF AfterAnswer(answer) = "idle" THEN call' = NoCall ELSE Goto(AfterAnswer(answer))
  /\ UNCHANGED <<sess, held, design, use, made, edits, stops, ran,
                 tainted, cand, trace, outcome, promoted>>

(* wait_for_approval: polls; for a plan the decision is written down.       *)
Wait(s, p) ==
  LET next == AfterAnswer(PollAnswer(<<s, p>>)) IN
  /\ Idle /\ Known(s) /\ <<s, p>> \in contexts /\ mode # "hmac"
  /\ Poll(<<s, p>>)
  /\ call' = IF <<s, p>> \in pv /\ next # "idle" THEN Call(next, s, p, NoToken) ELSE NoCall
  /\ UNCHANGED <<sessionVars, exploreVars>>

ApplyPlan(s, p, token, loss) ==
  /\ Idle /\ Known(s) /\ <<s, p>> \in pv
  /\ IF Plan(p) \in ReadOnly
     THEN /\ loss = "none" /\ token = NoToken
          /\ call' = Call("execute", s, p, NoToken)
          /\ UNCHANGED <<approvalVars, faults>>
     ELSE /\ HasContext(s, p, explore(Plan(p)).action)
          /\ Lose(loss)
          /\ Verify(<<s, p>>, token, loss)
          /\ call' = IF VerifyAnswer(<<s, p>>, token, loss)
                     THEN Call("authorized", s, p, token) ELSE NoCall
  /\ UNCHANGED <<sess, contexts, held, design, use, made, edits, stops, ran, exploreVars>>

(* exploration_apply: an exception (also one raised after the change was    *)
(* made), a preview that is stale, or a result.                             *)
Outcomes == {"error", "stale", "verified", "rolled_back", "rollback_failed"}
MayEnd(s, p, result) ==
  CASE result = "error" -> TRUE
    [] result = "stale" -> <<sess[s], p>> \in held /\ Shown(p) # design
    [] result = "rollback_failed" -> <<sess[s], p>> \in held /\ Shown(p) = design
                                     /\ Plan(p) \notin ReadOnly
    [] OTHER -> <<sess[s], p>> \in held /\ Shown(p) = design
Changes(result) == result \in {"error", "verified", "rollback_failed"}

Execute(result, changed) ==
  LET s == call.s
      p == call.p IN
  /\ call.at = "execute" /\ MayEnd(s, p, result)
  /\ changed => /\ Changes(result) /\ Plan(p) \notin ReadOnly
                /\ <<sess[s], p>> \in held /\ Shown(p) = design
  /\ IF changed
     THEN /\ design' = Other(design)
          /\ ran' = [ran EXCEPT ![call.token] = Append(@, <<Row(p), design>>)]
     ELSE UNCHANGED <<design, ran>>
  /\ held' = IF result = "error" THEN held ELSE held \ {<<sess[s], p>>}
  /\ outcome' = [outcome EXCEPT ![Plan(p)] = result]
  /\ IF result = "error" THEN UNCHANGED <<contexts, pv>>
     ELSE contexts' = contexts \ {<<s, p>>} /\ pv' = pv \ {<<s, p>>}
  /\ Goto(CASE result = "error" -> "failed" [] result = "stale" -> "stale"
            [] OTHER -> "applied")
  /\ UNCHANGED <<approvalVars, sess, use, made, edits, faults, stops, tainted, cand, trace,
                 promoted>>

(* The writes of a trace: the state each step of a call wants to reach.     *)
\* Mutant: what was applied counts as verified.
WantedVerified(at, c) == IF at = "closed" THEN "verified" ELSE at
Wanted(at, c) ==
  CASE at \in {"decided", "authorized"} -> "approved"
    [] at \in {"failed", "stale"} -> "failed"
    [] at \in {"rejected", "expired"} -> IF trace[c] = "approved" THEN "expired" ELSE at
    [] at = "closed" -> outcome[c]
    [] OTHER -> at
(* An approval that is there already is not written again (idempotent), and *)
(* a sealed trace does not become failed.                                   *)
Written(at, c) ==
  \/ at \in {"decided", "authorized", "rejected", "expired"} /\ trace[c] = Wanted(at, c)
  \/ at = "failed" /\ Sealed(c)
WriteSteps == {"validated", "previewed", "decided", "rejected", "expired", "failed",
               "authorized", "stale", "applied", "closed"}
NextStep(at, c) ==
  CASE at = "previewed" /\ c \notin ReadOnly -> "register"
    [] at = "authorized" -> "execute"
    [] at = "applied" -> "closed"
    [] OTHER -> "idle"

WriteTrace(f) ==
  LET at == call.at
      r == <<call.s, call.p>>
      c == Plan(call.p)
      moves == Wanted(at, c) \in Moves[trace[c]]
      done == f = "ok" /\ (Written(at, c) \/ moves)
      forgets == done /\ at \in {"failed", "rejected", "expired"}
  IN
  /\ at \in WriteSteps
  /\ Fail(f)
  /\ trace' = IF f # "before" /\ ~Written(at, c) /\ moves
              THEN [trace EXCEPT ![c] = Wanted(at, c)] ELSE trace
  /\ cand' = IF done /\ at # "applied" /\ ~(at = "failed" /\ Written(at, c))
             THEN [cand EXCEPT ![c] = Wanted(at, c)] ELSE cand
  /\ contexts' = IF forgets THEN contexts \ {r} ELSE contexts
  /\ pv' = IF forgets \/ (at = "previewed" /\ ~done) THEN pv \ {r} ELSE pv
  /\ tainted' = IF done /\ at = "closed" /\ outcome[c] = "rollback_failed"
                THEN tainted \cup {call.s} ELSE tainted
  /\ IF done /\ NextStep(at, c) # "idle" THEN Goto(NextStep(at, c)) ELSE call' = NoCall
  /\ UNCHANGED <<approvalVars, sess, held, design, use, made, edits, stops, ran, outcome,
                 promoted>>

(* promote_capability_candidate: of a plan this process has proposed, whose *)
(* trace is sealed as verified.  The files are written aside and renamed    *)
(* into place; a second promotion finds them there.                         *)
Promotable(c) == cand[c] \notin {"none", "lost"} /\ trace[c] = "verified"

Promote(c) ==
  /\ Idle /\ Promotable(c)
  /\ promoted' = promoted \cup {c}
  /\ UNCHANGED <<approvalVars, sessionVars, pv, tainted, cand, trace, outcome, call>>

---------------------------------------------------------------------------
(* _abandon_exploration_trace for a set of plans; a failing store is        *)
(* passed over.                                                             *)
Abandoned(c) == IF trace[c] \in {"previewed", "approved"} THEN "expired" ELSE "rejected"
Abandons(cs, f) ==
  LET left == {c \in cs : ~Sealed(c) /\ Abandoned(c) \in Moves[trace[c]]} IN
  /\ Fail(f)
  /\ trace' = [c \in Plans |-> IF c \in left /\ f # "before" THEN Abandoned(c) ELSE trace[c]]
  /\ cand' = [c \in Plans |-> IF c \in left /\ f = "ok" THEN Abandoned(c) ELSE cand[c]]

(* release: every session of the desktop ends, and the backend of the name  *)
(* that was released.                                                       *)
Released == {q \in Sessions : Known(q)}
\* Mutant: the contexts outlive the session.
Kept(rs) == rs
Forgotten(rs) == {r \in rs : r[1] \notin Released}

Release(s, f) ==
  /\ Idle /\ Known(s)
  /\ Abandons({Plan(r[2]) : r \in {x \in pv : x[1] \in Released}}, f)
  /\ held' = {h \in held : h[1] # sess[s]}
  /\ sess' = [q \in Sessions |-> IF q \in Released THEN "gone" ELSE sess[q]]
  /\ contexts' = Forgotten(contexts) /\ pv' = Forgotten(pv)
  /\ tainted' = tainted \ Released
  /\ UNCHANGED <<approvalVars, design, use, made, edits, stops, ran, outcome, promoted,
                 call>>

(* The process ends, by close() between two calls or anywhere; the desktop  *)
(* host, the trace files and AEDT live on, the authorities inside the       *)
(* process forget.  Plans are not proposed again: a later proposal has a    *)
(* trace of its own.                                                        *)
Ends ==
  /\ stops < use.stops /\ stops' = stops + 1
  /\ sess' = [s \in Sessions |-> IF Known(s) THEN "gone" ELSE sess[s]]
  /\ contexts' = {} /\ held' = {} /\ pv' = {} /\ tainted' = {}
  /\ records' = IF mode = "automatic" THEN << >> ELSE records
  /\ consumed' = {}
  /\ UNCHANGED <<mode, asked, shown, claims, issued, passes,
                 design, use, made, edits, ran, outcome, promoted>>

Close(f) ==
  /\ Idle /\ Ends
  /\ Abandons({c \in Plans : cand[c] # "lost"}, f)
  /\ UNCHANGED call
Crash ==
  /\ Ends
  /\ cand' = [c \in Plans |-> IF cand[c] = "none" THEN "none" ELSE "lost"]
  /\ call' = NoCall
  /\ UNCHANGED <<trace, faults>>
=============================================================================
