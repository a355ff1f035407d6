---------------------------- MODULE LiveAnalysis -----------------------------
(***************************************************************************)
(* Solves of the live AEDT backend: a start that does not wait, a status     *)
(* that is asked for again and again, a cancel and the export of results.   *)
(* The backend has no handle on a solve.  AEDT tells only whether something *)
(* is being simulated; whether a run has succeeded is concluded from what   *)
(* was seen of it and from the files of the project's results.              *)
(*                                                                          *)
(* AEDT is shared: other solves are started and stopped by others, a solve  *)
(* ends with or without a solution, and files are written late.  The worker *)
(* that keeps the records may be lost at any time; AEDT solves on.          *)
(***************************************************************************)
EXTENDS LiveProject, LiveReads

CONSTANTS
  Setups,
  MaxEvidence,    \* _MAX_SOLUTION_EVIDENCE_ATTEMPTS
  MaxSolves,      \* bound: solves started, by anybody
  OldSolutions,   \* bound: the sets of setups of which a solution is listed at first
  Clients         \* bound: what one behaviour is about: "files", "solves", "reads"

ASSUME LimitsAssumption == {MaxEvidence, MaxSolves} \subseteq Nat
ASSUME SolutionsAssumption == OldSolutions \subseteq SUBSET Setups

VARIABLES
  client,     \* what this behaviour is about
  sims,       \* what AEDT has accepted: which setup, and whether it is being solved
  solution,   \* setup -> AEDT lists a solution of it, be it an old one
  solves,     \* how many solves were accepted
  changed,    \* the setups since whose run's snapshot the results have changed
  held,       \* the preview of a start, a cancel or an export
  starting,   \* the call that starts a solve: where it is, and since its snapshot
              \* whether the results have changed and a solve of its setup has succeeded
              \* (touched, solved), and whether a solution was listed then (old)
  runs,       \* _analysis_runs
  active,     \* _active_analysis_runs: the setup of the newest run
  endedSince, \* history: the setups since whose run's start a simulation has ended
  solvedSince,\* history: those of which a solve has succeeded since its snapshot
  hadSolution,\* history: those of which a solution was listed at its snapshot
  stopped     \* history: those whose run was canceled before its evidence was good

aedtVars == <<sims, solution, solves>>
recordVars == <<held, starting, runs, active, stopped>>
historyVars == <<endedSince, solvedSince, hadSolution>>
solveVars == <<aedtVars, changed, recordVars, historyVars>>
vars == <<client, projectVars, solveVars, readVars>>

NoSetup == "no setup"
Sims == [setup : Setups, solving : BOOLEAN]
Running == \E j \in sims : j.solving

(* A record: where it stands, whether a simulation was seen, whether the     *)
(* grace period has gone by while it was submitted, and the evidence.       *)
Pending == {"submitted", "running"}
Over == {"not_running", "not_running_unverified"}
NoRun == [state |-> "none", seen |-> FALSE, late |-> FALSE, fresh |-> FALSE,
          tries |-> 0]

Held(kind, s) == [kind |-> kind, setup |-> s]

(* The worker handles one request after the other.                          *)
NoStart == [at |-> "no", setup |-> NoSetup, touched |-> FALSE, solved |-> FALSE,
            old |-> FALSE]
NotStarting == starting = NoStart

Init ==
  /\ ProjectInit /\ ReadInit /\ client \in Clients
  /\ \E old \in OldSolutions : solution = [s \in Setups |-> s \in old]
  \* Bound: what the client does not use begins one way only.
  /\ (client # "files" => memory = 0) /\ (client # "solves" => \A s \in Setups : ~solution[s])
  /\ sims = {} /\ solves = 0 /\ changed = {}
  /\ held = {} /\ starting = NoStart /\ runs = [s \in Setups |-> NoRun] /\ active = NoSetup
  /\ endedSince = {} /\ solvedSince = {} /\ hadSolution = {} /\ stopped = {}

-----------------------------------------------------------------------------
(* AEDT, and others who use it *)

Recorded == {s \in Setups : runs[s] # NoRun}

(* A call that starts a solve meanwhile has its snapshot taken before.       *)
Noted(solved) ==
  starting' = IF NotStarting THEN starting
              ELSE [starting EXCEPT !.touched = TRUE, !.solved = @ \/ solved]
Write(solved) == changed' = Recorded /\ Noted(solved)

Accepts(s, solving) ==
  /\ solves < MaxSolves
  /\ [setup |-> s, solving |-> FALSE] \notin sims /\ [setup |-> s, solving |-> TRUE] \notin sims
  /\ sims' = sims \cup {[setup |-> s, solving |-> solving]}
  /\ solves' = solves + 1

OthersSolve(s) ==
  /\ Accepts(s, TRUE)
  /\ UNCHANGED <<client, projectVars, solution, changed, recordVars, historyVars>>

SolveBegins(j) ==
  /\ ~j.solving
  /\ sims' = (sims \ {j}) \cup {[j EXCEPT !.solving = TRUE]}
  /\ UNCHANGED <<client, projectVars, solution, solves, changed, recordVars, historyVars>>

Ends == endedSince' = IF Running /\ ~Running' THEN Recorded ELSE endedSince

(* It succeeds and writes its solution, or fails and may write all the same. *)
(* The results directory is the project's, whatever was solved.             *)
SolveEnds(j) ==
  /\ sims' = sims \ {j} /\ Ends
  /\ \/ /\ j.solving /\ Write(starting.setup = j.setup)
        /\ solution' = [solution EXCEPT ![j.setup] = TRUE]
        /\ solvedSince' = solvedSince \cup (Recorded \cap {j.setup})
     \/ /\ Write(FALSE) \/ UNCHANGED <<changed, starting>>
        /\ UNCHANGED <<solution, solvedSince>>
  /\ UNCHANGED <<client, projectVars, solves, held, runs, active, stopped, hadSolution>>

(* Files are written late, or removed.                                      *)
WriteLate ==
  /\ Write(FALSE)
  /\ UNCHANGED <<client, projectVars, aedtVars, held, runs, active, stopped, historyVars>>

-----------------------------------------------------------------------------
(* hfss_analysis_start *)

(* Bound: the client goes on with its newest preview only.                  *)
Hold(kind, s) == held' = {Held(kind, s)}
Drop(kind, s) == held' = held \ {Held(kind, s)}

PreviewStart(s) ==
  /\ NotStarting /\ ~Running
  /\ Hold("start", s)
  /\ UNCHANGED <<client, projectVars, aedtVars, changed, starting, runs, active, stopped,
                 historyVars>>

(* The state that was shown had nothing running.  A scan of the results that *)
(* fails or is cut compares as changed with a later one that does not.      *)
TakeSnapshot(s, cut) ==
  /\ NotStarting /\ Held("start", s) \in held /\ ~Running
  /\ starting' = [at |-> "analyze", setup |-> s, touched |-> cut, solved |-> FALSE,
                old |-> solution[s]]
  /\ UNCHANGED <<client, projectVars, aedtVars, changed, held, runs, active, stopped,
                 historyVars>>

Rejected == starting' = NoStart /\ UNCHANGED <<sims, solves>>

Analyze ==
  /\ starting.at = "analyze"
  /\ \/ /\ \E solving \in BOOLEAN : Accepts(starting.setup, solving)
        /\ starting' = [starting EXCEPT !.at = "record"]
     \/ Rejected
  /\ UNCHANGED <<client, projectVars, solution, changed, held, runs, active, stopped,
                 historyVars>>

With(set, s, isIn) == IF isIn THEN set \cup {s} ELSE set \ {s}

(* The run's time is taken, and AEDT is asked what is running.  If it does   *)
(* not answer, the solve goes on, the preview stays and nothing is recorded. *)
RecordStart ==
  /\ starting.at = "record" /\ starting' = NoStart
  /\ \/ LET s == starting.setup IN
        /\ Drop("start", s)
        /\ runs' = [runs EXCEPT ![s] =
                      [NoRun EXCEPT !.state = IF Running THEN "running" ELSE "submitted",
                                    !.seen = Running]]
        /\ changed' = With(changed, s, starting.touched)
        /\ active' = s
        /\ stopped' = stopped \ {s}
        /\ endedSince' = endedSince \ {s}
        /\ solvedSince' = With(solvedSince, s, starting.solved)
        /\ hadSolution' = With(hadSolution, s, starting.old)
     \/ UNCHANGED <<changed, held, runs, active, stopped, historyVars>>
  /\ UNCHANGED <<client, projectVars, aedtVars>>

(* _ANALYSIS_SUBMISSION_GRACE_SECONDS go by.                                *)
GraceEnds(s) ==
  /\ runs[s].state = "submitted" /\ ~runs[s].late
  /\ runs' = [runs EXCEPT ![s].late = TRUE]
  /\ UNCHANGED <<client, projectVars, aedtVars, changed, held, starting, active, stopped,
                 historyVars>>

-----------------------------------------------------------------------------
(* hfss_analysis_status *)

\* Mutant: a submitted run is waited for without end.
RefreshSeen(run) ==
  IF run.state = "canceled" THEN run
  ELSE IF Running THEN [run EXCEPT !.state = "running", !.seen = TRUE, !.late = FALSE]
  ELSE IF run.seen THEN [run EXCEPT !.state = "not_running"]
  ELSE run

Refresh(run) ==
  IF run.state = "canceled" THEN run
  ELSE IF Running THEN [run EXCEPT !.state = "running", !.seen = TRUE, !.late = FALSE]
  ELSE IF run.seen THEN [run EXCEPT !.state = "not_running"]
  ELSE IF run.late THEN [run EXCEPT !.state = "not_running_unverified", !.late = FALSE]
  ELSE run

\* Mutant: that AEDT was seen solving is not asked for.
AnyEvidence(s, run, young) == solution[s] /\ s \in changed /\ young

(* young: the scan of the results neither fails nor is cut, and finds a file *)
(* no more than two seconds older than the run.  A file written before the   *)
(* start may be that, and any file may be gone: the model leaves it open.    *)
Evidence(s, run, young) == run.seen /\ solution[s] /\ s \in changed /\ young

Finalize(s, run, young) ==
  IF run.state \in Over /\ ~run.fresh /\ run.tries < MaxEvidence
  THEN [run EXCEPT !.fresh = Evidence(s, run, young), !.tries = @ + 1] ELSE run

Settled(s, run) == IF run.state \in Pending THEN s ELSE NoSetup

Status(s) ==
  LET run == IF active = s THEN Refresh(runs[s]) ELSE runs[s] IN
  /\ NotStarting /\ runs[s] # NoRun
  /\ \E young \in BOOLEAN : runs' = [runs EXCEPT ![s] = Finalize(s, run, young)]
  /\ active' = IF active = s THEN Settled(s, run) ELSE active
  /\ UNCHANGED <<client, projectVars, aedtVars, changed, held, starting, stopped, historyVars>>

-----------------------------------------------------------------------------
(* hfss_analysis_cancel: of a setup, or of whatever runs *)

PreviewCancel(s) ==
  /\ NotStarting /\ Running
  /\ Hold("cancel", s)
  /\ UNCHANGED <<client, projectVars, aedtVars, changed, starting, runs, active, stopped,
                 historyVars>>

(* AEDT is asked to stop every simulation; some may not have stopped when   *)
(* it answers.                                                              *)
ApplyCancel(s, left) ==
  /\ NotStarting /\ Held("cancel", s) \in held /\ Running
  /\ left \subseteq sims /\ sims' = left /\ Ends
  /\ runs' = IF s \in Recorded THEN [runs EXCEPT ![s].state = "canceled"] ELSE runs
  /\ stopped' = IF s \in Recorded /\ ~runs[s].fresh THEN stopped \cup {s} ELSE stopped
  /\ active' = NoSetup
  /\ Drop("cancel", s)
  /\ UNCHANGED <<client, projectVars, solution, solves, changed, starting, solvedSince,
                 hadSolution>>

-----------------------------------------------------------------------------
(* hfss_export *)

(* The newest run is brought up to date, whether the export is refused or not. *)
PreviewExport(s) ==
  /\ NotStarting
  /\ IF active = NoSetup THEN UNCHANGED <<runs, active>>
     ELSE /\ runs' = [runs EXCEPT ![active] = Refresh(@)]
          /\ active' = Settled(active, runs'[active])
  /\ IF Running \/ active' # NoSetup THEN held' = held ELSE Hold("export", s)
  /\ UNCHANGED <<client, projectVars, aedtVars, changed, starting, stopped, historyVars>>

(* Nothing runs, as shown; a run that AEDT has accepted since is not seen.  *)
(* A failed export leaves no file and keeps the preview.                    *)
ApplyExport(s) ==
  /\ NotStarting /\ Held("export", s) \in held /\ ~Running /\ solution[s]
  /\ Drop("export", s)
  /\ UNCHANGED <<client, projectVars, aedtVars, changed, starting, runs, active, stopped,
                 historyVars>>

-----------------------------------------------------------------------------
(* A request times out or the worker dies: the broker ends the process, and *)
(* its memory is gone.  A release does the same.                            *)
LoseWorker ==
  /\ ForgetProject /\ ForgetReads
  /\ held' = {} /\ starting' = NoStart /\ runs' = [s \in Setups |-> NoRun]
  /\ active' = NoSetup /\ changed' = {}
  /\ endedSince' = {} /\ solvedSince' = {} /\ hadSolution' = {} /\ stopped' = {}
  /\ UNCHANGED <<client, aedtVars>>

Solver == \E j \in sims : SolveBegins(j) \/ SolveEnds(j)
Clock == \E s \in Setups : GraceEnds(s)
Start == Analyze \/ RecordStart

SolveStep ==
  \/ Solver \/ Clock \/ WriteLate \/ Start
  \/ \E s \in Setups :
       \/ OthersSolve(s)
       \/ PreviewStart(s) \/ Status(s) \/ PreviewExport(s) \/ ApplyExport(s)
       \/ \E cut \in BOOLEAN : TakeSnapshot(s, cut)
  \/ \E s \in Setups \cup {NoSetup} :
       PreviewCancel(s) \/ \E left \in SUBSET sims : ApplyCancel(s, left)

Next ==
  \/ client = "files" /\ ProjectStep /\ UNCHANGED <<client, solveVars, readVars>>
  \/ client = "solves" /\ SolveStep /\ UNCHANGED readVars
  \/ client = "reads" /\ ReadStep /\ UNCHANGED <<client, projectVars, solveVars>>
  \/ LoseWorker

(* Solves end, the clock and a call that starts a solve go on, and the status *)
(* of every setup is asked for again and again (poll_analysis) and gets its   *)
(* turn between other calls.                                                *)
Spec == Init /\ [][Next]_vars
        /\ WF_vars(Solver /\ UNCHANGED readVars) /\ WF_vars(Clock /\ UNCHANGED readVars)
        /\ WF_vars(Start /\ UNCHANGED readVars)
        /\ \A s \in Setups : SF_vars(Status(s) /\ UNCHANGED readVars)

-----------------------------------------------------------------------------
Run == [state : {"none", "canceled"} \cup Pending \cup Over, seen : BOOLEAN, late : BOOLEAN,
        fresh : BOOLEAN, tries : 0 .. MaxEvidence]

TypeOK ==
  /\ ProjectTypeOK /\ ReadTypeOK /\ {saving, open} \subseteq BOOLEAN /\ client \in Clients
  /\ sims \subseteq Sims /\ solution \in [Setups -> BOOLEAN] /\ solves \in 0 .. MaxSolves
  /\ held \subseteq [kind : {"start", "cancel", "export"}, setup : Setups \cup {NoSetup}]
  /\ starting = NoStart \/ starting \in [at : {"analyze", "record"}, setup : Setups,
                                        touched : BOOLEAN, solved : BOOLEAN, old : BOOLEAN]
  /\ runs \in [Setups -> Run] /\ active \in Setups \cup {NoSetup}
  /\ changed \subseteq Recorded /\ stopped \subseteq Recorded
  /\ endedSince \subseteq Recorded /\ solvedSince \subseteq Recorded
  /\ hadSolution \subseteq Recorded

(* solve_success_verified is never said of a run before a simulation that was *)
(* under way after its start has come to an end, nor of one that was canceled *)
(* before; and of a setup without a solution when the start took its snapshot *)
(* only after a solve of that setup has succeeded, although others solve, the *)
(* run is seen between two solves only, and evidence comes late or is left    *)
(* from the run before.                                                      *)
FreshHasEnded ==
  \A s \in Setups : runs[s].fresh =>
    s \in endedSince \ stopped /\ s \in solvedSince \cup hadSolution

(* The user guide: a solve that is only no longer running is not reported as  *)
(* a solve that has succeeded, and an old solution is not enough.            *)
SuccessIsOwn ==
  \A s \in Setups : runs[s].fresh => s \in solvedSince

(* The newest run does not stay pending: once its solve is over, or never   *)
(* came, a status says so.                                                  *)
PendingEnds == \A s \in Setups : active = s ~> active # s

-----------------------------------------------------------------------------
(* The inductive invariant behind FreshHasEnded *)

(* A run that was seen running runs, or a simulation has ended since its     *)
(* start; a canceled run gets no evidence.                                  *)
RecordsTrue ==
  /\ active \in Recorded \cup {NoSetup}
  /\ \A s \in Setups :
       /\ runs[s].seen => Running \/ s \in endedSince
       /\ runs[s].state = "not_running" => s \in endedSince
       /\ runs[s].state = "not_running_unverified" => ~runs[s].seen
       /\ s \in stopped => runs[s].state = "canceled"
       /\ s \in Recorded => runs[s].state # "none"

(* A solution that is listed was listed at the snapshot of a run, or of the  *)
(* start under way, or has come since.                                      *)
SolutionsKnown ==
  /\ \A s \in Recorded : solution[s] => s \in solvedSince \cup hadSolution
  /\ ~NotStarting /\ solution[starting.setup] => starting.solved \/ starting.old

IInv == TypeOK /\ ProjectInv /\ ReadInv /\ RecordsTrue /\ SolutionsKnown /\ FreshHasEnded
=============================================================================
