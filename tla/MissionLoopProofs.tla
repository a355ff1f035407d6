-------------------------- MODULE MissionLoopProofs --------------------------
(***************************************************************************)
(* Proofs about MissionLoop for every number of jobs, controllers,         *)
(* reviewers and crashes, and every budget: type correctness, the truth of *)
(* the final outcome, and the bound on the attempts of controllers that    *)
(* check the budget at the same time; and, for one controller and one      *)
(* reviewer at a time, what is behind the end of a mission.                *)
(***************************************************************************)
EXTENDS MissionLoop, FiniteSetTheorems, SequenceTheorems, TLAPS

-----------------------------------------------------------------------------
(* Types *)

LocalTypeOK ==
  /\ pc \in [Procs -> PC]
  /\ copy \in [Controllers -> Loop] /\ seen \in [Controllers -> MissionState]
  /\ picked \in [Controllers -> Jobs \cup {NoJob}]
  /\ job \in [Procs -> Jobs \cup {NoJob}]
  /\ number \in [Controllers -> Nat]
  /\ verdict \in [Procs -> {"none", "retry", "error", "canceled", "approved",
                            "rejected"} \cup Success]
  /\ goal \in [Controllers -> {"none", "status", "acquire", "release", "record"} \cup Codes]
  /\ route \in [Controllers -> Seq(MissionState)]

StoreTypeOK ==
  /\ status \in [Jobs -> {"queued", "leased"} \cup Ledger!Settled]
  /\ owners \in [Jobs -> SUBSET Controllers]
  /\ attempts \in SUBSET (Jobs \X Nat) /\ IsFiniteSet(attempts)
  /\ approval \in [Jobs -> {"none", "pending", "approved", "rejected"}]
  /\ mission \in MissionState /\ final \in {"none"} \cup Codes
  /\ loop \in Loop /\ backoff \in BOOLEAN
  /\ crashes \in Nat

LEMMA TypeParts == TypeOK <=> StoreTypeOK /\ LocalTypeOK
BY DEF TypeOK, StoreTypeOK, LocalTypeOK

LEMMA GotoType ==
  ASSUME LocalTypeOK, NEW p \in Procs, NEW label \in PC, Goto(p, label)
  PROVE  LocalTypeOK'
BY DEF LocalTypeOK, Goto

LEMMA NoLoopType == NoLoop \in Loop /\ NewLoop \in Loop
BY DEF NoLoop, NewLoop, Loop, LoopStatus

LEMMA EmptyRouteType == <<>> \in Seq(MissionState)
OBVIOUS

LEMMA ForgetType ==
  ASSUME LocalTypeOK, NEW c \in Controllers, Forget(c)
  PROVE  LocalTypeOK'
BY NoLoopType, EmptyRouteType DEF LocalTypeOK, Forget, PC, Procs, MissionState, NoJob

LEMMA RaiseType ==
  ASSUME LocalTypeOK, NEW c \in Controllers, Raise(c)
  PROVE  LocalTypeOK'
<1>1. CASE pc[c] \in {"run", "commit", "ask", "requeue"} \/ goal[c] = "release"
  BY <1>1 DEF LocalTypeOK, Raise, PC, Procs
<1>2. CASE ~(pc[c] \in {"run", "commit", "ask", "requeue"} \/ goal[c] = "release")
  BY <1>2, ForgetType DEF Raise
<1> QED BY <1>1, <1>2

LEMMA DecidedType ==
  ASSUME NEW rec \in Loop, NEW to \in LoopStatus, NEW increment \in {0, 1},
         NEW retryNotBefore \in BOOLEAN
  PROVE  /\ Decided(rec, to, increment, retryNotBefore) \in Loop
         /\ Decided(rec, to, increment, retryNotBefore).attempts = rec.attempts
BY DEF Decided, Loop

LEMMA ConcludeType ==
  ASSUME LocalTypeOK, NEW c \in Controllers, NEW code \in Codes, NEW increment \in {0, 1},
         Conclude(c, code, increment)
  PROVE  LocalTypeOK'
<1>1. Decided(copy[c], IF code = "completed" THEN "completed" ELSE "failed", increment, FALSE)
        \in Loop
  BY DecidedType DEF LocalTypeOK, LoopStatus
<1> QED BY <1>1 DEF LocalTypeOK, Conclude, PC, Procs

LEMMA DecideType ==
  ASSUME LocalTypeOK, NEW c \in Controllers, NEW to \in LoopStatus, NEW increment \in {0, 1},
         NEW retryNotBefore \in BOOLEAN, Decide(c, to, increment, retryNotBefore)
  PROVE  LocalTypeOK'
<1>1. Decided(copy[c], to, increment, retryNotBefore) \in Loop
  BY DecidedType DEF LocalTypeOK
<1> QED BY <1>1 DEF LocalTypeOK, Decide, PC, Procs

LEMMA DismissType ==
  ASSUME LocalTypeOK, NEW r \in Procs, Dismiss(r)
  PROVE  LocalTypeOK'
BY DEF LocalTypeOK, Dismiss, PC, NoJob

LEMMA RouteType ==
  ASSUME NEW to, NEW from \in MissionState
  PROVE  Route(to, from) \in Seq(MissionState)
<1> USE DEF MissionState
<1>1. /\ <<"PLANNING", "WAITING_WORKER">> \in Seq(MissionState)
      /\ <<"WAITING_WORKER">> \in Seq(MissionState)
      /\ <<>> \in Seq(MissionState)
  OBVIOUS
<1>2. /\ <<"PLANNING", "WAITING_WORKER", "EVALUATING", "COMPLETED">> \in Seq(MissionState)
      /\ <<"EVALUATING", "COMPLETED">> \in Seq(MissionState)
      /\ <<"COMPLETED">> \in Seq(MissionState)
  OBVIOUS
<1>3. <<"PLANNING", "FAILED">> \in Seq(MissionState) /\ <<"FAILED">> \in Seq(MissionState)
  OBVIOUS
<1>4. ToWorker(from) \in Seq(MissionState)
  BY <1>1, Zenon DEF ToWorker
<1>5. ToCompleted(from) \in Seq(MissionState)
  BY <1>2, Zenon DEF ToCompleted
<1>6. ToFailed(from) \in Seq(MissionState)
  BY <1>3 DEF ToFailed
<1> QED BY <1>4, <1>5, <1>6, Zenon DEF Route

(* The job at hand is one of the mission's where the proofs need it. *)
LEMMA LoopTypeInductive ==
  ASSUME TypeOK, NEW c \in Controllers, GoalFitsOf(c),
         Advance(c) \/ \E command \in {"none", "status"} : Begin(c, command)
  PROVE  TypeOK'
<1> SUFFICES StoreTypeOK' /\ LocalTypeOK'
  BY DEF TypeOK, StoreTypeOK, LocalTypeOK
<1>a. StoreTypeOK /\ LocalTypeOK /\ c \in Procs
  BY TypeParts DEF Procs
<1> USE <1>a DEF storeVars, ledgerVars
<1>1. ASSUME NEW command \in {"none", "status"}, Begin(c, command)
      PROVE  StoreTypeOK' /\ LocalTypeOK'
  BY <1>1 DEF Begin, StoreTypeOK, LocalTypeOK, PC
<1>2. ASSUME Load(c) PROVE StoreTypeOK' /\ LocalTypeOK'
  BY <1>2 DEF Load, StoreTypeOK, LocalTypeOK, PC
<1>3. ASSUME Insert(c) PROVE StoreTypeOK' /\ LocalTypeOK'
  <2>1. CASE loop.status = "none"
    BY <1>3, <2>1, NoLoopType DEF Insert, StoreTypeOK, LocalTypeOK, PC
  <2>2. CASE loop.status # "none"
    BY <1>3, <2>2, RaiseType DEF Insert, StoreTypeOK
  <2> QED BY <2>1, <2>2
<1>4. ASSUME NEW from, NEW label \in PC, Sync(c, from, label)
      PROVE  StoreTypeOK' /\ LocalTypeOK'
  <2>1. Cardinality(attempts) \in Nat
    BY FS_CardinalityType DEF StoreTypeOK
  <2>2. [copy[c] EXCEPT !.attempts = Cardinality(attempts)] \in Loop
    BY <2>1 DEF LocalTypeOK, Loop
  <2> QED BY <1>4, <2>2 DEF Sync, StoreTypeOK, LocalTypeOK
<1>5. ASSUME Assess(c) PROVE StoreTypeOK' /\ LocalTypeOK'
  <2>1. StoreTypeOK'
    BY <1>5 DEF Assess, StoreTypeOK
  <2>2. copy[c].status \in LoopStatus
    BY DEF LocalTypeOK, Loop
  <2>3. LocalTypeOK'
    BY <1>5, <2>2, ForgetType, DecideType, ConcludeType, GotoType
       DEF Assess, LoopStatus, Codes, Failures, PC
  <2> QED BY <2>1, <2>3
<1>6. ASSUME List(c) PROVE StoreTypeOK' /\ LocalTypeOK'
  <2>1. StoreTypeOK'
    BY <1>6 DEF List, StoreTypeOK
  <2>2. CASE \/ Conclude(c, "completed", 0) \/ Conclude(c, "job_failed", 0)
             \/ Conclude(c, "real_aedt_disabled", 0)
    BY <2>1, <2>2, ConcludeType DEF Codes, Failures
  <2>3. CASE Decide(c, "active", 0, FALSE)
    BY <2>1, <2>3, DecideType DEF LoopStatus
  <2>4. ASSUME NEW j \in Jobs, picked' = [picked EXCEPT ![c] = j],
               pc' = [pc EXCEPT ![c] = "fetch"],
               UNCHANGED <<copy, seen, job, number, verdict, goal, route>>
        PROVE  LocalTypeOK'
    BY <2>4 DEF LocalTypeOK, PC
  <2> QED BY <1>6, <2>1, <2>2, <2>3, <2>4, Zenon DEF List
<1>7. ASSUME Fetch(c) PROVE StoreTypeOK' /\ LocalTypeOK'
  <2>1. CASE Queued = {} /\ Raise(c)
    BY <1>7, <2>1, RaiseType DEF Fetch, StoreTypeOK
  <2>2. CASE ~(Queued = {} /\ Raise(c))
    <3>1. PICK j \in Jobs : job' = [job EXCEPT ![c] = j]
      BY <1>7, <2>2 DEF Fetch
    <3>2. /\ goal' = [goal EXCEPT ![c] = "acquire"]
          /\ pc' = [pc EXCEPT ![c] = "plan"]
          /\ UNCHANGED <<storeVars, copy, seen, picked, number, verdict, route, crashes>>
      BY <1>7, <2>2 DEF Fetch
    <3> QED BY <3>1, <3>2 DEF StoreTypeOK, LocalTypeOK, PC
  <2> QED BY <2>1, <2>2
<1>8. ASSUME Plan(c) PROVE StoreTypeOK' /\ LocalTypeOK'
  <2>1. CASE NotReady(c)
    BY <1>8, <2>1, RaiseType DEF Plan, StoreTypeOK
  <2>2. CASE ~NotReady(c)
    <3>1. Route(goal[c], mission) \in Seq(MissionState)
      BY RouteType DEF StoreTypeOK
    <3> QED BY <1>8, <2>2, <3>1 DEF Plan, StoreTypeOK, LocalTypeOK, PC
  <2> QED BY <2>1, <2>2
<1>9. ASSUME Move(c) PROVE StoreTypeOK' /\ LocalTypeOK'
  <2>1. CASE route[c] = <<>>
    <3>1. (IF goal[c] \in Codes THEN "conclude" ELSE goal[c]) \in PC
      BY <1>9 DEF Move, GoalFitsOf, PC
    <3> QED BY <1>9, <2>1, <3>1, GotoType DEF Move, StoreTypeOK
  <2>2. CASE route[c] # <<>> /\ CanWrite(mission, Head(route[c]))
    <3>1. Head(route[c]) \in MissionState /\ Tail(route[c]) \in Seq(MissionState)
      BY <2>2 DEF LocalTypeOK
    <3> QED BY <1>9, <2>2, <3>1 DEF Move, StoreTypeOK, LocalTypeOK
  <2>3. CASE route[c] # <<>> /\ ~CanWrite(mission, Head(route[c]))
    BY <1>9, <2>3, RaiseType DEF Move, StoreTypeOK
  <2> QED BY <2>1, <2>2, <2>3
<1>10. ASSUME Acquire(c) PROVE StoreTypeOK' /\ LocalTypeOK'
  <2>1. LocalTypeOK'
    BY <1>10, GotoType, RaiseType DEF Acquire, PC
  <2>2. StoreTypeOK'
    BY <1>10 DEF Acquire, Ledger!Take, StoreTypeOK
  <2> QED BY <2>1, <2>2
<1>11. ASSUME Attempt(c) PROVE StoreTypeOK' /\ LocalTypeOK'
  <2> DEFINE next == Cardinality({a \in attempts : a[1] = job[c]}) + 1
  <2>1. next \in Nat
    <3>1. {a \in attempts : a[1] = job[c]} \subseteq attempts
      OBVIOUS
    <3>2. IsFiniteSet({a \in attempts : a[1] = job[c]})
      BY <3>1, FS_Subset DEF StoreTypeOK
    <3> QED BY <3>2, FS_CardinalityType
  <2>2. IsFiniteSet(attempts \cup {<<job[c], next>>})
    BY FS_AddElement DEF StoreTypeOK
  <2>3. job[c] \in Jobs
    BY <1>11 DEF Attempt, GoalFitsOf
  <2> HIDE DEF next
  <2>4. CASE owners[job[c]] = {c}
    <3>1. /\ attempts' = attempts \cup {<<job[c], next>>}
          /\ number' = [number EXCEPT ![c] = next]
          /\ pc' = [pc EXCEPT ![c] = "run"]
          /\ UNCHANGED <<copy, seen, picked, job, verdict, goal, route>>
      BY <1>11, <2>4 DEF Attempt, next
    <3>2. StoreTypeOK'
      BY <1>11, <2>1, <2>2, <2>3, <3>1 DEF Attempt, StoreTypeOK
    <3> QED BY <2>1, <3>1, <3>2 DEF LocalTypeOK, PC
  <2>5. CASE owners[job[c]] # {c}
    BY <1>11, <2>5, RaiseType DEF Attempt, StoreTypeOK
  <2> QED BY <2>4, <2>5
<1>12. ASSUME Run(c) PROVE StoreTypeOK' /\ LocalTypeOK'
  BY <1>12 DEF Run, StoreTypeOK, LocalTypeOK, PC, Success
<1>13. ASSUME Commit(c) PROVE StoreTypeOK' /\ LocalTypeOK'
  <2>1. StoreTypeOK'
    BY <1>13 DEF Commit, Ledger!Settle, Ledger!Settled, Result, StoreTypeOK
  <2>2. CASE Goto(c, "ask") \/ Goto(c, "release") \/ Raise(c)
    BY <2>1, <2>2, GotoType, RaiseType DEF PC
  <2>3. CASE /\ goal' = [goal EXCEPT ![c] = "release"]
             /\ route' = [route EXCEPT ![c] = <<"EVALUATING">>]
             /\ pc' = [pc EXCEPT ![c] = "move"]
             /\ UNCHANGED <<copy, seen, picked, job, number, verdict>>
    <3>1. <<"EVALUATING">> \in Seq(MissionState)
      BY DEF MissionState
    <3> QED BY <2>1, <2>3, <3>1 DEF LocalTypeOK, PC
  <2> QED BY <1>13, <2>2, <2>3 DEF Commit
<1>14. ASSUME Ask(c) PROVE StoreTypeOK' /\ LocalTypeOK'
  <2>1. <<"WAITING_APPROVAL">> \in Seq(MissionState)
    BY DEF MissionState
  <2> QED BY <1>14, <2>1 DEF Ask, StoreTypeOK, LocalTypeOK, PC
<1>15. ASSUME Release(c) PROVE StoreTypeOK' /\ LocalTypeOK'
  <2>1. StoreTypeOK'
    BY <1>15 DEF Release, Ledger!Leave, StoreTypeOK
  <2>2. LocalTypeOK'
    BY <1>15, ForgetType, GotoType DEF Release, PC
  <2> QED BY <2>1, <2>2
<1>16. ASSUME Requeue(c) PROVE StoreTypeOK' /\ LocalTypeOK'
  <2>1. LocalTypeOK'
    BY <1>16, GotoType DEF Requeue, PC
  <2> QED BY <1>16, <2>1 DEF Requeue, Ledger!Retry, StoreTypeOK
<1>17. ASSUME After(c) PROVE StoreTypeOK' /\ LocalTypeOK'
  <2>1. StoreTypeOK'
    BY <1>17 DEF After, StoreTypeOK
  <2>2. LocalTypeOK'
    BY <1>17, DecideType, ConcludeType, GotoType DEF After, LoopStatus, Codes, Failures, PC
  <2> QED BY <2>1, <2>2
<1>18. ASSUME Remaining(c) PROVE StoreTypeOK' /\ LocalTypeOK'
  <2>1. StoreTypeOK'
    BY <1>18 DEF Remaining, StoreTypeOK
  <2>2. CASE Conclude(c, "completed", 1) \/ Conclude(c, "budget_exhausted", 1)
    BY <2>1, <2>2, ConcludeType DEF Codes, Failures
  <2>3. CASE /\ copy' = [copy EXCEPT ![c] = Decided(@, "active", 1, FALSE)]
             /\ goal' = [goal EXCEPT ![c] = "record"]
             /\ pc' = [pc EXCEPT ![c] = "plan"]
             /\ UNCHANGED <<seen, picked, job, number, verdict, route>>
    <3>1. Decided(copy[c], "active", 1, FALSE) \in Loop
      BY DecidedType DEF LocalTypeOK, LoopStatus
    <3> QED BY <2>1, <2>3, <3>1 DEF LocalTypeOK, PC
  <2> QED BY <1>18, <2>2, <2>3 DEF Remaining
<1>19. ASSUME Record(c) PROVE StoreTypeOK' /\ LocalTypeOK'
  <2>1. copy[c] \in Loop /\ copy[c].retryNotBefore \in BOOLEAN
    BY DEF LocalTypeOK, Loop
  <2>2. LocalTypeOK'
    BY <1>19, ForgetType DEF Record
  <2> QED BY <1>19, <2>1, <2>2 DEF Record, StoreTypeOK
<1>20. ASSUME RecordEnd(c) PROVE StoreTypeOK' /\ LocalTypeOK'
  <2>1. LocalTypeOK'
    BY <1>20, GotoType DEF RecordEnd, PC
  <2> QED BY <1>20, <2>1 DEF RecordEnd, StoreTypeOK, LocalTypeOK
<1>21. ASSUME SetOutcome(c) PROVE StoreTypeOK' /\ LocalTypeOK'
  BY <1>21, ForgetType DEF SetOutcome, StoreTypeOK, GoalFitsOf
<1>22. "assess" \in PC /\ "after" \in PC
  BY DEF PC
<1> QED
  BY <1>1, <1>2, <1>3, <1>4, <1>5, <1>6, <1>7, <1>8, <1>9, <1>10, <1>11, <1>12, <1>13,
     <1>14, <1>15, <1>16, <1>17, <1>18, <1>19, <1>20, <1>21, <1>22 DEF Advance

-----------------------------------------------------------------------------
(* What one step does to the invariant *)

(* A step of p changes no other controller. *)
OthersKeep(p) ==
  \A d \in Controllers \ {p} :
    /\ pc'[d] = pc[d] /\ goal'[d] = goal[d] /\ route'[d] = route[d]
    /\ job'[d] = job[d] /\ copy'[d] = copy[d]

MissionMoves == mission' = mission \/ CanWrite(mission, mission')

(* Every step of a controller but three is quiet: it fits its own path and  *)
(* asks for no permit it did not have.                                      *)
Paths(c) == GoalFitsOf(c)' /\ RouteLeadsOf(c)'

Quiet(c) ==
  /\ OthersKeep(c) /\ MissionMoves /\ Paths(c)
  /\ MayAttempt(c)' => MayAttempt(c)
  /\ UNCHANGED <<attempts, final>>

(* What is left of a route after its head ends like the route. *)
LEMMA LastOfTail ==
  ASSUME NEW S, NEW s \in Seq(S), s # <<>>
  PROVE  IF Tail(s) = <<>> THEN Head(s) = s[Len(s)]
                           ELSE Tail(s)[Len(Tail(s))] = s[Len(s)]
<1>1. Len(s) \in Nat \ {0}
  BY EmptySeq
<1>2. /\ Tail(s) \in Seq(S) /\ Len(Tail(s)) = Len(s) - 1
      /\ \A i \in 1 .. Len(Tail(s)) : Tail(s)[i] = s[i + 1]
  BY HeadTailProperties
<1>3. CASE Tail(s) = <<>>
  <2>1. Len(<<>>) = 0
    BY EmptySeq
  <2>2. Len(s) - 1 = 0
    BY <1>2, <1>3, <2>1, Zenon
  <2>3. Len(s) = 1
    BY <1>1, <2>2
  <2> QED BY <1>3, <2>3
<1>4. CASE Tail(s) # <<>>
  <2>1. Len(Tail(s)) \in Nat \ {0}
    BY <1>2, <1>4, EmptySeq
  <2> QED BY <1>1, <1>2, <1>4, <2>1
<1> QED BY <1>3, <1>4

LEMMA RouteEnds ==
  ASSUME NEW code \in Codes, NEW from \in MissionState
  PROVE  /\ Route(code, from) # <<>>
         /\ Route(code, from)[Len(Route(code, from))] = Target(code)
<1>1. CASE code = "completed"
  <2>1. Route(code, from) = ToCompleted(from)
    BY <1>1, Zenon DEF Route
  <2>2. \/ ToCompleted(from) = <<"PLANNING", "WAITING_WORKER", "EVALUATING", "COMPLETED">>
        \/ ToCompleted(from) = <<"EVALUATING", "COMPLETED">>
        \/ ToCompleted(from) = <<"COMPLETED">>
    BY Zenon DEF ToCompleted
  <2> QED BY <1>1, <2>1, <2>2 DEF Target
<1>2. CASE code # "completed"
  <2>1. Route(code, from) = ToFailed(from)
    BY <1>2, Zenon DEF Route, Codes, Failures
  <2> QED BY <1>2, <2>1 DEF Target, ToFailed
<1> QED BY <1>1, <1>2

(* A controller that ends its call or releases its lease is on no path. *)
LEMMA RaiseQuiet ==
  ASSUME TypeOK, NEW c \in Controllers, Raise(c) \/ Forget(c)
  PROVE  OthersKeep(c) /\ pc'[c] \in {"idle", "release"}
BY DEF TypeOK, Raise, Forget, OthersKeep, Procs

LEMMA OffPath ==
  ASSUME NEW c \in Controllers,
         pc'[c] \notin {"plan", "move", "conclude", "outcome", "acquire", "attempt"}
  PROVE  Paths(c)
BY DEF Paths, GoalFitsOf, RouteLeadsOf

LEMMA ConcludeQuiet ==
  ASSUME TypeOK, NEW c \in Controllers, NEW code \in Codes, NEW increment,
         Conclude(c, code, increment)
  PROVE  OthersKeep(c) /\ Paths(c) /\ ~MayAttempt(c)'
BY DEF TypeOK, Conclude, OthersKeep, Procs, Paths, GoalFitsOf, RouteLeadsOf, MayAttempt,
       Codes, Failures

LEMMA DecideQuiet ==
  ASSUME TypeOK, NEW c \in Controllers, NEW to, NEW increment, NEW retryNotBefore,
         Decide(c, to, increment, retryNotBefore)
  PROVE  OthersKeep(c) /\ pc'[c] = "record"
BY DEF TypeOK, Decide, OthersKeep, Procs

LEMMA GotoQuiet ==
  ASSUME TypeOK, NEW p \in Procs, NEW label, Goto(p, label)
  PROVE  OthersKeep(p) /\ pc'[p] = label
BY DEF TypeOK, Goto, OthersKeep, Procs

QuietStep(c) ==
  \/ \E command \in {"none", "status"} : Begin(c, command)
  \/ Load(c) \/ Insert(c) \/ Assess(c) \/ List(c) \/ Fetch(c)
  \/ Plan(c) \/ Move(c)
  \/ Acquire(c) \/ Run(c) \/ Commit(c) \/ Ask(c) \/ Release(c) \/ Requeue(c)
  \/ Sync(c, "resync", "after") \/ After(c) \/ Remaining(c)
  \/ Record(c) \/ RecordEnd(c)

LEMMA QuietSteps ==
  ASSUME TypeOK, NEW c \in Controllers, GoalFitsOf(c), RouteLeadsOf(c), QuietStep(c)
  PROVE  Quiet(c)
<1>a. c \in Procs
  BY DEF Procs
<1> USE <1>a DEF Quiet, MissionMoves, storeVars, ledgerVars
<1>off. ASSUME OthersKeep(c), pc'[c] \in {"idle", "release", "record", "sync", "load", "insert",
                                        "after", "remaining", "requeue", "resync", "commit",
                                        "ask", "run"},
               UNCHANGED <<mission, attempts, final>>
        PROVE  Quiet(c)
  BY <1>off, OffPath DEF MayAttempt
<1>1. ASSUME NEW command \in {"none", "status"}, Begin(c, command) PROVE Quiet(c)
  BY <1>1, <1>off DEF Begin, TypeOK, OthersKeep, Procs
<1>2. ASSUME Load(c) PROVE Quiet(c)
  BY <1>2, <1>off DEF Load, TypeOK, OthersKeep, Procs
<1>3. ASSUME Insert(c) PROVE Quiet(c)
  <2>1. CASE loop.status = "none"
    <3>0. /\ copy' = [copy EXCEPT ![c] = NewLoop] /\ pc' = [pc EXCEPT ![c] = "sync"]
          /\ UNCHANGED <<seen, picked, job, number, verdict, goal, route>>
      BY <1>3, <2>1 DEF Insert
    <3>1. OthersKeep(c) /\ pc'[c] = "sync"
      BY <3>0 DEF TypeOK, OthersKeep, Procs
    <3> QED BY <1>3, <2>1, <3>1, <1>off DEF Insert
  <2>2. CASE loop.status # "none"
    BY <1>3, <2>2, <1>off, RaiseQuiet DEF Insert
  <2> QED BY <2>1, <2>2
<1>4. ASSUME Assess(c) PROVE Quiet(c)
  <2>1. CASE Forget(c)
    BY <1>4, <2>1, <1>off, RaiseQuiet DEF Assess
  <2>2. CASE \E to, increment, retry : Decide(c, to, increment, retry)
    BY <1>4, <2>2, <1>off, DecideQuiet DEF Assess
  <2>3. CASE Conclude(c, "budget_exhausted", 0)
    BY <1>4, <2>3, ConcludeQuiet DEF Assess, Codes, Failures
  <2>4. CASE /\ Goto(c, "list")
             /\ \E other \in OtherLimits : ~Exhausted(copy[c], other)
    <3>1. MayAttempt(c)
      <4>1. copy[c].attempts \in Nat /\ MaxAttempts \in Nat
        BY LoopAssumption DEF TypeOK, Loop
      <4>2. ~(copy[c].attempts >= MaxAttempts)
        BY <2>4 DEF Exhausted
      <4> QED BY <1>4, <4>1, <4>2 DEF Assess, MayAttempt
    <3> QED BY <1>4, <2>4, <3>1, GotoQuiet, OffPath DEF Assess
  <2> QED BY <1>4, <2>1, <2>2, <2>3, <2>4, Zenon DEF Assess
<1>5. ASSUME List(c) PROVE Quiet(c)
  <2>1. MayAttempt(c)
    BY <1>5 DEF List, MayAttempt
  <2>2. ASSUME NEW code \in Codes, Conclude(c, code, 0) PROVE Quiet(c)
    BY <1>5, <2>2, ConcludeQuiet DEF List
  <2>3. CASE Decide(c, "active", 0, FALSE)
    BY <1>5, <2>3, <1>off, DecideQuiet DEF List
  <2>4. CASE /\ pc' = [pc EXCEPT ![c] = "fetch"]
             /\ UNCHANGED <<copy, seen, job, number, verdict, goal, route>>
    <3>1. OthersKeep(c) /\ pc'[c] = "fetch"
      BY <2>4 DEF TypeOK, OthersKeep, Procs
    <3> QED BY <1>5, <2>1, <3>1, OffPath DEF List
  <2>5. {"completed", "job_failed", "real_aedt_disabled"} \subseteq Codes
    BY DEF Codes, Failures
  <2> QED BY <1>5, <2>2, <2>3, <2>4, <2>5, Zenon DEF List
<1>6. ASSUME Fetch(c) PROVE Quiet(c)
  <2>1. CASE Raise(c)
    BY <1>6, <2>1, <1>off, RaiseQuiet DEF Fetch
  <2>2. CASE ~Raise(c)
    <3>1. PICK j \in Jobs : job' = [job EXCEPT ![c] = j]
      BY <1>6, <2>2 DEF Fetch
    <3>2. /\ goal' = [goal EXCEPT ![c] = "acquire"]
          /\ pc' = [pc EXCEPT ![c] = "plan"]
          /\ pc[c] = "fetch"
          /\ UNCHANGED <<storeVars, copy, seen, picked, number, verdict, route, crashes>>
      BY <1>6, <2>2 DEF Fetch
    <3>3. OthersKeep(c) /\ pc'[c] = "plan" /\ goal'[c] = "acquire" /\ job'[c] \in Jobs
      BY <3>1, <3>2 DEF TypeOK, OthersKeep, Procs
    <3> QED BY <3>2, <3>3 DEF Paths, GoalFitsOf, RouteLeadsOf, MayAttempt, Codes, Failures
  <2> QED BY <2>1, <2>2
<1>7. ASSUME Plan(c) PROVE Quiet(c)
  <2>1. CASE Raise(c)
    BY <1>7, <2>1, <1>off, RaiseQuiet DEF Plan
  <2>2. CASE ~Raise(c)
    <3>1. /\ route' = [route EXCEPT ![c] = Route(goal[c], mission)]
          /\ pc' = [pc EXCEPT ![c] = "move"]
          /\ pc[c] = "plan"
          /\ UNCHANGED <<storeVars, copy, seen, picked, job, number, verdict, goal>>
      BY <1>7, <2>2 DEF Plan
    <3>2. /\ OthersKeep(c) /\ pc'[c] = "move" /\ goal'[c] = goal[c] /\ job'[c] = job[c]
          /\ route'[c] = Route(goal[c], mission)
      BY <3>1 DEF TypeOK, OthersKeep, Procs
    <3>3. goal[c] \in Codes => /\ route'[c] # <<>>
                               /\ route'[c][Len(route'[c])] = Target(goal[c])
      BY <3>2, RouteEnds DEF TypeOK
    <3> QED BY <3>1, <3>2, <3>3 DEF Paths, GoalFitsOf, RouteLeadsOf, MayAttempt
  <2> QED BY <2>1, <2>2
<1>8. ASSUME Move(c) PROVE Quiet(c)
  <2>1. CASE route[c] = <<>>
    <3>1. /\ OthersKeep(c) /\ UNCHANGED <<mission, attempts, final, goal, job, route>>
          /\ pc'[c] = IF goal[c] \in Codes THEN "conclude" ELSE goal[c]
          /\ pc[c] = "move"
      BY <1>8, <2>1, GotoQuiet DEF Move, Goto
    <3> QED BY <2>1, <3>1 DEF Paths, GoalFitsOf, RouteLeadsOf, MayAttempt, Codes, Failures
  <2>2. CASE route[c] # <<>> /\ CanWrite(mission, Head(route[c]))
    <3>1. /\ mission' = Head(route[c]) /\ pc[c] = "move"
          /\ route' = [route EXCEPT ![c] = Tail(@)]
          /\ UNCHANGED <<pc, copy, seen, picked, job, number, verdict, goal, attempts, final>>
      BY <1>8, <2>2 DEF Move
    <3>2. route'[c] = Tail(route[c]) /\ OthersKeep(c) /\ route[c] \in Seq(MissionState)
      BY <3>1 DEF TypeOK, OthersKeep, Procs
    <3>3. IF route'[c] = <<>> THEN mission' = route[c][Len(route[c])]
                              ELSE route'[c][Len(route'[c])] = route[c][Len(route[c])]
      BY <2>2, <3>1, <3>2, LastOfTail
    <3> QED BY <2>2, <3>1, <3>2, <3>3 DEF Paths, GoalFitsOf, RouteLeadsOf, MayAttempt
  <2>3. CASE route[c] # <<>> /\ ~CanWrite(mission, Head(route[c]))
    BY <1>8, <2>3, <1>off, RaiseQuiet DEF Move
  <2> QED BY <2>1, <2>2, <2>3
<1>9. ASSUME Acquire(c) PROVE Quiet(c)
  <2>1. CASE Raise(c)
    BY <1>9, <2>1, <1>off, RaiseQuiet DEF Acquire
  <2>2. CASE Goto(c, "attempt")
    <3>1. /\ OthersKeep(c) /\ UNCHANGED <<mission, attempts, final, job>>
          /\ pc'[c] = "attempt" /\ pc[c] = "acquire"
      BY <1>9, <2>2, GotoQuiet DEF Acquire, Goto
    <3> QED BY <3>1 DEF Paths, GoalFitsOf, RouteLeadsOf, MayAttempt
  <2> QED BY <1>9, <2>1, <2>2 DEF Acquire
<1>10. ASSUME Run(c) PROVE Quiet(c)
  BY <1>10, <1>off DEF Run, TypeOK, OthersKeep, Procs
<1>11. ASSUME Commit(c) PROVE Quiet(c)
  <2>1. CASE Raise(c) \/ Goto(c, "ask") \/ Goto(c, "release")
    BY <1>11, <2>1, <1>off, RaiseQuiet, GotoQuiet DEF Commit
  <2>2. CASE /\ goal' = [goal EXCEPT ![c] = "release"]
             /\ route' = [route EXCEPT ![c] = <<"EVALUATING">>]
             /\ pc' = [pc EXCEPT ![c] = "move"]
             /\ UNCHANGED <<copy, seen, picked, job, number, verdict>>
    <3>1. OthersKeep(c) /\ pc'[c] = "move" /\ goal'[c] = "release"
      BY <2>2 DEF TypeOK, OthersKeep, Procs
    <3> QED BY <1>11, <3>1
            DEF Commit, Paths, GoalFitsOf, RouteLeadsOf, MayAttempt, Codes, Failures
  <2> QED BY <1>11, <2>1, <2>2 DEF Commit
<1>12. ASSUME Ask(c) PROVE Quiet(c)
  <2>1. OthersKeep(c) /\ pc'[c] = "move" /\ goal'[c] = "release"
    BY <1>12 DEF Ask, TypeOK, OthersKeep, Procs
  <2> QED BY <1>12, <2>1 DEF Ask, Paths, GoalFitsOf, RouteLeadsOf, MayAttempt, Codes, Failures
<1>13. ASSUME Release(c) PROVE Quiet(c)
  BY <1>13, <1>off, RaiseQuiet, GotoQuiet DEF Release
<1>14. ASSUME Requeue(c) PROVE Quiet(c)
  BY <1>14, <1>off, GotoQuiet DEF Requeue
<1>15. ASSUME Sync(c, "resync", "after") PROVE Quiet(c)
  BY <1>15, <1>off DEF Sync, TypeOK, OthersKeep, Procs
<1>16. ASSUME After(c) PROVE Quiet(c)
  <2>1. CASE Goto(c, "remaining")
    BY <1>16, <2>1, <1>off, GotoQuiet DEF After
  <2>2. CASE \E to, increment, retry : Decide(c, to, increment, retry)
    BY <1>16, <2>2, <1>off, DecideQuiet DEF After
  <2>3. ASSUME NEW code \in Codes, Conclude(c, code, 1) PROVE Quiet(c)
    BY <1>16, <2>3, ConcludeQuiet DEF After
  <2>4. {"budget_exhausted", "job_failed"} \subseteq Codes
    BY DEF Codes, Failures
  <2> QED BY <1>16, <2>1, <2>2, <2>3, <2>4, Zenon DEF After
<1>17. ASSUME Remaining(c) PROVE Quiet(c)
  <2>1. ASSUME NEW code \in Codes, Conclude(c, code, 1) PROVE Quiet(c)
    BY <1>17, <2>1, ConcludeQuiet DEF Remaining
  <2>2. CASE /\ goal' = [goal EXCEPT ![c] = "record"]
             /\ pc' = [pc EXCEPT ![c] = "plan"]
             /\ copy' = [copy EXCEPT ![c] = Decided(@, "active", 1, FALSE)]
             /\ UNCHANGED <<seen, picked, job, number, verdict, route>>
    <3>1. OthersKeep(c) /\ pc'[c] = "plan" /\ goal'[c] = "record"
      BY <2>2 DEF TypeOK, OthersKeep, Procs
    <3> QED BY <1>17, <3>1
            DEF Remaining, Paths, GoalFitsOf, RouteLeadsOf, MayAttempt, Codes, Failures
  <2>3. {"budget_exhausted", "completed"} \subseteq Codes
    BY DEF Codes, Failures
  <2> QED BY <1>17, <2>1, <2>2, <2>3, Zenon DEF Remaining
<1>18. ASSUME Record(c) PROVE Quiet(c)
  BY <1>18, <1>off, RaiseQuiet DEF Record
<1>19. ASSUME RecordEnd(c) PROVE Quiet(c)
  <2>1. /\ OthersKeep(c) /\ UNCHANGED <<mission, attempts, final, goal>>
        /\ pc'[c] = "outcome" /\ pc[c] = "conclude"
    BY <1>19, GotoQuiet DEF RecordEnd, Goto
  <2> QED BY <2>1 DEF Paths, GoalFitsOf, RouteLeadsOf, MayAttempt
<1> QED
  BY <1>1, <1>2, <1>3, <1>4, <1>5, <1>6, <1>7, <1>8, <1>9, <1>10, <1>11, <1>12, <1>13,
     <1>14, <1>15, <1>16, <1>17, <1>18, <1>19 DEF QuietStep

-----------------------------------------------------------------------------
(* The parts of the invariant *)

LEMMA MissionFinal ==
  ASSUME MissionMoves, mission \in {"COMPLETED", "FAILED"}
  PROVE  mission' = mission
BY DEF MissionMoves, CanWrite, AllowedTransitions

(* The path of a controller outlives the steps of others, because what it   *)
(* has written last is a terminal state.                                    *)
LEMMA PathsKept ==
  ASSUME PathsFit, MissionMoves, NEW p, OthersKeep(p), p \in Controllers => Paths(p)
  PROVE  PathsFit'
<1> SUFFICES ASSUME NEW d \in Controllers PROVE GoalFitsOf(d)' /\ RouteLeadsOf(d)'
  BY DEF PathsFit
<1>1. CASE d = p
  BY <1>1 DEF Paths
<1>2. CASE d # p
  <2>1. GoalFitsOf(d) /\ RouteLeadsOf(d)
    BY DEF PathsFit
  <2>2. /\ pc'[d] = pc[d] /\ goal'[d] = goal[d] /\ route'[d] = route[d]
        /\ job'[d] = job[d]
    BY <1>2 DEF OthersKeep, Procs
  <2>3. GoalFitsOf(d)'
    BY <2>1, <2>2 DEF GoalFitsOf
  <2>4. mission = Target(goal[d]) => mission' = mission
    BY MissionFinal DEF Target
  <2>5. RouteLeadsOf(d)'
    BY <2>1, <2>2, <2>4 DEF RouteLeadsOf, Target
  <2> QED BY <2>3, <2>5
<1> QED BY <1>1, <1>2

LEMMA OutcomeKept ==
  ASSUME OutcomeMatches, MissionMoves, UNCHANGED final
  PROVE  OutcomeMatches'
BY MissionFinal DEF OutcomeMatches, Failures

LEMMA PermittedFinite ==
  /\ IsFiniteSet(Permitted) /\ IsFiniteSet(Controllers)
  /\ Cardinality(Permitted) \in Nat /\ Cardinality(Controllers) \in Nat
<1>1. Permitted \subseteq Controllers /\ IsFiniteSet(Controllers)
  BY LoopAssumption DEF Permitted
<1> QED BY <1>1, FS_Subset, FS_CardinalityType

LEMMA PermitsKept ==
  ASSUME TypeOK, PermitsBounded, UNCHANGED attempts,
         \A d \in Controllers : MayAttempt(d)' => MayAttempt(d)
  PROVE  PermitsBounded'
<1>1. Permitted' \subseteq Permitted
  BY DEF Permitted
<1>2. Cardinality(Permitted') \in Nat /\ Cardinality(Permitted') <= Cardinality(Permitted)
  BY <1>1, PermittedFinite, FS_Subset, FS_CardinalityType
<1>3. Cardinality(attempts) \in Nat
  BY FS_CardinalityType DEF TypeOK
<1> QED BY <1>2, <1>3, PermittedFinite, LoopAssumption DEF PermitsBounded

LEMMA OthersMay ==
  ASSUME NEW p, OthersKeep(p), NEW d \in Controllers \ {p}
  PROVE  MayAttempt(d)' <=> MayAttempt(d)
BY DEF OthersKeep, Procs, MayAttempt

Others == PathsFit /\ OutcomeMatches /\ PermitsBounded

LEMMA QuietKeeps ==
  ASSUME TypeOK, Others, NEW c \in Controllers, Quiet(c)
  PROVE  Others'
<1>1. \A d \in Controllers : MayAttempt(d)' => MayAttempt(d)
  BY OthersMay DEF Quiet
<1> QED BY <1>1, PathsKept, OutcomeKept, PermitsKept DEF Others, Quiet

LEMMA SyncKeeps ==
  ASSUME TypeOK, Others, NEW c \in Controllers, Sync(c, "sync", "assess")
  PROVE  Others'
<1>1. /\ OthersKeep(c) /\ pc'[c] = "assess" /\ copy'[c].attempts = Cardinality(attempts)
      /\ UNCHANGED <<mission, final, attempts>>
  <2>1. copy' = [copy EXCEPT ![c] = [copy[c] EXCEPT !.attempts = Cardinality(attempts)]]
    BY DEF Sync
  <2>2. copy'[c].attempts = Cardinality(attempts)
    BY <2>1 DEF TypeOK, Loop
  <2> QED BY <2>1, <2>2 DEF Sync, TypeOK, OthersKeep, Procs
<1>2. PathsFit' /\ OutcomeMatches'
  BY <1>1, OffPath, PathsKept, OutcomeKept DEF Others, MissionMoves
<1>3. Cardinality(attempts) \in Nat /\ MaxAttempts \in Nat
  BY FS_CardinalityType, LoopAssumption DEF TypeOK
<1>4. CASE Cardinality(attempts) < MaxAttempts
  BY <1>1, <1>2, <1>3, <1>4 DEF Others, PermitsBounded
<1>5. CASE ~(Cardinality(attempts) < MaxAttempts)
  <2>1. ~MayAttempt(c)'
    BY <1>1, <1>3, <1>5 DEF MayAttempt
  <2>2. \A d \in Controllers : MayAttempt(d)' => MayAttempt(d)
    BY <1>1, <2>1, OthersMay
  <2> QED BY <1>1, <1>2, <2>2, PermitsKept DEF Others
<1> QED BY <1>4, <1>5

(* The step that uses a permit up: the first attempt over the budget can    *)
(* only be made while this controller, at least, asks for no other.         *)
LEMMA AttemptKeeps ==
  ASSUME TypeOK, Others, NEW c \in Controllers, Attempt(c)
  PROVE  Others'
<1>1. /\ OthersKeep(c) /\ pc[c] = "attempt" /\ pc'[c] \in {"run", "idle", "release"}
      /\ UNCHANGED <<mission, final>>
  <2>1. CASE Raise(c)
    BY <2>1, RaiseQuiet DEF Attempt
  <2>2. CASE ~Raise(c)
    BY <2>2 DEF Attempt, TypeOK, OthersKeep, Procs
  <2> QED BY <2>1, <2>2
<1>2. PathsFit' /\ OutcomeMatches'
  BY <1>1, OffPath, PathsKept, OutcomeKept DEF Others, MissionMoves
<1>3. MayAttempt(c) /\ ~MayAttempt(c)'
  BY <1>1 DEF MayAttempt
<1>4. Permitted' \subseteq Permitted \ {c} /\ c \in Permitted
  BY <1>1, <1>3, OthersMay DEF Permitted
<1>5. /\ Cardinality(Permitted') \in Nat /\ Cardinality(Permitted') <= Cardinality(Permitted) - 1
      /\ Cardinality(Permitted') <= Cardinality(Controllers) - 1
      /\ Cardinality(Permitted) \in Nat /\ Cardinality(Controllers) \in Nat
  <2>1. /\ IsFiniteSet(Permitted \ {c}) /\ Cardinality(Permitted \ {c}) = Cardinality(Permitted) - 1
    BY <1>4, PermittedFinite, FS_RemoveElement
  <2>2. /\ IsFiniteSet(Controllers \ {c})
        /\ Cardinality(Controllers \ {c}) = Cardinality(Controllers) - 1
    BY PermittedFinite, FS_RemoveElement
  <2>3. Permitted' \subseteq Controllers \ {c}
    BY <1>4 DEF Permitted
  <2>4. Cardinality(Permitted') <= Cardinality(Permitted \ {c})
    BY <1>4, <2>1, FS_Subset
  <2>5. Cardinality(Permitted') <= Cardinality(Controllers \ {c}) /\ IsFiniteSet(Permitted')
    BY <2>2, <2>3, FS_Subset
  <2>6. Cardinality(Permitted') \in Nat
    BY <2>5, FS_CardinalityType
  <2> QED BY <2>1, <2>2, <2>4, <2>5, <2>6, PermittedFinite
<1>6. /\ Cardinality(attempts) \in Nat /\ MaxAttempts \in Nat
      /\ \/ Cardinality(attempts') = Cardinality(attempts)
         \/ Cardinality(attempts') = Cardinality(attempts) + 1
  <2>1. IsFiniteSet(attempts)
    BY DEF TypeOK
  <2>2. \/ attempts' = attempts
        \/ \E a : attempts' = attempts \cup {a}
    BY DEF Attempt
  <2> QED BY <2>1, <2>2, FS_AddElement, FS_CardinalityType, LoopAssumption
<1>7. PermitsBounded'
  BY <1>5, <1>6 DEF Others, PermitsBounded
<1> QED BY <1>2, <1>7 DEF Others

LEMMA SetOutcomeKeeps ==
  ASSUME TypeOK, Others, NEW c \in Controllers, SetOutcome(c)
  PROVE  Others'
<1>1. /\ OthersKeep(c) /\ pc[c] = "outcome" /\ pc'[c] \in {"idle", "release"}
      /\ UNCHANGED <<mission, attempts>>
  BY RaiseQuiet DEF SetOutcome
<1>2. goal[c] \in Codes /\ mission = Target(goal[c])
  BY <1>1 DEF Others, PathsFit, GoalFitsOf, RouteLeadsOf
<1>3. OutcomeMatches'
  BY <1>1, <1>2 DEF SetOutcome, Others, OutcomeMatches, Target, Codes, Failures
<1>4. PathsFit'
  BY <1>1, OffPath, PathsKept DEF Others, MissionMoves
<1>5. \A d \in Controllers : MayAttempt(d)' => MayAttempt(d)
  BY <1>1, OthersMay DEF MayAttempt
<1> QED BY <1>1, <1>3, <1>4, <1>5, PermitsKept DEF Others

-----------------------------------------------------------------------------
(* The steps of reviewers, operators and the clock *)

LEMMA OtherSteps ==
  ASSUME TypeOK, Others, ReviewsFit,
         \/ \E r \in Reviewers : Review(r)
         \/ \E p \in Procs : Crash(p)
         \/ Cancel \/ RecoverExpired \/ Elapse
  PROVE  TypeOK' /\ Others' /\ ReviewsFit'
<1> USE DEF storeVars, ledgerVars
<1>a. StoreTypeOK /\ LocalTypeOK
  BY TypeParts
<1>b. StoreTypeOK' /\ LocalTypeOK' => TypeOK'
  BY DEF TypeOK, StoreTypeOK, LocalTypeOK
<1>keep. ASSUME NEW p \in Procs, OthersKeep(p), MissionMoves, UNCHANGED <<attempts, final>>,
                p \in Controllers => pc'[p] = "idle"
         PROVE  Others'
  <2>1. p \in Controllers => Paths(p)
    BY <1>keep, OffPath
  <2>2. \A d \in Controllers : MayAttempt(d)' => MayAttempt(d)
    BY <1>keep, OthersMay DEF MayAttempt
  <2> QED BY <1>keep, <2>1, <2>2, PathsKept, OutcomeKept, PermitsKept DEF Others
<1>still. ASSUME UNCHANGED localVars, MissionMoves, UNCHANGED <<attempts, final>>
          PROVE  Others' /\ ReviewsFit' /\ LocalTypeOK'
  <2>1. \A p : OthersKeep(p)
    BY <1>still DEF localVars, OthersKeep, Procs
  <2>2. PathsFit'
    <3>1. PICK p : p \notin Controllers
      BY NoSetContainsEverything
    <3> QED BY <1>still, <2>1, <3>1, PathsKept DEF Others
  <2>3. \A d \in Controllers : MayAttempt(d)' => MayAttempt(d)
    BY <1>still DEF localVars, MayAttempt
  <2>4. LocalTypeOK' /\ ReviewsFit'
    BY <1>a, <1>still DEF localVars, LocalTypeOK, ReviewsFit
  <2> QED BY <1>still, <2>2, <2>3, <2>4, OutcomeKept, PermitsKept DEF Others
<1>rev. ASSUME NEW r \in Reviewers PROVE r \in Procs /\ r \notin Controllers
  BY <1>rev, LoopAssumption DEF Procs
<1>1. ASSUME NEW r \in Reviewers, NEW j \in Jobs, NEW decision \in {"approved", "rejected"},
             Open(r, j, decision)
      PROVE  TypeOK' /\ Others' /\ ReviewsFit'
  <2>1. OthersKeep(r)
    BY <1>1, <1>rev DEF Open, OthersKeep, Procs, TypeOK
  <2>2. LocalTypeOK'
    BY <1>a, <1>1, <1>rev DEF Open, LocalTypeOK, PC
  <2>3. StoreTypeOK'
    BY <1>a, <1>1 DEF Open, StoreTypeOK
  <2>4. ReviewsFit'
    BY <1>1, <1>rev DEF Open, ReviewsFit, TypeOK, Procs
  <2> QED BY <1>1, <1>b, <1>keep, <1>rev, <2>1, <2>2, <2>3, <2>4 DEF Open, MissionMoves
<1>2. ASSUME NEW r \in Reviewers, Resolve(r) PROVE TypeOK' /\ Others' /\ ReviewsFit'
  <2>1. verdict[r] \in {"approved", "rejected"}
    BY <1>2 DEF Resolve, ReviewsFit
  <2>2. StoreTypeOK'
    BY <1>a, <1>2, <2>1 DEF Resolve, StoreTypeOK
  <2>3. LocalTypeOK'
    BY <1>a, <1>2, <1>rev, GotoType DEF Resolve, PC
  <2>4. OthersKeep(r) /\ ReviewsFit'
    BY <1>2, <1>rev DEF Resolve, Goto, OthersKeep, ReviewsFit, TypeOK, Procs
  <2> QED BY <1>2, <1>b, <1>keep, <1>rev, <2>2, <2>3, <2>4 DEF Resolve, MissionMoves
<1>3. ASSUME NEW r \in Reviewers, Notify(r) PROVE TypeOK' /\ Others' /\ ReviewsFit'
  <2>1. LocalTypeOK'
    BY <1>a, <1>3, <1>rev, DismissType DEF Notify
  <2>2. MissionMoves /\ mission' \in MissionState
    BY <1>3 DEF Notify, MissionMoves, TypeOK, MissionState
  <2>3. StoreTypeOK'
    BY <1>a, <1>3, <2>2 DEF Notify, StoreTypeOK
  <2>4. OthersKeep(r) /\ ReviewsFit'
    BY <1>3, <1>rev DEF Notify, Dismiss, OthersKeep, ReviewsFit, TypeOK, Procs
  <2> QED BY <1>3, <1>b, <1>keep, <1>rev, <2>1, <2>2, <2>3, <2>4 DEF Notify
<1>4. ASSUME NEW p \in Procs, Crash(p) PROVE TypeOK' /\ Others' /\ ReviewsFit'
  <2>1. /\ MissionMoves /\ UNCHANGED <<attempts, final>>
        /\ StoreTypeOK'
    BY <1>a, <1>4 DEF Crash, MissionMoves, StoreTypeOK
  <2>2. CASE p \in Controllers
    <3>1. Forget(p)
      BY <1>4, <2>2 DEF Crash
    <3>2. LocalTypeOK'
      BY <1>a, <2>2, <3>1, ForgetType
    <3>3. OthersKeep(p) /\ pc'[p] = "idle" /\ ReviewsFit'
      BY <2>2, <3>1 DEF Forget, OthersKeep, ReviewsFit, TypeOK, Procs
    <3> QED BY <1>b, <1>keep, <2>1, <3>2, <3>3
  <2>3. CASE p \notin Controllers
    <3>1. Dismiss(p)
      BY <1>4, <2>3 DEF Crash
    <3>2. LocalTypeOK'
      BY <1>a, <3>1, DismissType
    <3>3. OthersKeep(p) /\ ReviewsFit'
      BY <3>1 DEF Dismiss, OthersKeep, ReviewsFit, TypeOK, Procs
    <3> QED BY <1>b, <1>keep, <2>1, <2>3, <3>2, <3>3
  <2> QED BY <2>2, <2>3
<1>5. ASSUME Cancel PROVE TypeOK' /\ Others' /\ ReviewsFit'
  BY <1>a, <1>5, <1>b, <1>still DEF Cancel, MissionMoves, StoreTypeOK, MissionState
<1>6. ASSUME RecoverExpired PROVE TypeOK' /\ Others' /\ ReviewsFit'
  <2>1. StoreTypeOK'
    BY <1>a, <1>6 DEF RecoverExpired, Ledger!Recover, StoreTypeOK
  <2> QED BY <1>6, <1>b, <1>still, <2>1 DEF RecoverExpired, MissionMoves
<1>7. ASSUME Elapse PROVE TypeOK' /\ Others' /\ ReviewsFit'
  BY <1>a, <1>7, <1>b, <1>still DEF Elapse, MissionMoves, StoreTypeOK
<1> QED BY <1>1, <1>2, <1>3, <1>4, <1>5, <1>6, <1>7 DEF Review

(* No step of a controller touches a reviewer. *)
LEMMA ReviewersKept ==
  ASSUME TypeOK, ReviewsFit, NEW c \in Controllers,
         Advance(c) \/ \E command \in {"none", "status"} : Begin(c, command)
  PROVE  ReviewsFit'
<1>1. ASSUME NEW r \in Reviewers PROVE r # c /\ r \in Procs /\ c \in Procs
  BY <1>1, LoopAssumption DEF Procs
<1> USE <1>1 DEF ReviewsFit, TypeOK
<1>2. ASSUME Forget(c) PROVE ReviewsFit'
  BY <1>2 DEF Forget
<1>3. ASSUME Raise(c) PROVE ReviewsFit'
  BY <1>2, <1>3 DEF Raise
<1>4. ASSUME NEW label, Goto(c, label) PROVE ReviewsFit'
  BY <1>4 DEF Goto
<1>5. ASSUME NEW label, pc' = [pc EXCEPT ![c] = label], UNCHANGED verdict PROVE ReviewsFit'
  BY <1>5
<1>6. ASSUME NEW code, NEW increment, Conclude(c, code, increment) PROVE ReviewsFit'
  BY <1>5, <1>6 DEF Conclude
<1>7. ASSUME NEW to, NEW increment, NEW retry, Decide(c, to, increment, retry) PROVE ReviewsFit'
  BY <1>5, <1>7 DEF Decide
<1> USE <1>2, <1>3, <1>4, <1>5, <1>6, <1>7
<1>8. ASSUME Load(c) \/ Insert(c) \/ Sync(c, "sync", "assess") \/ Assess(c) \/ List(c)
             \/ Fetch(c) \/ Plan(c)
      PROVE  ReviewsFit'
  BY <1>8 DEF Load, Insert, Sync, Assess, List, Fetch, Plan
<1>9. ASSUME Move(c) \/ Acquire(c) \/ Attempt(c) \/ Run(c) \/ Commit(c)
      PROVE  ReviewsFit'
  BY <1>9 DEF Move, Acquire, Attempt, Run, Commit
<1>10. ASSUME Ask(c) \/ Release(c) \/ Requeue(c) \/ Sync(c, "resync", "after") \/ After(c)
      PROVE  ReviewsFit'
  BY <1>10 DEF Ask, Release, Requeue, Sync, After
<1>11. ASSUME Remaining(c) \/ Record(c) \/ RecordEnd(c) \/ SetOutcome(c)
      PROVE  ReviewsFit'
  BY <1>11 DEF Remaining, Record, RecordEnd, SetOutcome
<1>12. ASSUME NEW command, Begin(c, command) PROVE ReviewsFit'
  BY <1>12 DEF Begin
<1> QED BY <1>8, <1>9, <1>10, <1>11, <1>12 DEF Advance

-----------------------------------------------------------------------------
(* The theorems *)

LEMMA InitInvariant == Init => IInv
<1> SUFFICES ASSUME Init PROVE IInv
  OBVIOUS
<1>1. LocalTypeOK
  BY NoLoopType, EmptyRouteType DEF Init, LocalTypeOK, PC, Procs, MissionState, NoJob
<1>2. StoreTypeOK
  BY NoLoopType, FS_EmptySet DEF Init, Ledger!Init, StoreTypeOK, MissionState
<1>3. PathsFit /\ ReviewsFit /\ OutcomeMatches
  BY DEF Init, PathsFit, GoalFitsOf, RouteLeadsOf, ReviewsFit, OutcomeMatches, Procs,
         Failures, Codes
<1>4. PermitsBounded
  BY FS_EmptySet, LoopAssumption DEF Init, PermitsBounded
<1> QED BY <1>1, <1>2, <1>3, <1>4, TypeParts DEF IInv

LEMMA StepInvariant == IInv /\ [Next]_vars => IInv'
<1> SUFFICES ASSUME IInv, [Next]_vars PROVE IInv'
  OBVIOUS
<1>a. TypeOK /\ Others /\ ReviewsFit
  BY DEF IInv, Others
<1>b. TypeOK' /\ Others' /\ ReviewsFit' => IInv'
  BY DEF IInv, Others
<1>1. ASSUME NEW c \in Controllers,
             Advance(c) \/ \E command \in {"none", "status"} : Begin(c, command)
      PROVE  IInv'
  <2>1. GoalFitsOf(c) /\ RouteLeadsOf(c)
    BY <1>a DEF Others, PathsFit
  <2>2. TypeOK' /\ ReviewsFit'
    BY <1>a, <1>1, <2>1, LoopTypeInductive, ReviewersKept
  <2>3. CASE QuietStep(c)
    BY <1>a, <1>b, <2>1, <2>2, <2>3, QuietSteps, QuietKeeps
  <2>4. CASE Sync(c, "sync", "assess") \/ Attempt(c) \/ SetOutcome(c)
    BY <1>a, <1>b, <2>2, <2>4, SyncKeeps, AttemptKeeps, SetOutcomeKeeps
  <2>5. QuietStep(c) \/ Sync(c, "sync", "assess") \/ Attempt(c) \/ SetOutcome(c)
    BY <1>1, Zenon DEF Advance, QuietStep
  <2> QED BY <2>3, <2>4, <2>5
<1>2. ASSUME \/ \E r \in Reviewers : Review(r)
             \/ \E p \in Procs : Crash(p)
             \/ Cancel \/ RecoverExpired \/ Elapse
      PROVE  IInv'
  <2>1. TypeOK' /\ Others' /\ ReviewsFit'
    BY <1>a, <1>2, OtherSteps, Zenon
  <2> QED BY <1>b, <2>1
<1>3. CASE UNCHANGED vars
  BY <1>3 DEF vars, storeVars, ledgerVars, localVars, IInv, TypeOK, PathsFit, GoalFitsOf,
              RouteLeadsOf, ReviewsFit, OutcomeMatches, PermitsBounded, Permitted, MayAttempt
<1> QED BY <1>1, <1>2, <1>3, Zenon DEF Next

(* Every reachable state satisfies the inductive invariant: in particular   *)
(* a controller that writes the mission's state has decided what for, and   *)
(* what it has left to write leads to the outcome it will record.           *)
THEOREM Invariance == Spec => []IInv
<1> QED BY InitInvariant, StepInvariant, PTL DEF Spec

(* The variables keep their types: execute_job always has a job in hand, a  *)
(* reviewer always a decision, and the mission is in one of its states.     *)
THEOREM TypeCorrect == Spec => []TypeOK
<1>1. IInv => TypeOK
  BY DEF IInv
<1> QED BY <1>1, Invariance, PTL

(* missions.final_outcome_json tells the truth about missions.state, for    *)
(* any number of processes that advance, cancel, review and die: what       *)
(* _complete and _terminate write two transactions after the state is what  *)
(* the state says, because a terminal state is never left.                  *)
THEOREM OutcomeIsTrue == Spec => []OutcomeMatches
<1>1. IInv => OutcomeMatches
  BY DEF IInv
<1> QED BY <1>1, Invariance, PTL

(* n processes that advance one mission add at most n - 1 attempts to       *)
(* max_job_attempts, although each of them checks the budget against a      *)
(* count that others have overtaken by the time it starts its attempt.      *)
THEOREM BudgetBound == Spec => []AttemptsBounded
<1>1. ASSUME IInv PROVE AttemptsBounded
  <2>1. /\ Cardinality(attempts) \in Nat /\ Cardinality(Controllers) \in Nat
        /\ Cardinality(Permitted) \in Nat /\ MaxAttempts \in Nat
    BY <1>1, PermittedFinite, FS_CardinalityType, LoopAssumption DEF IInv, TypeOK
  <2>2. CASE Cardinality(attempts) >= MaxAttempts
    BY <1>1, <2>1, <2>2 DEF IInv, PermitsBounded, AttemptsBounded
  <2>3. CASE Cardinality(attempts) < MaxAttempts
    BY <2>1, <2>3 DEF AttemptsBounded
  <2> QED BY <2>1, <2>2, <2>3
<1>2. IInv => AttemptsBounded
  BY <1>1
<1> QED BY <1>2, Invariance, PTL
-----------------------------------------------------------------------------
(* What is behind the end of a mission, while one controller and one         *)
(* reviewer at a time are at work.                                           *)
OneController == \A c, d \in Controllers : c = d
OneReviewer == \A q, r \in Reviewers : q = r

Entering == {"load", "insert", "sync", "assess", "list", "fetch"}
Working == {"acquire", "attempt", "run", "commit", "ask"}
Judging == {"release", "requeue", "resync", "after"}
Failing == {"retry", "error"}
FailedSome == \E j \in Jobs : status[j] = "failed"

AtRest(c) ==
  \/ pc[c] = "idle"
  \/ pc[c] \in {"load", "insert", "sync", "assess"} /\ seen[c] \in TerminalMission

(* A job is in hand from the fetch to the judgement.  It is the one that was *)
(* listed first, unless that one was overtaken and still waits; so what is   *)
(* judged a failure is one.                                                 *)
InHand(c) ==
  \/ pc[c] \in Working \cup Judging
  \/ pc[c] \in {"plan", "move"} /\ goal[c] \in {"acquire", "release"}
JudgedRight(c) ==
  /\ pc[c] = "fetch" => picked[c] \in Jobs /\ status[picked[c]] = "queued"
  /\ InHand(c) =>
       /\ picked[c] \in Jobs /\ job[c] \in Jobs
       /\ picked[c] # job[c] => status[picked[c]] = "queued"
  /\ pc[c] = "commit" => verdict[c] \in Success \cup Failing \cup {"canceled"}
  /\ pc[c] = "ask" \/ (pc[c] = "move" /\ goal[c] = "release") => verdict[c] \in Success
  /\ pc[c] \in {"release", "requeue"} /\ verdict[c] \in Failing => status[job[c]] = "failed"
  /\ pc[c] \in Judging /\ verdict[c] \in Failing => status[job[c]] \in {"failed", "queued"}
  /\ pc[c] \in Entering \cup {"acquire", "attempt"} => goal[c] # "release"
  /\ goal[c] = "job_failed" => FailedSome /\ pc[c] \in {"plan", "move", "conclude", "outcome"}
  /\ final = "job_failed" => AtRest(c)

JudgeInv ==
  /\ \A c \in Controllers : JudgedRight(c)
  /\ final = "job_failed" => FailedSome

(* What is left to write, for each goal.                                    *)
Routes(to) ==
  CASE to \in {"acquire", "record"} ->
         {<<>>, <<"WAITING_WORKER">>, <<"PLANNING", "WAITING_WORKER">>}
    [] to = "release" -> {<<>>, <<"EVALUATING">>, <<"WAITING_APPROVAL">>}
    [] to = "completed" ->
         {<<>>, <<"COMPLETED">>, <<"EVALUATING", "COMPLETED">>,
          <<"WAITING_WORKER", "EVALUATING", "COMPLETED">>,
          <<"PLANNING", "WAITING_WORKER", "EVALUATING", "COMPLETED">>}
    [] OTHER -> {<<>>, <<"FAILED">>, <<"PLANNING", "FAILED">>}

(* As long as nobody has died: a job is leased to the controller at work on  *)
(* it; a job that failed has stopped the mission or is about to be judged;   *)
(* and a mission completes only when all jobs are done.                     *)
Stopped == mission \in {"FAILED", "CANCELED"}
WorkRight(c) ==
  /\ \A j \in Jobs : status[j] = "leased" =>
       owners[j] = {c} /\ job[c] = j /\ pc[c] \in {"attempt", "run", "commit"}
  /\ \A j \in Jobs : status[j] = "failed" =>
       \/ Stopped
       \/ /\ job[c] = j /\ picked[c] = j
          /\ pc[c] \in Judging /\ verdict[c] \in Failing
       \/ /\ goal[c] = "job_failed" /\ pc[c] \in {"plan", "move"}
          /\ pc[c] = "move" => route[c] = <<"FAILED">>
  /\ pc[c] = "fetch" => NextQueued(picked[c])
  /\ InHand(c) => picked[c] = job[c]
  /\ verdict[c] = "canceled" => mission = "CANCELED"
  /\ goal[c] = "completed" =>
       pc[c] \in {"plan", "move", "conclude", "outcome"} /\ (JobsSucceeded \/ Stopped)

(* Where the mission is tells where the controller can be.                  *)
Requesting(c) == pc[c] = "move" /\ route[c] = <<"WAITING_APPROVAL">>
StateRight(c) ==
  /\ pc[c] = "move" => route[c] \in Routes(goal[c])
  /\ mission = "CREATED" =>
       /\ pc[c] \notin Working \cup Judging \cup {"remaining"}
       /\ pc[c] = "move" => goal[c] # "release"
       /\ pc[c] = "move" /\ goal[c] = "acquire" => route[c] = <<"PLANNING", "WAITING_WORKER">>
  /\ mission = "WAITING_APPROVAL" =>
       /\ pc[c] \notin Working
       /\ pc[c] = "move" =>
            goal[c] # "acquire" /\ route[c] \in {<<>>, <<"FAILED">>, <<"COMPLETED">>}
  /\ mission = "COMPLETED" =>
       \/ AtRest(c)
       \/ goal[c] = "completed" /\ pc[c] # "plan" /\ (pc[c] = "move" => route[c] = <<>>)

(* Who has asked moves the mission at once, and nobody asks again before the *)
(* one reviewer has answered: one approval waits at a time.                  *)
Gated == mission = "WAITING_APPROVAL" \/ \E c \in Controllers : Requesting(c)
ReviewRight(r) ==
  /\ pc[r] \in {"resolve", "notify"} => Stopped \/ Gated
  /\ pc[r] = "resolve" => job[r] \in Jobs /\ approval[job[r]] = "pending"
  /\ pc[r] = "notify" => Stopped \/ NothingPending
PendingRight ==
  /\ \A r \in Reviewers : ReviewRight(r)
  /\ \A j \in Jobs : approval[j] = "pending" => Stopped \/ Gated
  /\ \A i, j \in Jobs : approval[i] = "pending" /\ approval[j] = "pending" => i = j \/ Stopped

LedgerRight ==
  /\ \A j \in Jobs : status[j] = "canceled" => mission = "CANCELED"
  /\ mission = "CREATED" => \A j \in Jobs : status[j] = "queued" /\ approval[j] = "none"
  /\ mission = "COMPLETED" => JobsSucceeded

FaultlessInv ==
  /\ \A c \in Controllers : WorkRight(c) /\ StateRight(c)
  /\ PendingRight /\ LedgerRight

EndInv == IInv /\ JudgeInv /\ (crashes = 0 => FaultlessInv)

ReviewersStay == \A r \in Reviewers : pc'[r] = pc[r] /\ job'[r] = job[r]
EndNext == JudgeInv' /\ (crashes' = 0 => FaultlessInv')

LEMMA EndParts ==
  ASSUME EndInv, NEW c \in Controllers
  PROVE  /\ TypeOK /\ GoalFitsOf(c) /\ OutcomeMatches /\ JudgedRight(c)
         /\ c \in Procs /\ c \notin Reviewers
         /\ crashes = 0 => WorkRight(c) /\ StateRight(c) /\ PendingRight /\ LedgerRight
BY LoopAssumption DEF EndInv, IInv, PathsFit, JudgeInv, FaultlessInv, Procs

(* What the steps of control leave in the controller's hands.               *)
LEMMA GotoIs ==
  ASSUME TypeOK, NEW c \in Controllers, NEW label, Goto(c, label)
  PROVE  /\ ReviewersStay /\ pc'[c] = label
         /\ UNCHANGED <<copy, seen, picked, job, number, verdict, goal, route>>
BY LoopAssumption DEF TypeOK, Goto, ReviewersStay, Procs

LEMMA ForgetIs ==
  ASSUME TypeOK, NEW c \in Controllers, Forget(c)
  PROVE  /\ ReviewersStay /\ pc'[c] = "idle" /\ goal'[c] = "none" /\ verdict'[c] = "none"
BY LoopAssumption DEF TypeOK, Forget, ReviewersStay, Procs

LEMMA ConcludeIs ==
  ASSUME TypeOK, NEW c \in Controllers, NEW code, NEW increment, Conclude(c, code, increment)
  PROVE  /\ ReviewersStay /\ pc'[c] = "plan" /\ goal'[c] = code
         /\ UNCHANGED <<seen, picked, job, number, verdict, route>>
BY LoopAssumption DEF TypeOK, Conclude, ReviewersStay, Procs

LEMMA DecideIs ==
  ASSUME TypeOK, NEW c \in Controllers, NEW to, NEW increment, NEW again,
         Decide(c, to, increment, again)
  PROVE  /\ ReviewersStay /\ pc'[c] = "record"
         /\ UNCHANGED <<seen, picked, job, number, verdict, goal, route>>
BY LoopAssumption DEF TypeOK, Decide, ReviewersStay, Procs

(* The rest of the invariant follows when a controller's step leaves the    *)
(* store alone.                                                             *)
LEMMA StoreStays ==
  ASSUME OneController, EndInv, NEW c \in Controllers, ReviewersStay,
         UNCHANGED <<status, approval, mission>>, crashes' = 0 => crashes = 0,
         JudgedRight(c)', final' = "job_failed" => FailedSome,
         crashes' = 0 =>
           WorkRight(c)' /\ StateRight(c)' /\ (Requesting(c) => Requesting(c)' \/ Stopped)
  PROVE  EndNext
<1>1. \A d \in Controllers : d = c
  BY DEF OneController
<1>2. JudgeInv'
  BY <1>1 DEF JudgeInv, FailedSome
<1>3. ASSUME crashes' = 0
      PROVE  FaultlessInv'
  <2>1. PendingRight /\ LedgerRight
    BY <1>3, EndParts
  <2>2. Stopped' = Stopped /\ NothingPending' = NothingPending /\ JobsSucceeded' = JobsSucceeded
    BY DEF Stopped, NothingPending, JobsSucceeded
  <2>3. Gated => Gated' \/ Stopped
    BY <1>1, <1>3 DEF Gated
  <2>4. PendingRight'
    BY <2>1, <2>2, <2>3 DEF PendingRight, ReviewRight, ReviewersStay
  <2>5. LedgerRight'
    BY <2>1, <2>2 DEF LedgerRight
  <2> QED
    BY <1>1, <1>3, <2>4, <2>5 DEF FaultlessInv
<1> QED
  BY <1>2, <1>3 DEF EndNext

(* A call that ends leaves no job leased, and none that failed unjudged.     *)
Clean(c) ==
  /\ \A j \in Jobs : status[j] # "leased" /\ (status[j] = "failed" => Stopped)
  /\ Requesting(c) => Stopped

LEMMA ForgetEnds ==
  ASSUME OneController, EndInv, NEW c \in Controllers, Forget(c),
         UNCHANGED <<status, approval, mission>>, crashes' = 0 => crashes = 0 /\ Clean(c),
         final' = "job_failed" => FailedSome
  PROVE  EndNext
<1>1. /\ ReviewersStay /\ pc'[c] = "idle" /\ goal'[c] = "none" /\ verdict'[c] = "none"
  BY EndParts, ForgetIs
<1>2. JudgedRight(c)'
  BY <1>1 DEF JudgedRight, InHand, AtRest, Working, Judging, Entering
<1>3. ASSUME crashes' = 0
      PROVE  WorkRight(c)' /\ StateRight(c)' /\ (Requesting(c) => Requesting(c)' \/ Stopped)
  <2>1. WorkRight(c)'
    BY <1>1, <1>3 DEF WorkRight, Clean, Stopped, InHand, Working, Judging
  <2>2. StateRight(c)'
    BY <1>1 DEF StateRight, AtRest, Working, Judging
  <2> QED
    BY <1>3, <2>1, <2>2 DEF Clean
<1> QED
  BY <1>1, <1>2, <1>3, StoreStays

(* A call that raises ends, or releases its lease first.                     *)
LEMMA RaiseEnds ==
  ASSUME OneController, EndInv, NEW c \in Controllers, Raise(c),
         pc[c] \in {"insert", "fetch", "plan", "move", "acquire", "attempt", "commit"},
         UNCHANGED <<status, approval, mission, final, crashes>>, crashes = 0 => Clean(c)
  PROVE  EndNext
<1>0. JudgeInv /\ TypeOK /\ GoalFitsOf(c) /\ JudgedRight(c)
  BY EndParts DEF EndInv
<1>1. CASE Forget(c)
  BY <1>0, <1>1, ForgetEnds DEF JudgeInv
<1>2. CASE ~Forget(c)
  <2>1. /\ pc[c] \in {"run", "commit", "ask", "requeue"} \/ goal[c] = "release"
        /\ pc' = [pc EXCEPT ![c] = "release"] /\ verdict' = [verdict EXCEPT ![c] = "none"]
        /\ UNCHANGED <<copy, seen, picked, job, number, goal, route>>
    BY <1>2 DEF Raise
  <2>2. ReviewersStay /\ pc'[c] = "release" /\ verdict'[c] = "none"
    BY <1>0, <2>1, LoopAssumption DEF TypeOK, Procs, ReviewersStay
  <2>3. pc[c] = "commit" \/ (pc[c] = "move" /\ goal[c] = "release")
    BY <1>0, <2>1 DEF JudgedRight, GoalFitsOf, Entering, Codes, Failures
  <2>4. JudgedRight(c)' /\ InHand(c) /\ ~AtRest(c) /\ goal[c] # "job_failed"
    BY <1>0, <2>1, <2>2, <2>3
       DEF JudgedRight, InHand, AtRest, Working, Judging, Entering, Failing
  <2>5. ASSUME crashes = 0
        PROVE  /\ WorkRight(c)' /\ StateRight(c)'
               /\ Requesting(c) => Requesting(c)' \/ Stopped
    <3>1. WorkRight(c) /\ StateRight(c) /\ Clean(c)
      BY <2>5, EndParts
    <3>2. goal[c] # "completed"
      BY <2>3, <3>1 DEF WorkRight
    <3>3. WorkRight(c)'
      BY <2>1, <2>2, <2>4, <3>1, <3>2 DEF WorkRight, Clean, Stopped, InHand, Working, Judging
    <3>4. StateRight(c)'
      BY <2>1, <2>2, <2>3, <2>4, <3>1, <3>2 DEF StateRight, AtRest, Working, Judging
    <3> QED
      BY <3>1, <3>3, <3>4 DEF Clean
  <2> QED
    BY <1>0, <2>2, <2>4, <2>5, StoreStays DEF JudgeInv
<1> QED
  BY <1>1, <1>2

-----------------------------------------------------------------------------
(* The steps of a controller that leave the store alone                      *)

(* From here on these hold before every step.                               *)
Before(c) ==
  /\ OneController /\ EndInv /\ TypeOK /\ GoalFitsOf(c) /\ OutcomeMatches /\ JudgedRight(c)
  /\ c \in Procs /\ (final = "job_failed" => FailedSome)
  /\ crashes = 0 => WorkRight(c) /\ StateRight(c) /\ PendingRight /\ LedgerRight

LEMMA BeforeStep ==
  ASSUME OneController, EndInv, NEW c \in Controllers
  PROVE  Before(c)
BY EndParts DEF Before, EndInv, JudgeInv

(* Clean where nothing is in hand and nothing is being judged.              *)
LEMMA CleanAtRest ==
  ASSUME NEW c, WorkRight(c), pc[c] \notin Judging \cup {"attempt", "run", "commit"},
         pc[c] \in {"plan", "move"} => goal[c] # "job_failed", ~Requesting(c)
  PROVE  Clean(c)
BY DEF WorkRight, Clean

LEMMA BeginEnds ==
  ASSUME NEW c \in Controllers, Before(c), NEW command \in {"none", "status"}, Begin(c, command)
  PROVE  EndNext
<1>1. /\ ReviewersStay /\ pc[c] = "idle" /\ pc'[c] = "load" /\ goal'[c] = command
      /\ seen'[c] = mission /\ UNCHANGED <<storeVars, copy, picked, job, number, verdict, route, crashes>>
  BY LoopAssumption DEF Begin, Before, TypeOK, Procs, ReviewersStay
<1>2. JudgedRight(c)'
  BY <1>1 DEF Before, JudgedRight, InHand, AtRest, Working, Judging, Entering,
     storeVars, ledgerVars, OutcomeMatches, TerminalMission, Failures
<1>3. ASSUME crashes = 0
      PROVE  WorkRight(c)' /\ StateRight(c)'
  <2>1. WorkRight(c)'
    BY <1>1, <1>3 DEF Before, WorkRight, InHand, Working, Judging, Stopped, storeVars, ledgerVars
  <2>2. StateRight(c)'
    BY <1>1, <1>3 DEF Before, StateRight, AtRest, Working, Judging, TerminalMission, storeVars, ledgerVars
  <2> QED
    BY <2>1, <2>2
<1> QED
  BY <1>1, <1>2, <1>3, StoreStays DEF Before, Requesting, storeVars, ledgerVars

(* A step from one place to another where nothing is judged, with the same   *)
(* goal.                                                                    *)
LEMMA WalkEnds ==
  ASSUME NEW c \in Controllers, Before(c), ReviewersStay,
         UNCHANGED <<status, approval, mission, final, crashes, seen, picked, job, verdict, goal, route>>,
         \/ pc[c] \in Entering /\ pc'[c] \in {"insert", "sync", "assess"}
         \/ pc[c] \in Entering /\ ~AtRest(c) /\ pc'[c] \in {"list", "record"}
         \/ pc[c] = "after" /\ pc'[c] = "record"
         \/ pc[c] = "resync" /\ pc'[c] = "after"
         \/ pc[c] = "after" /\ verdict[c] \notin Failing /\ pc'[c] = "remaining"
         \/ pc[c] = "conclude" /\ pc'[c] = "outcome",
         pc'[c] \in {"insert", "sync", "assess"} => pc[c] \in {"load", "insert", "sync"},
         pc[c] = "after" => verdict[c] \notin Failing \/ status[picked[c]] = "queued"
  PROVE  EndNext
<1>1. JudgedRight(c)'
  BY DEF Before, JudgedRight, InHand, AtRest, Working, Judging, Entering, Failing, FailedSome
<1>2. ASSUME crashes = 0
      PROVE  WorkRight(c)' /\ StateRight(c)'
  <2>1. WorkRight(c)'
    BY <1>2 DEF Before, WorkRight, InHand, Working, Judging, Entering, Failing, Stopped, JobsSucceeded
  <2>2. StateRight(c)'
    BY <1>2 DEF Before, WorkRight, StateRight, AtRest, Working, Judging, Entering
  <2> QED
    BY <2>1, <2>2
<1> QED
  BY <1>1, <1>2, StoreStays DEF Before, Requesting, Entering

(* The controller goes on to conclude the mission.                          *)
LEMMA ConcludeEnds ==
  ASSUME NEW c \in Controllers, Before(c), NEW code \in Codes, NEW increment,
         Conclude(c, code, increment), UNCHANGED <<storeVars, crashes>>,
         pc[c] \in {"assess", "list", "after", "remaining"}, ~AtRest(c),
         code = "job_failed" => FailedSome,
         crashes = 0 /\ code = "completed" => JobsSucceeded \/ Stopped,
         crashes = 0 => \A j \in Jobs :
           status[j] = "failed" => Stopped \/ code = "job_failed"
  PROVE  EndNext
<1>0. /\ ReviewersStay /\ pc'[c] = "plan" /\ goal'[c] = code
      /\ UNCHANGED <<seen, picked, job, number, verdict, route>>
  BY ConcludeIs DEF Before
<1> USE DEF storeVars, ledgerVars
<1>1. JudgedRight(c)'
  BY <1>0 DEF Before, JudgedRight, InHand, AtRest, Working, Judging, Entering, Failing, FailedSome, Codes, Failures
<1>2. ASSUME crashes = 0
      PROVE  WorkRight(c)' /\ StateRight(c)'
  <2>1. WorkRight(c)'
    BY <1>0, <1>2 DEF Before, WorkRight, InHand, Working, Judging, Failing, Stopped, JobsSucceeded, Codes, Failures
  <2>2. mission # "COMPLETED"
    BY <1>2 DEF Before, StateRight, WorkRight
  <2>3. StateRight(c)'
    BY <1>0, <1>2, <2>2 DEF Before, StateRight, Working, Judging
  <2> QED
    BY <2>1, <2>3
<1> QED
  BY <1>0, <1>1, <1>2, StoreStays DEF Before, Requesting

LEMMA AssessEnds ==
  ASSUME NEW c \in Controllers, Before(c), Assess(c)
  PROVE  EndNext
<1>0. pc[c] = "assess" /\ UNCHANGED <<storeVars, crashes>>
  BY DEF Assess
<1>1. CASE Forget(c)
  <2>1. crashes = 0 => Clean(c)
    BY <1>0, CleanAtRest DEF Before, Judging, Requesting
  <2> QED
    BY <1>0, <1>1, <2>1, ForgetEnds DEF Before, storeVars, ledgerVars
<1>2. CASE ~Forget(c)
  <2>1. seen[c] \notin TerminalMission /\ ~AtRest(c)
    BY <1>0, <1>2 DEF Assess, AtRest, TerminalMission
  <2>2. ASSUME NEW to, Decide(c, to, 0, FALSE)
        PROVE  EndNext
    BY <1>0, <2>1, <2>2, DecideIs, WalkEnds DEF Before, Entering, storeVars, ledgerVars
  <2>3. CASE Goto(c, "list")
    BY <1>0, <2>1, <2>3, GotoIs, WalkEnds DEF Before, Entering, storeVars, ledgerVars
  <2>4. CASE Conclude(c, "budget_exhausted", 0)
    <3>1. crashes = 0 => \A j \in Jobs : status[j] = "failed" => Stopped
      BY <1>0 DEF Before, WorkRight, Judging
    <3> QED
      BY <1>0, <2>1, <2>4, <3>1, ConcludeEnds DEF Codes, Failures
  <2> QED
    BY <1>2, <2>2, <2>3, <2>4, Zenon DEF Assess
<1> QED
  BY <1>1, <1>2

LEMMA ListEnds ==
  ASSUME NEW c \in Controllers, Before(c), List(c)
  PROVE  EndNext
<1>0. pc[c] = "list" /\ UNCHANGED <<storeVars, crashes>> /\ ~AtRest(c)
  BY DEF List, AtRest
<1>1. crashes = 0 => \A j \in Jobs : status[j] # "leased" /\ (status[j] = "failed" => Stopped)
  BY <1>0 DEF Before, WorkRight, Judging
<1>2. CASE Conclude(c, "completed", 0) /\ \A j \in Jobs : status[j] = "succeeded"
  BY <1>0, <1>1, <1>2, ConcludeEnds DEF Codes, JobsSucceeded
<1>3. CASE Conclude(c, "job_failed", 0) /\ \E j \in Jobs : status[j] = "failed"
  BY <1>0, <1>1, <1>3, ConcludeEnds DEF Codes, Failures, FailedSome
<1>4. CASE Decide(c, "active", 0, FALSE)
  BY <1>0, <1>4, DecideIs, WalkEnds DEF Before, Entering, storeVars, ledgerVars
<1>5. CASE Conclude(c, "real_aedt_disabled", 0)
  BY <1>0, <1>1, <1>5, ConcludeEnds DEF Codes, Failures
<1>6. ASSUME NEW j \in Jobs \ Refused, NextQueued(j), picked' = [picked EXCEPT ![c] = j],
             pc' = [pc EXCEPT ![c] = "fetch"],
             UNCHANGED <<copy, seen, job, number, verdict, goal, route>>
      PROVE  EndNext
  <2>1. ReviewersStay /\ pc'[c] = "fetch" /\ picked'[c] = j /\ status[j] = "queued"
    BY <1>6, LoopAssumption DEF Before, TypeOK, Procs, ReviewersStay, NextQueued, Queued
  <2>2. JudgedRight(c)'
    BY <1>0, <1>6, <2>1 DEF Before, JudgedRight, InHand, AtRest, Working, Judging, Entering,
       storeVars, ledgerVars
  <2>3. ASSUME crashes = 0
        PROVE  WorkRight(c)' /\ StateRight(c)'
    <3>1. NextQueued(picked[c])'
      BY <1>0, <1>6, <2>1 DEF NextQueued, Queued, storeVars, ledgerVars
    <3>2. WorkRight(c)'
      BY <1>0, <1>1, <1>6, <2>1, <2>3, <3>1
         DEF Before, WorkRight, InHand, Working, Judging, Stopped, storeVars, ledgerVars
    <3>3. StateRight(c)'
      BY <1>0, <1>6, <2>1, <2>3
         DEF Before, WorkRight, StateRight, Working, Judging, storeVars, ledgerVars
    <3> QED
      BY <3>2, <3>3
  <2> QED
    BY <1>0, <2>1, <2>2, <2>3, StoreStays DEF Before, Requesting, storeVars, ledgerVars
<1> QED
  BY <1>0, <1>2, <1>3, <1>4, <1>5, <1>6, Zenon DEF List

LEMMA FetchEnds ==
  ASSUME NEW c \in Controllers, Before(c), Fetch(c)
  PROVE  EndNext
<1>0. pc[c] = "fetch" /\ UNCHANGED <<storeVars, crashes>> /\ ~AtRest(c)
  BY DEF Fetch, AtRest
<1>1. CASE Raise(c)
  <2>1. crashes = 0 => Clean(c)
    BY <1>0, CleanAtRest DEF Before, Judging, Requesting
  <2> QED
    BY <1>0, <1>1, <2>1, RaiseEnds DEF Before, storeVars, ledgerVars
<1>2. CASE ~Raise(c)
  <2>1. PICK j \in Jobs : NextQueued(j) /\ job' = [job EXCEPT ![c] = j]
    BY <1>2 DEF Fetch
  <2>2. /\ ReviewersStay /\ pc'[c] = "plan" /\ job'[c] = j /\ goal'[c] = "acquire"
        /\ UNCHANGED <<copy, seen, picked, number, verdict, route>>
    BY <1>2, <2>1, LoopAssumption DEF Fetch, Before, TypeOK, Procs, ReviewersStay
  <2>3. JudgedRight(c)'
    BY <1>0, <2>2 DEF Before, JudgedRight, InHand, AtRest, Working, Judging, Entering,
       storeVars, ledgerVars
  <2>4. ASSUME crashes = 0
        PROVE  WorkRight(c)' /\ StateRight(c)'
    <3>1. picked[c] \in Jobs /\ NextQueued(picked[c])
      BY <1>0, <2>4 DEF Before, WorkRight, JudgedRight
    <3>2. picked[c] = j
      BY <2>1, <3>1 DEF NextQueued, Queued, Jobs
    <3>3. WorkRight(c)'
      BY <1>0, <2>2, <2>4, <3>2
         DEF Before, WorkRight, InHand, Working, Judging, Stopped, storeVars, ledgerVars
    <3>4. StateRight(c)'
      BY <1>0, <2>2, <2>4
         DEF Before, WorkRight, StateRight, Working, Judging, storeVars, ledgerVars
    <3> QED
      BY <3>3, <3>4
  <2> QED
    BY <1>0, <2>2, <2>3, <2>4, StoreStays DEF Before, Requesting, storeVars, ledgerVars
<1> QED
  BY <1>1, <1>2

LEMMA EnterEnds ==
  ASSUME NEW c \in Controllers, Before(c),
         Load(c) \/ Insert(c) \/ Sync(c, "sync", "assess") \/ Sync(c, "resync", "after")
  PROVE  EndNext
<1>1. CASE Load(c)
  <2>1. /\ ReviewersStay /\ pc[c] = "load" /\ pc'[c] \in {"insert", "sync"}
        /\ UNCHANGED <<storeVars, seen, picked, job, verdict, goal, route, crashes>>
    BY <1>1, LoopAssumption DEF Load, Before, TypeOK, Procs, ReviewersStay
  <2> QED
    BY <2>1, WalkEnds DEF Entering, storeVars, ledgerVars
<1>2. CASE Insert(c)
  <2>1. CASE loop.status = "none"
    <3>1. /\ pc[c] = "insert" /\ pc' = [pc EXCEPT ![c] = "sync"]
          /\ UNCHANGED <<status, approval, mission, final, crashes,
                         seen, picked, job, number, verdict, goal, route>>
      BY <1>2, <2>1 DEF Insert, ledgerVars
    <3>2. ReviewersStay /\ pc'[c] = "sync"
      BY <3>1, LoopAssumption DEF Before, TypeOK, Procs, ReviewersStay
    <3> QED
      BY <3>1, <3>2, WalkEnds DEF Entering
  <2>2. CASE loop.status # "none"
    <3>1. pc[c] = "insert" /\ Raise(c) /\ UNCHANGED <<status, approval, mission, final, crashes>>
      BY <1>2, <2>2 DEF Insert, ledgerVars
    <3>2. crashes = 0 => Clean(c)
      BY <3>1, CleanAtRest DEF Before, Judging, Requesting
    <3> QED
      BY <3>1, <3>2, RaiseEnds DEF Before
  <2> QED
    BY <2>1, <2>2
<1>3. ASSUME NEW from, NEW label, Sync(c, from, label),
             \/ from = "sync" /\ label = "assess"
             \/ from = "resync" /\ label = "after"
      PROVE  EndNext
  <2>1. /\ ReviewersStay /\ pc[c] = from /\ pc'[c] = label
        /\ UNCHANGED <<status, approval, mission, final, crashes,
                       seen, picked, job, number, verdict, goal, route>>
    BY <1>3, LoopAssumption DEF Sync, Before, TypeOK, Procs, ReviewersStay, ledgerVars
  <2> QED
    BY <1>3, <2>1, WalkEnds DEF Entering
<1> QED
  BY <1>1, <1>2, <1>3

LEMMA PlannedRoutes ==
  ASSUME NEW to \in {"acquire", "record"} \cup Codes, NEW from \in MissionState
  PROVE  /\ Route(to, from) \in Routes(to)
         /\ from = "CREATED" /\ to = "acquire" => Route(to, from) = <<"PLANNING", "WAITING_WORKER">>
         /\ from # "CREATED" /\ to = "job_failed" => Route(to, from) = <<"FAILED">>
         /\ from = "WAITING_APPROVAL" =>
              Route(to, from) \in {<<>>, <<"FAILED">>, <<"COMPLETED">>}
<1>1. CASE to \in {"acquire", "record"}
  <2>1. Route(to, from) = ToWorker(from)
    BY <1>1, Zenon DEF Route
  <2>2. \/ from = "CREATED" /\ ToWorker(from) = <<"PLANNING", "WAITING_WORKER">>
        \/ from \in {"PLANNING", "EVALUATING"} /\ ToWorker(from) = <<"WAITING_WORKER">>
        \/ from \notin {"CREATED", "PLANNING", "EVALUATING"} /\ ToWorker(from) = <<>>
    BY Zenon DEF ToWorker
  <2>3. Routes(to) =
          {<<>>, <<"WAITING_WORKER">>, <<"PLANNING", "WAITING_WORKER">>}
    BY <1>1, Zenon DEF Routes
  <2> QED
    BY <1>1, <2>1, <2>2, <2>3
<1>2. CASE to = "completed"
  <2>1. Route(to, from) = ToCompleted(from)
    BY <1>2, Zenon DEF Route
  <2>2. \/ from = "CREATED"
           /\ ToCompleted(from) = <<"PLANNING", "WAITING_WORKER", "EVALUATING", "COMPLETED">>
        \/ from = "WAITING_WORKER" /\ ToCompleted(from) = <<"EVALUATING", "COMPLETED">>
        \/ from \notin {"CREATED", "WAITING_WORKER"} /\ ToCompleted(from) = <<"COMPLETED">>
    BY Zenon DEF ToCompleted
  <2>3. Routes(to) =
         {<<>>, <<"COMPLETED">>, <<"EVALUATING", "COMPLETED">>,
          <<"WAITING_WORKER", "EVALUATING", "COMPLETED">>,
          <<"PLANNING", "WAITING_WORKER", "EVALUATING", "COMPLETED">>}
    BY <1>2, Zenon DEF Routes
  <2> QED
    BY <1>2, <2>1, <2>2, <2>3
<1>3. CASE to \in Failures
  <2>1. Route(to, from) = ToFailed(from) /\ Routes(to) = {<<>>, <<"FAILED">>, <<"PLANNING", "FAILED">>}
    BY <1>3, Zenon DEF Route, Routes, Failures
  <2> QED
    BY <1>3, <2>1 DEF ToFailed, Failures
<1> QED
  BY <1>1, <1>2, <1>3 DEF Codes

LEMMA PlanEnds ==
  ASSUME NEW c \in Controllers, Before(c), Plan(c)
  PROVE  EndNext
<1>0. /\ pc[c] = "plan" /\ UNCHANGED <<status, approval, mission, final, crashes>> /\ ~AtRest(c)
      /\ goal[c] \in {"acquire", "record"} \cup Codes
  BY DEF Plan, AtRest, Before, GoalFitsOf, storeVars, ledgerVars
<1>1. CASE NotReady(c)
  <2>1. crashes = 0 => Clean(c)
    BY <1>0, <1>1, CleanAtRest DEF Before, Judging, Requesting, NotReady
  <2> QED
    BY <1>0, <1>1, <2>1, RaiseEnds DEF Before, Plan
<1>2. CASE ~NotReady(c)
  <2>1. /\ ReviewersStay /\ pc'[c] = "move" /\ route'[c] = Route(goal[c], mission)
        /\ UNCHANGED <<copy, seen, picked, job, number, verdict, goal>>
    BY <1>2, LoopAssumption DEF Plan, Before, TypeOK, Procs, ReviewersStay
  <2>2. mission \in MissionState
    BY DEF Before, TypeOK
  <2>3. JudgedRight(c)'
    BY <1>0, <2>1 DEF Before, JudgedRight, InHand, AtRest, Working, Judging, Entering,
       Codes, Failures, FailedSome
  <2>4. ASSUME crashes = 0
        PROVE  WorkRight(c)' /\ StateRight(c)'
    <3>1. WorkRight(c) /\ StateRight(c) /\ LedgerRight
      BY <2>4 DEF Before
    <3>2. ASSUME NEW j \in Jobs, status[j] = "failed", ~Stopped
          PROVE  goal[c] = "job_failed" /\ route'[c] = <<"FAILED">>
      <4>1. goal[c] = "job_failed" /\ mission # "CREATED"
        BY <1>0, <3>1, <3>2 DEF WorkRight, LedgerRight, Judging
      <4> QED
        BY <1>0, <2>1, <2>2, <4>1, PlannedRoutes
    <3>3. WorkRight(c)'
      BY <1>0, <2>1, <3>1, <3>2
         DEF WorkRight, InHand, Working, Judging, Stopped, JobsSucceeded
    <3>4. mission = "WAITING_APPROVAL" => goal[c] # "acquire"
      BY <1>2 DEF NotReady
    <3>5. mission # "COMPLETED"
      BY <1>0, <3>1 DEF StateRight
    <3>6. StateRight(c)'
      BY <1>0, <2>1, <2>2, <3>1, <3>4, <3>5, PlannedRoutes
         DEF StateRight, Working, Judging, Codes, Failures
    <3> QED
      BY <3>3, <3>6
  <2> QED
    BY <1>0, <2>1, <2>3, <2>4, StoreStays DEF Before, Requesting
<1> QED
  BY <1>1, <1>2

LEMMA AttemptEnds ==
  ASSUME NEW c \in Controllers, Before(c), Attempt(c) \/ Run(c)
  PROVE  EndNext
<1>1. CASE Attempt(c) /\ owners[job[c]] # {c}
  <2>1. pc[c] = "attempt" /\ Raise(c) /\ UNCHANGED <<status, approval, mission, final, crashes>>
    BY <1>1 DEF Attempt, ledgerVars
  <2>2. crashes = 0 => Clean(c)
    BY <1>1, <2>1 DEF Before, WorkRight, Clean, Judging, Requesting
  <2> QED
    BY <2>1, <2>2, RaiseEnds DEF Before
<1>2. CASE ~(Attempt(c) /\ owners[job[c]] # {c})
  <2>1. /\ ReviewersStay /\ ~AtRest(c)
        /\ \/ pc[c] = "attempt" /\ pc'[c] = "run" /\ verdict' = verdict
           \/ /\ pc[c] = "run" /\ pc'[c] = "commit"
              /\ verdict'[c] \in Success \cup Failing \cup {"canceled"}
              /\ verdict'[c] = "canceled" => mission = "CANCELED"
        /\ UNCHANGED <<status, owners, approval, mission, final, crashes>>
        /\ UNCHANGED <<seen, picked, job, goal, route>>
    <3>1. CASE Attempt(c)
      BY <1>2, <3>1, LoopAssumption
         DEF Attempt, AtRest, Before, TypeOK, Procs, ReviewersStay, storeVars, ledgerVars
    <3>2. CASE Run(c)
      <4>1. PICK v \in {"succeeded", "retry", "error"} \cup (IF Asking THEN {"approval"} ELSE {}) :
              verdict' = [verdict EXCEPT ![c] =
                IF v \in Success /\ mission = "CANCELED" THEN "canceled" ELSE v]
        BY <3>2 DEF Run
      <4>2. verdict'[c] = IF v \in Success /\ mission = "CANCELED" THEN "canceled" ELSE v
        BY <4>1 DEF Before, TypeOK
      <4> QED
        BY <3>2, <4>2, LoopAssumption
           DEF Run, AtRest, Before, TypeOK, Procs, ReviewersStay, storeVars, ledgerVars,
               Success, Failing
    <3> QED
      BY <3>1, <3>2
  <2>2. JudgedRight(c)'
    BY <2>1 DEF Before, JudgedRight, InHand, AtRest, Working, Judging, Entering
  <2>3. ASSUME crashes = 0
        PROVE  WorkRight(c)' /\ StateRight(c)'
    <3>1. WorkRight(c)'
      BY <2>1, <2>3 DEF Before, WorkRight, InHand, Working, Judging, Stopped
    <3>2. StateRight(c)'
      BY <2>1, <2>3 DEF Before, WorkRight, StateRight, Working, Judging
    <3> QED
      BY <3>1, <3>2
  <2> QED
    BY <2>1, <2>2, <2>3, StoreStays DEF Before, Requesting
<1> QED
  BY <1>1, <1>2

LEMMA AfterEnds ==
  ASSUME NEW c \in Controllers, Before(c), After(c)
  PROVE  EndNext
<1>0. pc[c] = "after" /\ UNCHANGED <<storeVars, crashes>> /\ ~AtRest(c)
  BY DEF After, AtRest
<1>1. ASSUME crashes = 0, NEW j \in Jobs, status[j] = "failed"
      PROVE  \/ Stopped
             \/ verdict[c] \in Failing /\ status[picked[c]] # "queued"
  BY <1>0, <1>1 DEF Before, WorkRight
<1>2. CASE verdict[c] \in Failing /\ status[picked[c]] = "queued"
  <2>1. CASE Conclude(c, "budget_exhausted", 1)
    BY <1>0, <1>1, <1>2, <2>1, ConcludeEnds DEF Codes, Failures
  <2>2. CASE Decide(c, "active", 1, TRUE)
    BY <1>0, <1>2, <2>2, DecideIs, WalkEnds DEF Before, storeVars, ledgerVars
  <2> QED
    BY <1>2, <2>1, <2>2, Zenon DEF After, Failing
<1>3. CASE Conclude(c, "job_failed", 1) /\ verdict[c] \in Failing /\ status[picked[c]] # "queued"
  <2>1. FailedSome
    BY <1>0, <1>3 DEF Before, JudgedRight, InHand, Judging, FailedSome
  <2> QED
    BY <1>0, <1>3, <2>1, ConcludeEnds DEF Codes, Failures
<1>4. CASE Decide(c, "waiting_approval", 1, FALSE) /\ verdict[c] \notin Failing
  BY <1>0, <1>4, DecideIs, WalkEnds DEF Before, storeVars, ledgerVars
<1>5. CASE Goto(c, "remaining") /\ verdict[c] \notin Failing
  BY <1>0, <1>5, GotoIs, WalkEnds DEF Before, storeVars, ledgerVars
<1> QED
  BY <1>2, <1>3, <1>4, <1>5, Zenon DEF After, Failing

LEMMA RemainingEnds ==
  ASSUME NEW c \in Controllers, Before(c), Remaining(c)
  PROVE  EndNext
<1>0. pc[c] = "remaining" /\ UNCHANGED <<storeVars, crashes>> /\ ~AtRest(c)
  BY DEF Remaining, AtRest
<1>1. crashes = 0 => \A j \in Jobs : status[j] # "leased" /\ (status[j] = "failed" => Stopped)
  BY <1>0 DEF Before, WorkRight, Judging
<1>2. CASE Queued = {} /\ Conclude(c, "completed", 1)
  <2>1. ASSUME crashes = 0
        PROVE  JobsSucceeded \/ Stopped
    <3>1. \A j \in Jobs : status[j] = "canceled" => Stopped
      BY <2>1 DEF Before, LedgerRight, Stopped
    <3>2. \A j \in Jobs : status[j] \in {"queued", "leased", "succeeded", "failed", "canceled"}
      BY DEF Before, TypeOK, Ledger!Settled
    <3> QED
      BY <1>1, <1>2, <2>1, <3>1, <3>2 DEF Queued, JobsSucceeded
  <2> QED
    BY <1>0, <1>1, <1>2, <2>1, ConcludeEnds DEF Codes
<1>3. CASE Conclude(c, "budget_exhausted", 1)
  BY <1>0, <1>1, <1>3, ConcludeEnds DEF Codes, Failures
<1>4. CASE /\ copy' = [copy EXCEPT ![c] = Decided(@, "active", 1, FALSE)]
           /\ goal' = [goal EXCEPT ![c] = "record"]
           /\ pc' = [pc EXCEPT ![c] = "plan"]
           /\ UNCHANGED <<seen, picked, job, number, verdict, route>>
  <2>1. ReviewersStay /\ pc'[c] = "plan" /\ goal'[c] = "record"
    BY <1>4, LoopAssumption DEF Before, TypeOK, Procs, ReviewersStay
  <2>2. JudgedRight(c)'
    BY <1>0, <1>4, <2>1 DEF Before, JudgedRight, InHand, AtRest, Working, Judging, Entering,
       storeVars, ledgerVars
  <2>3. ASSUME crashes = 0
        PROVE  WorkRight(c)' /\ StateRight(c)'
    <3>1. WorkRight(c)'
      BY <1>0, <1>1, <1>4, <2>1, <2>3
         DEF Before, WorkRight, InHand, Working, Judging, Stopped, storeVars, ledgerVars
    <3>2. StateRight(c)'
      BY <1>0, <1>4, <2>1, <2>3
         DEF Before, WorkRight, StateRight, Working, Judging, storeVars, ledgerVars
    <3> QED
      BY <3>1, <3>2
  <2> QED
    BY <1>0, <2>1, <2>2, <2>3, StoreStays DEF Before, Requesting, storeVars, ledgerVars
<1> QED
  BY <1>2, <1>3, <1>4, Zenon DEF Remaining

LEMMA RecordEnds ==
  ASSUME NEW c \in Controllers, Before(c), Record(c) \/ RecordEnd(c) \/ SetOutcome(c)
  PROVE  EndNext
<1>1. CASE RecordEnd(c)
  BY <1>1, GotoIs, WalkEnds DEF RecordEnd, Before, ledgerVars
<1>2. CASE Record(c) \/ SetOutcome(c)
  <2>1. /\ pc[c] \in {"record", "outcome"} /\ Forget(c)
        /\ UNCHANGED <<status, approval, mission, crashes>>
        /\ final' = final \/ (final' = goal[c])
    BY <1>2 DEF Record, SetOutcome, ledgerVars
  <2>2. crashes = 0 => Clean(c)
    BY <2>1, CleanAtRest DEF Before, Judging, Requesting
  <2>3. final' = "job_failed" => FailedSome
    BY <2>1 DEF Before, JudgedRight
  <2> QED
    BY <2>1, <2>2, <2>3, ForgetEnds DEF Before
<1> QED
  BY <1>1, <1>2

LEMMA ReleaseEnds ==
  ASSUME NEW c \in Controllers, Before(c), Release(c)
  PROVE  EndNext
<1>0. /\ pc[c] = "release" /\ ~AtRest(c)
      /\ UNCHANGED <<status, approval, mission, final, crashes>>
  BY DEF Release, AtRest, Ledger!Leave, ledgerVars
<1>1. CASE verdict[c] = "none"
  <2>1. crashes = 0 => Clean(c)
    BY <1>0, <1>1 DEF Before, WorkRight, Clean, Failing, Requesting
  <2> QED
    BY <1>0, <1>1, <2>1, ForgetEnds DEF Before, Release
<1>2. CASE verdict[c] # "none"
  <2>1. PICK label : label = IF verdict[c] = "retry" /\ number[c] <= RetryLimit
                             THEN "requeue" ELSE "resync"
    OBVIOUS
  <2>2. Goto(c, label)
    BY <1>2, <2>1 DEF Release
  <2>3. /\ ReviewersStay /\ pc'[c] = label /\ label \in {"requeue", "resync"}
        /\ UNCHANGED <<copy, seen, picked, job, number, verdict, goal, route>>
    BY <2>1, <2>2, GotoIs DEF Before
  <2>4. JudgedRight(c)'
    BY <1>0, <2>3 DEF Before, JudgedRight, InHand, AtRest, Working, Judging, Entering, FailedSome
  <2>5. ASSUME crashes = 0
        PROVE  WorkRight(c)' /\ StateRight(c)'
    <3>1. WorkRight(c)'
      BY <1>0, <2>3, <2>5
         DEF Before, WorkRight, InHand, Working, Judging, Stopped
    <3>2. StateRight(c)'
      BY <1>0, <2>3, <2>5 DEF Before, WorkRight, StateRight, Working, Judging
    <3> QED
      BY <3>1, <3>2
  <2> QED
    BY <1>0, <2>3, <2>4, <2>5, StoreStays DEF Before, Requesting
<1> QED
  BY <1>1, <1>2

-----------------------------------------------------------------------------
(* The steps of a controller that write                                      *)

(* The rest follows when the approvals and the mission are as before.       *)
LEMMA LedgerChanges ==
  ASSUME NEW c \in Controllers, Before(c), ReviewersStay,
         UNCHANGED <<approval, mission, final, crashes>>, ~AtRest(c),
         JudgedRight(c)',
         crashes = 0 =>
           /\ WorkRight(c)' /\ StateRight(c)' /\ ~Requesting(c)
           /\ mission \notin {"CREATED", "COMPLETED"}
           /\ \A j \in Jobs : status'[j] = "canceled" => mission = "CANCELED"
  PROVE  EndNext
<1>1. \A d \in Controllers : d = c
  BY DEF Before, OneController
<1>2. JudgeInv'
  BY <1>1 DEF Before, JudgedRight, JudgeInv
<1>3. ASSUME crashes = 0
      PROVE  FaultlessInv'
  <2>1. PendingRight /\ Stopped' = Stopped /\ NothingPending' = NothingPending
    BY <1>3 DEF Before, Stopped, NothingPending
  <2>2. Gated => Gated'
    BY <1>1, <1>3 DEF Gated
  <2>3. PendingRight'
    BY <2>1, <2>2 DEF PendingRight, ReviewRight, ReviewersStay
  <2>4. LedgerRight'
    BY <1>3 DEF LedgerRight
  <2> QED
    BY <1>1, <1>3, <2>3, <2>4 DEF FaultlessInv
<1> QED
  BY <1>2, <1>3 DEF EndNext

LEMMA AcquireEnds ==
  ASSUME NEW c \in Controllers, Before(c), Acquire(c)
  PROVE  EndNext
<1>0. /\ pc[c] = "acquire" /\ ~AtRest(c) /\ UNCHANGED <<approval, mission, final, crashes>>
      /\ job[c] \in Jobs
  BY DEF Acquire, AtRest, Before, GoalFitsOf
<1>1. CASE status[job[c]] # "queued"
  <2>1. crashes = 0 => Clean(c)
    BY <1>0, CleanAtRest DEF Before, Judging, Requesting
  <2> QED
    BY <1>0, <1>1, <2>1, RaiseEnds DEF Before, Acquire, ledgerVars
<1>2. CASE status[job[c]] = "queued"
  <2>1. /\ status' = [status EXCEPT ![job[c]] = "leased"]
        /\ owners' = [owners EXCEPT ![job[c]] = {c}] /\ Goto(c, "attempt")
    BY <1>2 DEF Acquire, Ledger!Take
  <2>2. /\ ReviewersStay /\ pc'[c] = "attempt"
        /\ UNCHANGED <<copy, seen, picked, job, number, verdict, goal, route>>
    BY <2>1, GotoIs DEF Before
  <2>3. /\ \A j \in Jobs : status'[j] = IF j = job[c] THEN "leased" ELSE status[j]
        /\ owners'[job[c]] = {c}
    BY <1>0, <2>1 DEF Before, TypeOK
  <2>4. JudgedRight(c)'
    BY <1>0, <2>2, <2>3 DEF Before, JudgedRight, InHand, AtRest, Working, Judging, Entering
  <2>5. ASSUME crashes = 0
        PROVE  /\ WorkRight(c)' /\ StateRight(c)' /\ ~Requesting(c)
               /\ mission \notin {"CREATED", "COMPLETED"}
               /\ \A j \in Jobs : status'[j] = "canceled" => mission = "CANCELED"
    <3>1. mission \notin {"CREATED", "COMPLETED"} /\ goal[c] # "completed" /\ ~Requesting(c)
      BY <1>0, <2>5 DEF Before, WorkRight, StateRight, Working, Requesting
    <3>2. WorkRight(c)'
      BY <1>0, <2>2, <2>3, <2>5, <3>1
         DEF Before, WorkRight, InHand, Working, Judging, Stopped
    <3>3. StateRight(c)'
      BY <1>0, <2>2, <2>5, <3>1 DEF Before, StateRight, Working, Judging
    <3>4. \A j \in Jobs : status'[j] = "canceled" => mission = "CANCELED"
      BY <2>3, <2>5 DEF Before, LedgerRight
    <3> QED
      BY <3>1, <3>2, <3>3, <3>4
  <2> QED
    BY <1>0, <2>2, <2>4, <2>5, LedgerChanges
<1> QED
  BY <1>1, <1>2

LEMMA CommitEnds ==
  ASSUME NEW c \in Controllers, Before(c), Commit(c)
  PROVE  EndNext
<1>0. /\ pc[c] = "commit" /\ ~AtRest(c) /\ UNCHANGED <<approval, mission, final, crashes>>
      /\ job[c] \in Jobs /\ picked[c] \in Jobs
      /\ verdict[c] \in Success \cup Failing \cup {"canceled"}
  BY DEF Commit, AtRest, Before, JudgedRight, InHand, Working
<1>1. CASE ~(status[job[c]] = "leased" /\ owners[job[c]] = {c})
  <2>1. crashes = 0 => Clean(c)
    BY <1>0, <1>1 DEF Before, WorkRight, Clean, Judging, Requesting
  <2> QED
    BY <1>0, <1>1, <2>1, RaiseEnds DEF Before, Commit, ledgerVars
<1>2. CASE status[job[c]] = "leased" /\ owners[job[c]] = {c}
  <2>1. status' = [status EXCEPT ![job[c]] = Result(verdict[c])]
    BY <1>2 DEF Commit, Ledger!Settle
  <2>2. \A j \in Jobs : status'[j] = IF j = job[c] THEN Result(verdict[c]) ELSE status[j]
    BY <1>0, <2>1 DEF Before, TypeOK
  <2>3. /\ ReviewersStay
        /\ UNCHANGED <<seen, picked, job, verdict>>
        /\ \/ /\ verdict[c] = "approval" /\ pc'[c] = "ask" /\ UNCHANGED <<goal, route>>
           \/ /\ verdict[c] = "succeeded" /\ pc'[c] = "move"
              /\ goal'[c] = "release" /\ route'[c] = <<"EVALUATING">>
           \/ /\ verdict[c] \notin Success /\ pc'[c] = "release" /\ UNCHANGED <<goal, route>>
    <3>1. CASE verdict[c] = "approval" /\ Goto(c, "ask")
      BY <3>1, GotoIs DEF Before
    <3>2. CASE verdict[c] \notin Success /\ Goto(c, "release")
      BY <3>2, GotoIs DEF Before
    <3>3. CASE /\ verdict[c] = "succeeded"
               /\ goal' = [goal EXCEPT ![c] = "release"]
               /\ route' = [route EXCEPT ![c] = <<"EVALUATING">>]
               /\ pc' = [pc EXCEPT ![c] = "move"]
               /\ UNCHANGED <<copy, seen, picked, job, number, verdict>>
      BY <3>3, LoopAssumption DEF Before, TypeOK, Procs, ReviewersStay
    <3> QED
      BY <1>2, <3>1, <3>2, <3>3, Zenon DEF Commit
  <2>4. /\ verdict[c] \in Success => Result(verdict[c]) = "succeeded"
        /\ verdict[c] \in Failing => Result(verdict[c]) = "failed"
        /\ verdict[c] = "canceled" => Result(verdict[c]) = "canceled"
    <3>1. Success = {"succeeded", "approval"} /\ Failing = {"retry", "error"}
      BY DEF Success, Failing
    <3> QED
      BY <3>1 DEF Result
  <2>5. goal[c] # "job_failed"
    BY <1>0 DEF Before, JudgedRight
  <2>6. JudgedRight(c)'
    BY <1>0, <2>2, <2>3, <2>4, <2>5
       DEF Before, JudgedRight, InHand, AtRest, Working, Judging, Entering, Success, Failing
  <2>7. ASSUME crashes = 0
        PROVE  /\ WorkRight(c)' /\ StateRight(c)' /\ ~Requesting(c)
               /\ mission \notin {"CREATED", "COMPLETED"}
               /\ \A j \in Jobs : status'[j] = "canceled" => mission = "CANCELED"
    <3>1. /\ mission \notin {"CREATED", "COMPLETED", "WAITING_APPROVAL"} /\ goal[c] # "completed"
          /\ ~Requesting(c) /\ picked[c] = job[c]
      BY <1>0, <2>7 DEF Before, WorkRight, StateRight, Working, Requesting, InHand
    <3>2. WorkRight(c)'
      BY <1>0, <2>2, <2>3, <2>4, <2>7, <3>1
         DEF Before, WorkRight, InHand, Working, Judging, Stopped, Success, Failing
    <3>3. StateRight(c)'
      <4>1. <<"EVALUATING">> \in Routes("release")
        BY DEF Routes
      <4> QED
        BY <1>0, <2>3, <2>7, <3>1, <4>1 DEF Before, StateRight, Working, Judging
    <3>4. \A j \in Jobs : status'[j] = "canceled" => mission = "CANCELED"
      BY <1>0, <2>2, <2>4, <2>7 DEF Before, LedgerRight, WorkRight
    <3> QED
      BY <3>1, <3>2, <3>3, <3>4
  <2> QED
    BY <1>0, <2>3, <2>6, <2>7, LedgerChanges
<1> QED
  BY <1>1, <1>2

LEMMA RequeueEnds ==
  ASSUME NEW c \in Controllers, Before(c), Requeue(c)
  PROVE  EndNext
<1>0. /\ pc[c] = "requeue" /\ ~AtRest(c) /\ UNCHANGED <<approval, mission, final, crashes>>
      /\ status[job[c]] = "failed" /\ status' = [status EXCEPT ![job[c]] = "queued"]
      /\ Goto(c, "resync") /\ job[c] \in Jobs
  BY DEF Requeue, AtRest, Before, JudgedRight, InHand, Judging, Ledger!Retry
<1>1. /\ ReviewersStay /\ pc'[c] = "resync"
      /\ UNCHANGED <<copy, seen, picked, job, number, verdict, goal, route>>
  BY <1>0, GotoIs DEF Before
<1>2. \A j \in Jobs : status'[j] = IF j = job[c] THEN "queued" ELSE status[j]
  BY <1>0 DEF Before, TypeOK
<1>3. JudgedRight(c)'
  BY <1>0, <1>1, <1>2 DEF Before, JudgedRight, InHand, AtRest, Working, Judging, Entering
<1>4. ASSUME crashes = 0
      PROVE  /\ WorkRight(c)' /\ StateRight(c)' /\ ~Requesting(c)
             /\ mission \notin {"CREATED", "COMPLETED"}
             /\ \A j \in Jobs : status'[j] = "canceled" => mission = "CANCELED"
  <2>1. mission \notin {"CREATED", "COMPLETED"} /\ goal[c] # "completed" /\ ~Requesting(c)
    BY <1>0, <1>4 DEF Before, WorkRight, StateRight, Judging, Requesting
  <2>2. WorkRight(c)'
    BY <1>0, <1>1, <1>2, <1>4, <2>1 DEF Before, WorkRight, InHand, Working, Judging, Stopped
  <2>3. StateRight(c)'
    BY <1>0, <1>1, <1>4, <2>1 DEF Before, StateRight, Working, Judging
  <2>4. \A j \in Jobs : status'[j] = "canceled" => mission = "CANCELED"
    BY <1>2, <1>4 DEF Before, LedgerRight
  <2> QED
    BY <2>1, <2>2, <2>3, <2>4
<1> QED
  BY <1>0, <1>1, <1>3, <1>4, LedgerChanges

LEMMA AskEnds ==
  ASSUME NEW c \in Controllers, Before(c), Ask(c)
  PROVE  EndNext
<1>1. \A d \in Controllers : d = c
  BY DEF Before, OneController
<1>2. /\ pc[c] = "ask" /\ ~AtRest(c) /\ UNCHANGED <<status, mission, final, crashes>>
      /\ job[c] \in Jobs /\ ReviewersStay /\ pc'[c] = "move" /\ goal'[c] = "release"
      /\ route'[c] = <<"WAITING_APPROVAL">> /\ UNCHANGED <<seen, picked, job, verdict>>
      /\ approval' = [approval EXCEPT ![job[c]] = "pending"]
  BY LoopAssumption DEF Ask, AtRest, Before, JudgedRight, InHand, Working, TypeOK, Procs,
     ReviewersStay, ledgerVars
<1>3. \A j \in Jobs : approval'[j] = IF j = job[c] THEN "pending" ELSE approval[j]
  BY <1>2 DEF Before, TypeOK
<1>4. JudgedRight(c)'
  BY <1>2 DEF Before, JudgedRight, InHand, AtRest, Working, Judging, Entering
<1>5. JudgeInv'
  BY <1>1, <1>2, <1>4 DEF Before, JudgeInv, FailedSome
<1>6. ASSUME crashes = 0
      PROVE  FaultlessInv'
  <2>1. /\ WorkRight(c) /\ StateRight(c) /\ PendingRight /\ LedgerRight
        /\ mission \notin {"CREATED", "COMPLETED", "WAITING_APPROVAL"} /\ goal[c] # "completed"
        /\ ~Gated
    BY <1>1, <1>2, <1>6 DEF Before, WorkRight, StateRight, Working, Gated, Requesting
  <2>2. WorkRight(c)'
    BY <1>2, <2>1 DEF WorkRight, InHand, Working, Judging, Stopped
  <2>3. StateRight(c)'
    <3>1. <<"WAITING_APPROVAL">> \in Routes("release")
      BY DEF Routes
    <3> QED
      BY <1>2, <2>1, <3>1 DEF StateRight, Working, Judging
  <2>4. Gated' /\ Stopped' = Stopped
    BY <1>2 DEF Gated, Requesting, Stopped
  <2>5. PendingRight'
    <3>1. \A j \in Jobs : approval[j] = "pending" => Stopped
      BY <2>1 DEF PendingRight
    <3>2. \A r \in Reviewers : ReviewRight(r)'
      <4>1. ASSUME NEW r \in Reviewers
            PROVE  ReviewRight(r)'
        <5>1. ReviewRight(r) /\ pc'[r] = pc[r] /\ job'[r] = job[r]
          BY <1>2, <2>1 DEF PendingRight, ReviewersStay
        <5>2. pc[r] = "notify" => Stopped
          BY <2>1, <5>1 DEF ReviewRight
        <5> QED
          BY <1>3, <2>4, <5>1, <5>2 DEF ReviewRight
      <4> QED
        BY <4>1
    <3> QED
      BY <1>3, <2>4, <3>1, <3>2 DEF PendingRight
  <2>6. LedgerRight'
    BY <1>2, <2>1 DEF LedgerRight
  <2> QED
    BY <1>1, <2>2, <2>3, <2>5, <2>6 DEF FaultlessInv
<1> QED
  BY <1>2, <1>5, <1>6 DEF EndNext

(* What is left of a route is a route, and what is written is its head.      *)
LEMMA ShortRoutes ==
  ASSUME NEW x, NEW y
  PROVE  /\ Head(<<x>>) = x /\ Tail(<<x>>) = <<>> /\ <<x>> # <<>>
         /\ Head(<<x, y>>) = x /\ Tail(<<x, y>>) = <<y>> /\ <<x, y>> # <<>>
         /\ (<<x>> = <<y>> => x = y)
OBVIOUS

LEMMA LongerRoutes ==
  ASSUME NEW x, NEW y, NEW z, NEW u
  PROVE  /\ <<x>> # <<y, z>> /\ <<x>> # <<y, z, u>>
         /\ Head(<<x, y, z>>) = x /\ Tail(<<x, y, z>>) = <<y, z>>
         /\ Head(<<x, y, z, u>>) = x /\ Tail(<<x, y, z, u>>) = <<y, z, u>>
<1>1. Len(<<x>>) = 1 /\ Len(<<y, z>>) = 2 /\ Len(<<y, z, u>>) = 3
  OBVIOUS
<1> QED
  BY <1>1

LEMMA RouteSteps ==
  ASSUME NEW to \in {"acquire", "release", "record"} \cup Codes, NEW s \in Routes(to), s # <<>>
  PROVE  /\ Tail(s) \in Routes(to)
         /\ Head(s) \in MissionState \ {"CREATED", "CANCELED"}
         /\ Tail(s) # <<"WAITING_APPROVAL">>
         /\ Head(s) = "WAITING_APPROVAL" =>
              to = "release" /\ s = <<"WAITING_APPROVAL">> /\ Tail(s) = <<>>
         /\ Head(s) = "COMPLETED" => to = "completed" /\ Tail(s) = <<>>
         /\ s = <<"FAILED">> => Head(s) = "FAILED" /\ Tail(s) = <<>>
<1> USE ShortRoutes, LongerRoutes DEF MissionState
<1>1. CASE to \in {"acquire", "record"}
  <2>1. Routes(to) = {<<>>, <<"WAITING_WORKER">>, <<"PLANNING", "WAITING_WORKER">>}
    BY <1>1, Zenon DEF Routes
  <2>2. \/ s = <<"WAITING_WORKER">> /\ Head(s) = "WAITING_WORKER" /\ Tail(s) = <<>>
        \/ /\ s = <<"PLANNING", "WAITING_WORKER">>
           /\ Head(s) = "PLANNING" /\ Tail(s) = <<"WAITING_WORKER">>
    <3>1. ASSUME s = <<"WAITING_WORKER">>
          PROVE  Head(s) = "WAITING_WORKER" /\ Tail(s) = <<>>
      BY <3>1
    <3>2. ASSUME s = <<"PLANNING", "WAITING_WORKER">>
          PROVE  Head(s) = "PLANNING" /\ Tail(s) = <<"WAITING_WORKER">>
      BY <3>2
    <3> QED
      BY <2>1, <3>1, <3>2, Zenon
  <2>3. Tail(s) # <<"WAITING_APPROVAL">> /\ s # <<"FAILED">>
    BY <2>2
  <2> QED
    BY <2>1, <2>2, <2>3
<1>2. CASE to = "release"
  <2>1. Routes(to) = {<<>>, <<"EVALUATING">>, <<"WAITING_APPROVAL">>}
    BY <1>2, Zenon DEF Routes
  <2>2. \/ s = <<"EVALUATING">> /\ Head(s) = "EVALUATING" /\ Tail(s) = <<>>
        \/ s = <<"WAITING_APPROVAL">> /\ Head(s) = "WAITING_APPROVAL" /\ Tail(s) = <<>>
    BY <2>1
  <2>3. Tail(s) # <<"WAITING_APPROVAL">> /\ s # <<"FAILED">>
    BY <2>2
  <2> QED
    BY <1>2, <2>1, <2>2, <2>3
<1>3. CASE to = "completed"
  <2>1. Routes(to) =
         {<<>>, <<"COMPLETED">>, <<"EVALUATING", "COMPLETED">>,
          <<"WAITING_WORKER", "EVALUATING", "COMPLETED">>,
          <<"PLANNING", "WAITING_WORKER", "EVALUATING", "COMPLETED">>}
    BY <1>3, Zenon DEF Routes
  <2>2. \/ s = <<"COMPLETED">> /\ Head(s) = "COMPLETED" /\ Tail(s) = <<>>
        \/ /\ s = <<"EVALUATING", "COMPLETED">>
           /\ Head(s) = "EVALUATING" /\ Tail(s) = <<"COMPLETED">>
        \/ /\ s = <<"WAITING_WORKER", "EVALUATING", "COMPLETED">>
           /\ Head(s) = "WAITING_WORKER" /\ Tail(s) = <<"EVALUATING", "COMPLETED">>
        \/ /\ s = <<"PLANNING", "WAITING_WORKER", "EVALUATING", "COMPLETED">>
           /\ Head(s) = "PLANNING"
           /\ Tail(s) = <<"WAITING_WORKER", "EVALUATING", "COMPLETED">>
    <3>1. ASSUME s = <<"COMPLETED">>
          PROVE  Head(s) = "COMPLETED" /\ Tail(s) = <<>>
      BY <3>1
    <3>2. ASSUME s = <<"EVALUATING", "COMPLETED">>
          PROVE  Head(s) = "EVALUATING" /\ Tail(s) = <<"COMPLETED">>
      BY <3>2
    <3>3. ASSUME s = <<"WAITING_WORKER", "EVALUATING", "COMPLETED">>
          PROVE  Head(s) = "WAITING_WORKER" /\ Tail(s) = <<"EVALUATING", "COMPLETED">>
      BY <3>3
    <3>4. ASSUME s = <<"PLANNING", "WAITING_WORKER", "EVALUATING", "COMPLETED">>
          PROVE  Head(s) = "PLANNING" /\ Tail(s) = <<"WAITING_WORKER", "EVALUATING", "COMPLETED">>
      BY <3>4
    <3> QED
      BY <2>1, <3>1, <3>2, <3>3, <3>4, Zenon
  <2>3. Tail(s) # <<"WAITING_APPROVAL">> /\ s # <<"FAILED">>
    BY <2>2
  <2>4. Tail(s) \in Routes(to)
    BY <2>1, <2>2, Zenon
  <2> QED
    BY <1>3, <2>2, <2>3, <2>4
<1>4. CASE to \in Failures
  <2>1. Routes(to) = {<<>>, <<"FAILED">>, <<"PLANNING", "FAILED">>}
    BY <1>4, Zenon DEF Routes, Failures
  <2>2. \/ s = <<"FAILED">> /\ Head(s) = "FAILED" /\ Tail(s) = <<>>
        \/ /\ s = <<"PLANNING", "FAILED">>
           /\ Head(s) = "PLANNING" /\ Tail(s) = <<"FAILED">>
    <3>1. ASSUME s = <<"FAILED">>
          PROVE  Head(s) = "FAILED" /\ Tail(s) = <<>>
      BY <3>1
    <3>2. ASSUME s = <<"PLANNING", "FAILED">>
          PROVE  Head(s) = "PLANNING" /\ Tail(s) = <<"FAILED">>
      BY <3>2
    <3> QED
      BY <2>1, <3>1, <3>2, Zenon
  <2>3. Tail(s) # <<"WAITING_APPROVAL">> /\ (s = <<"FAILED">> => Head(s) = "FAILED")
    BY <2>2
  <2> QED
    BY <2>1, <2>2, <2>3
<1> QED
  BY <1>1, <1>2, <1>3, <1>4 DEF Codes

LEMMA Transitions ==
  ASSUME NEW from \in MissionState, NEW to \in MissionState \ {"CREATED"}
  PROVE  /\ CanWrite(from, to) /\ from \in TerminalMission => to = from
         /\ ~CanWrite(from, "FAILED") => from \in {"CREATED"} \cup TerminalMission
         /\ ~CanWrite(from, "WAITING_APPROVAL") => from \in {"CREATED"} \cup TerminalMission
         /\ CanWrite(from, "COMPLETED") => from \in {"EVALUATING", "COMPLETED"}
         /\ CanWrite(from, "CREATED") => from = "CREATED"
BY DEF CanWrite, AllowedTransitions, MissionState, TerminalMission

(* A write of the mission's state.                                          *)
LEMMA WriteEnds ==
  ASSUME NEW c \in Controllers, Before(c), pc[c] = "move", route[c] # <<>>,
         CanWrite(mission, Head(route[c])), mission' = Head(route[c]),
         route' = [route EXCEPT ![c] = Tail(route[c])],
         UNCHANGED <<status, owners, approval, final, crashes,
                     pc, copy, seen, picked, job, number, verdict, goal>>
  PROVE  EndNext
<1>1. \A d \in Controllers : d = c
  BY DEF Before, OneController
<1>2. route'[c] = Tail(route[c]) /\ goal[c] \in {"acquire", "release", "record"} \cup Codes
  BY DEF Before, TypeOK, GoalFitsOf
<1>3. JudgedRight(c)'
  BY <1>2 DEF Before, JudgedRight, InHand, AtRest, FailedSome
<1>4. JudgeInv'
  BY <1>1, <1>3 DEF Before, JudgeInv, FailedSome
<1>5. ASSUME crashes = 0
      PROVE  FaultlessInv'
  <2>1. /\ WorkRight(c) /\ StateRight(c) /\ PendingRight /\ LedgerRight
        /\ mission \in MissionState
    BY <1>5 DEF Before, TypeOK
  <2>2. /\ Tail(route[c]) \in Routes(goal[c])
        /\ mission' \in MissionState \ {"CREATED", "CANCELED"}
        /\ Tail(route[c]) # <<"WAITING_APPROVAL">>
        /\ mission' = "WAITING_APPROVAL" =>
              goal[c] = "release" /\ route[c] = <<"WAITING_APPROVAL">> /\ Tail(route[c]) = <<>>
        /\ mission' = "COMPLETED" => goal[c] = "completed" /\ Tail(route[c]) = <<>>
        /\ route[c] = <<"FAILED">> => mission' = "FAILED"
        /\ route[c] = <<"WAITING_APPROVAL">> => mission' = "WAITING_APPROVAL"
        /\ route[c] = <<"COMPLETED">> => mission' = "COMPLETED"
    <3>1. PICK to \in {"acquire", "release", "record"} \cup Codes : to = goal[c]
      BY <1>2
    <3>2. PICK s \in Routes(to) : s = route[c]
      BY <2>1, <3>1 DEF StateRight
    <3>3. /\ Tail(s) \in Routes(to)
          /\ Head(s) \in MissionState \ {"CREATED", "CANCELED"}
          /\ Tail(s) # <<"WAITING_APPROVAL">>
          /\ Head(s) = "WAITING_APPROVAL" =>
                to = "release" /\ s = <<"WAITING_APPROVAL">> /\ Tail(s) = <<>>
          /\ Head(s) = "COMPLETED" => to = "completed" /\ Tail(s) = <<>>
          /\ s = <<"FAILED">> => Head(s) = "FAILED"
      <4>1. s # <<>>
        BY <3>2
      <4> QED
        BY <4>1, RouteSteps, Zenon
    <3>4. /\ route[c] = <<"WAITING_APPROVAL">> => Head(route[c]) = "WAITING_APPROVAL"
          /\ route[c] = <<"COMPLETED">> => Head(route[c]) = "COMPLETED"
      BY ShortRoutes
    <3> QED
      BY <3>1, <3>2, <3>3, <3>4, Zenon
  <2>3. /\ mission \in TerminalMission => mission' = mission
        /\ mission' = "COMPLETED" => mission \in {"EVALUATING", "COMPLETED"}
    BY <2>1, <2>2, Transitions
  <2>4. Stopped => Stopped' /\ mission' = mission
    BY <2>3 DEF Stopped, TerminalMission
  <2>5. WorkRight(c)'
    <3>1. ASSUME NEW j \in Jobs, status[j] = "failed"
          PROVE  Stopped'
      BY <2>1, <2>2, <2>4, <3>1 DEF WorkRight, Judging, Stopped
    <3>2. JobsSucceeded' = JobsSucceeded /\ (verdict[c] = "canceled" => mission' = "CANCELED")
      BY <2>1, <2>3 DEF JobsSucceeded, WorkRight, TerminalMission
    <3> QED
      BY <2>1, <2>4, <3>1, <3>2 DEF WorkRight, InHand
  <2>6. StateRight(c)'
    BY <1>2, <2>2 DEF StateRight, AtRest, Working
  <2>7. Gated => Gated' \/ Stopped'
    <3>1. CASE mission = "WAITING_APPROVAL"
      <4>1. route[c] \in {<<"FAILED">>, <<"COMPLETED">>}
        BY <2>1, <3>1 DEF StateRight
      <4> QED
        BY <2>2, <2>3, <3>1, <4>1 DEF Stopped
    <3>2. CASE Requesting(c)
      BY <2>2, <3>2 DEF Requesting, Gated
    <3> QED
      BY <1>1, <3>1, <3>2 DEF Gated
  <2>8. PendingRight'
    BY <2>1, <2>4, <2>7 DEF PendingRight, ReviewRight, NothingPending
  <2>9. LedgerRight'
    BY <2>1, <2>2, <2>3, <2>4 DEF LedgerRight, WorkRight, JobsSucceeded, Stopped, TerminalMission
  <2> QED
    BY <1>1, <2>5, <2>6, <2>8, <2>9 DEF FaultlessInv
<1> QED
  BY <1>4, <1>5 DEF EndNext

LEMMA MoveEnds ==
  ASSUME NEW c \in Controllers, Before(c), Move(c)
  PROVE  EndNext
<1>0. pc[c] = "move" /\ ~AtRest(c) /\ UNCHANGED <<status, owners, approval, final, crashes>>
  BY DEF Move, AtRest, ledgerVars
<1>1. CASE route[c] = <<>>
  <2>1. PICK label : label = IF goal[c] \in Codes THEN "conclude" ELSE goal[c]
    OBVIOUS
  <2>2. Goto(c, label) /\ mission' = mission
    BY <1>1, <2>1 DEF Move
  <2>3. /\ ReviewersStay /\ pc'[c] = label
        /\ UNCHANGED <<copy, seen, picked, job, number, verdict, goal, route>>
        /\ \/ label = "conclude" /\ goal[c] \in Codes
           \/ label \in {"acquire", "release", "record"} /\ goal[c] = label
    BY <1>0, <2>1, <2>2, GotoIs DEF Before, GoalFitsOf
  <2>4. JudgedRight(c)'
    BY <1>0, <2>3 DEF Before, JudgedRight, InHand, AtRest, Working, Judging, Entering,
       FailedSome, Codes, Failures, Success, Failing
  <2>5. ASSUME crashes = 0
        PROVE  WorkRight(c)' /\ StateRight(c)'
    <3>1. WorkRight(c) /\ StateRight(c) /\ <<>> # <<"FAILED">> /\ <<>> # <<"PLANNING", "WAITING_WORKER">>
      BY <2>5, ShortRoutes DEF Before
    <3>2. WorkRight(c)'
      BY <1>0, <1>1, <2>2, <2>3, <3>1
         DEF WorkRight, InHand, Working, Judging, Stopped, JobsSucceeded, Codes, Failures
    <3>3. StateRight(c)'
      BY <1>0, <1>1, <2>2, <2>3, <3>1
         DEF StateRight, AtRest, Working, Judging, Codes, Failures
    <3> QED
      BY <3>2, <3>3
  <2>6. ~Requesting(c)
    BY <1>1, ShortRoutes DEF Requesting
  <2> QED
    BY <1>0, <2>2, <2>3, <2>4, <2>5, <2>6, StoreStays DEF Before
<1>2. CASE route[c] # <<>> /\ CanWrite(mission, Head(route[c]))
  BY <1>0, <1>2, WriteEnds DEF Move
<1>3. CASE route[c] # <<>> /\ ~CanWrite(mission, Head(route[c]))
  <2>1. Raise(c) /\ mission' = mission
    BY <1>3 DEF Move
  <2>2. ASSUME crashes = 0
        PROVE  Clean(c)
    <3>1. /\ WorkRight(c) /\ StateRight(c) /\ LedgerRight /\ mission \in MissionState
      BY <2>2 DEF Before, TypeOK
    <3>2. ASSUME route[c] \in {<<"FAILED">>, <<"WAITING_APPROVAL">>}
          PROVE  mission \in {"CREATED"} \cup TerminalMission
      BY <1>3, <3>1, <3>2, ShortRoutes, Transitions DEF MissionState
    <3>3. \A j \in Jobs : status[j] # "leased" /\ (status[j] = "failed" => Stopped)
      <4>1. ASSUME NEW j \in Jobs, status[j] = "failed", ~Stopped
            PROVE  FALSE
        <5>1. goal[c] = "job_failed" /\ route[c] = <<"FAILED">> /\ mission # "CREATED"
          BY <1>0, <3>1, <4>1 DEF WorkRight, LedgerRight, Judging
        <5>2. mission = "COMPLETED"
          BY <3>2, <4>1, <5>1 DEF Stopped, TerminalMission
        <5> QED
          BY <1>0, <3>1, <5>1, <5>2 DEF StateRight
      <4> QED
        BY <1>0, <3>1, <4>1 DEF WorkRight
    <3>4. Requesting(c) => Stopped
      <4>1. ASSUME Requesting(c)
            PROVE  goal[c] = "release"
        <5>1. Head(route[c]) = "WAITING_APPROVAL"
          BY <4>1, ShortRoutes DEF Requesting
        <5>2. goal[c] \in {"acquire", "release", "record"} \cup Codes
          BY <1>0 DEF Before, GoalFitsOf
        <5> QED
          BY <1>0, <1>3, <3>1, <5>1, <5>2, RouteSteps DEF StateRight
      <4> QED
        BY <1>0, <3>1, <3>2, <4>1 DEF StateRight, Stopped, TerminalMission, Requesting
    <3> QED
      BY <3>3, <3>4 DEF Clean
  <2> QED
    BY <1>0, <2>1, <2>2, RaiseEnds DEF Before
<1> QED
  BY <1>1, <1>2, <1>3

-----------------------------------------------------------------------------
(* The steps of the others                                                  *)

ControllersStay ==
  \A c \in Controllers :
    /\ pc'[c] = pc[c] /\ seen'[c] = seen[c] /\ picked'[c] = picked[c] /\ job'[c] = job[c]
    /\ verdict'[c] = verdict[c] /\ goal'[c] = goal[c] /\ route'[c] = route[c]

LEMMA OthersJudge ==
  ASSUME EndInv, ControllersStay, final' = final,
         \A j \in Jobs : status[j] \in {"queued", "failed"} => status'[j] = status[j]
  PROVE  JudgeInv'
<1>1. ASSUME NEW c \in Controllers
      PROVE  JudgedRight(c)'
  <2>1. JudgedRight(c)
    BY EndParts
  <2>2. AtRest(c)' = AtRest(c) /\ InHand(c)' = InHand(c) /\ (FailedSome => FailedSome')
    BY DEF ControllersStay, AtRest, InHand, FailedSome
  <2> QED
    BY <2>1, <2>2 DEF JudgedRight, ControllersStay, InHand, Judging
<1> QED
  BY <1>1 DEF JudgeInv, EndInv, FailedSome

(* The mission may be stopped, or go on where it waited.                     *)
LEMMA OthersWork ==
  ASSUME EndInv, ControllersStay, crashes = 0, NEW c \in Controllers,
         UNCHANGED <<status, owners>>,
         mission' = mission \/ mission' \in {"WAITING_WORKER", "FAILED", "CANCELED"},
         mission \in TerminalMission => mission' = mission
  PROVE  WorkRight(c)' /\ StateRight(c)'
<1>1. WorkRight(c) /\ StateRight(c) /\ (Stopped => Stopped')
  BY EndParts DEF Stopped, TerminalMission
<1>2. /\ AtRest(c)' = AtRest(c) /\ InHand(c)' = InHand(c) /\ JobsSucceeded' = JobsSucceeded
      /\ \A j : NextQueued(j)' <=> NextQueued(j)
  BY DEF ControllersStay, AtRest, InHand, JobsSucceeded, NextQueued, Queued
<1>3. WorkRight(c)'
  BY <1>1, <1>2 DEF WorkRight, ControllersStay, Stopped, TerminalMission
<1>4. StateRight(c)'
  BY <1>1, <1>2 DEF StateRight, ControllersStay
<1> QED
  BY <1>3, <1>4

LEMMA ReviewsEnd ==
  ASSUME OneReviewer, EndInv, NEW r \in Reviewers, Review(r)
  PROVE  EndNext
<1>0. /\ TypeOK /\ ReviewsFit /\ \A q \in Reviewers : q = r
      /\ r \in Procs /\ r \notin Controllers
  BY LoopAssumption DEF EndInv, IInv, OneReviewer, Procs
<1>1. ControllersStay /\ UNCHANGED <<status, owners, final, crashes>>
  BY <1>0, LoopAssumption
     DEF Review, Open, Resolve, Notify, Goto, Dismiss, TypeOK, Procs, ControllersStay,
         storeVars, ledgerVars
<1>2. JudgeInv'
  BY <1>1, OthersJudge
<1>3. \A c \in Controllers : Requesting(c)' <=> Requesting(c)
  BY <1>1 DEF Requesting, ControllersStay
<1>4. ASSUME crashes = 0
      PROVE  FaultlessInv'
  <2>0. PendingRight /\ LedgerRight /\ ReviewRight(r)
    BY <1>4 DEF EndInv, FaultlessInv, PendingRight
  <2>1. ASSUME NEW j \in Jobs, NEW decision \in {"approved", "rejected"}, Open(r, j, decision)
        PROVE  FaultlessInv'
    <3>1. /\ approval[j] = "pending" /\ pc'[r] = "resolve" /\ job'[r] = j
          /\ UNCHANGED <<approval, mission>>
      BY <1>0, <2>1 DEF Open, TypeOK, storeVars
    <3>2. Gated' = Gated /\ Stopped' = Stopped
      BY <1>3, <3>1 DEF Gated, Stopped
    <3>3. ReviewRight(r)'
      BY <2>0, <3>1, <3>2 DEF ReviewRight, PendingRight
    <3>4. PendingRight' /\ LedgerRight'
      BY <1>0, <1>1, <2>0, <3>1, <3>2, <3>3 DEF PendingRight, LedgerRight, JobsSucceeded
    <3> QED
      BY <1>1, <1>4, <3>1, <3>4, OthersWork DEF FaultlessInv
  <2>2. CASE Resolve(r)
    <3>1. /\ pc[r] = "resolve" /\ pc'[r] = "notify" /\ mission' = mission
          /\ approval' = [approval EXCEPT ![job[r]] = verdict[r]]
          /\ verdict[r] \in {"approved", "rejected"}
          /\ job[r] \in Jobs /\ approval[job[r]] = "pending"
      BY <1>0, <2>0, <2>2 DEF Resolve, Goto, TypeOK, ReviewsFit, ReviewRight
    <3>2. Gated' = Gated /\ Stopped' = Stopped
      BY <1>3, <3>1 DEF Gated, Stopped
    <3>3. /\ \A i \in Jobs : approval'[i] = "pending" => approval[i] = "pending" /\ i # job[r]
          /\ mission # "CREATED"
      BY <1>0, <2>0, <3>1 DEF TypeOK, LedgerRight
    <3>4. Stopped \/ NothingPending'
      BY <2>0, <3>1, <3>3 DEF PendingRight, NothingPending
    <3>5. ReviewRight(r)'
      BY <2>0, <3>1, <3>2, <3>4 DEF ReviewRight
    <3>6. PendingRight' /\ LedgerRight'
      BY <1>0, <1>1, <2>0, <3>1, <3>2, <3>3, <3>5 DEF PendingRight, LedgerRight, JobsSucceeded
    <3> QED
      BY <1>1, <1>4, <3>1, <3>6, OthersWork DEF FaultlessInv
  <2>3. CASE Notify(r)
    <3>1. /\ pc[r] = "notify" /\ pc'[r] = "idle" /\ approval' = approval
          /\ \/ mission' = mission
             \/ mission' \in {"WAITING_WORKER", "FAILED"} /\ CanWrite(mission, mission')
      BY <1>0, <2>3 DEF Notify, Dismiss, TypeOK
    <3>2. mission \in TerminalMission => mission' = mission
      BY <1>0, <3>1, Transitions DEF TypeOK, MissionState
    <3>3. (Stopped => Stopped') /\ NothingPending' = NothingPending
      BY <3>1, <3>2 DEF Stopped, TerminalMission, NothingPending
    <3>4. Stopped \/ NothingPending
      BY <2>0, <3>1 DEF ReviewRight
    <3>5. ReviewRight(r)'
      BY <3>1 DEF ReviewRight
    <3>6. PendingRight'
      BY <1>0, <3>1, <3>3, <3>4, <3>5 DEF PendingRight, NothingPending
    <3>7. LedgerRight'
      BY <1>1, <2>0, <3>1, <3>2 DEF LedgerRight, JobsSucceeded, TerminalMission
    <3> QED
      BY <1>1, <1>4, <3>1, <3>2, <3>6, <3>7, OthersWork DEF FaultlessInv
  <2> QED
    BY <2>1, <2>2, <2>3, Zenon DEF Review
<1> QED
  BY <1>1, <1>2, <1>4 DEF EndNext

LEMMA CancelEnds ==
  ASSUME EndInv, Cancel
  PROVE  EndNext
<1>1. /\ mission' = "CANCELED" /\ mission # "CANCELED" /\ CanWrite(mission, "CANCELED")
      /\ UNCHANGED <<status, owners, approval, final, crashes, pc, job>> /\ ControllersStay
  BY DEF Cancel, ledgerVars, localVars, ControllersStay
<1>2. mission \in MissionState
  BY DEF EndInv, IInv, TypeOK
<1>3. mission \notin TerminalMission /\ Stopped'
  BY <1>1, <1>2, Transitions DEF MissionState, Stopped
<1>4. JudgeInv'
  BY <1>1, OthersJudge
<1>5. ASSUME crashes = 0
      PROVE  FaultlessInv'
  <2>1. PendingRight /\ LedgerRight
    BY <1>5 DEF EndInv, FaultlessInv
  <2>2. PendingRight'
    BY <1>1, <1>3, <2>1 DEF PendingRight, ReviewRight
  <2>3. LedgerRight'
    BY <1>1 DEF LedgerRight
  <2> QED
    BY <1>1, <1>3, <1>5, <2>2, <2>3, OthersWork DEF FaultlessInv
<1> QED
  BY <1>1, <1>4, <1>5 DEF EndNext

LEMMA RecoverEnds ==
  ASSUME EndInv, RecoverExpired
  PROVE  EndNext
<1>1. PICK J \in SUBSET Jobs :
        /\ J # {}
        /\ \A j \in J : status[j] = "leased" /\ owners[j] # {}
        /\ status' = [j \in Jobs |-> IF j \in J THEN "queued" ELSE status[j]]
        /\ owners' = [j \in Jobs |-> IF j \in J THEN {} ELSE owners[j]]
  BY DEF RecoverExpired, Ledger!Recover
<1>2. /\ \A j \in J : status[j] = "leased" /\ owners[j] # {}
      /\ \A j \in Jobs : status'[j] = IF j \in J THEN "queued" ELSE status[j]
      /\ \A j \in Jobs : owners'[j] = IF j \in J THEN {} ELSE owners[j]
      /\ UNCHANGED <<approval, mission, final, crashes, pc, job>> /\ ControllersStay
  BY <1>1 DEF RecoverExpired, localVars, ControllersStay
<1>3. JudgeInv'
  BY <1>1, <1>2, OthersJudge
<1>4. ASSUME crashes = 0
      PROVE  FaultlessInv'
  <2>0. PendingRight /\ LedgerRight /\ \A c \in Controllers : WorkRight(c) /\ StateRight(c)
    BY <1>4 DEF EndInv, FaultlessInv
  <2>1. ASSUME NEW c \in Controllers
        PROVE  WorkRight(c)' /\ StateRight(c)'
    <3>1. PICK j \in J : status[j] = "leased"
      BY <1>1, <1>2
    <3>2. pc[c] \in {"attempt", "run", "commit"} /\ WorkRight(c) /\ StateRight(c)
      BY <1>1, <2>0, <3>1 DEF WorkRight
    <3>3. goal[c] # "completed"
      BY <3>2 DEF WorkRight
    <3>4. Stopped' = Stopped /\ InHand(c)' = InHand(c) /\ AtRest(c)' = AtRest(c)
      BY <1>2 DEF Stopped, InHand, AtRest, ControllersStay
    <3>5. WorkRight(c)'
      BY <1>2, <3>2, <3>3, <3>4 DEF WorkRight, ControllersStay, Judging
    <3>6. StateRight(c)'
      BY <1>2, <3>2, <3>4 DEF StateRight, ControllersStay
    <3> QED
      BY <3>5, <3>6
  <2>2. Gated' = Gated /\ Stopped' = Stopped /\ NothingPending' = NothingPending
    BY <1>2 DEF Gated, Stopped, Requesting, NothingPending, ControllersStay
  <2>3. PendingRight'
    BY <1>2, <2>0, <2>2 DEF PendingRight, ReviewRight
  <2>4. LedgerRight'
    BY <1>1, <1>2, <2>0 DEF LedgerRight, JobsSucceeded
  <2> QED
    BY <2>1, <2>3, <2>4 DEF FaultlessInv
<1> QED
  BY <1>2, <1>3, <1>4 DEF EndNext

LEMMA CrashEnds ==
  ASSUME OneController, EndInv, NEW p \in Procs, Crash(p)
  PROVE  EndNext
<1>1. crashes' # 0 /\ UNCHANGED storeVars
  BY DEF Crash, EndInv, IInv, TypeOK
<1>2. CASE p \in Controllers
  <2>1. Forget(p) /\ UNCHANGED <<status, approval, mission, final>>
    BY <1>1, <1>2 DEF Crash, storeVars, ledgerVars
  <2> QED
    BY <1>1, <1>2, <2>1, ForgetEnds DEF EndInv, JudgeInv
<1>3. CASE p \notin Controllers
  <2>1. TypeOK /\ Dismiss(p)
    BY <1>3 DEF Crash, EndInv, IInv
  <2>2. ControllersStay
    BY <1>3, <2>1 DEF Dismiss, ControllersStay, TypeOK, Procs
  <2> QED
    BY <1>1, <2>2, OthersJudge DEF EndNext, storeVars, ledgerVars
<1> QED
  BY <1>2, <1>3

LEMMA NothingEnds ==
  ASSUME EndInv, UNCHANGED <<status, owners, approval, mission, final, localVars, crashes>>
  PROVE  EndNext
<1>1. JudgeInv'
  <2>1. ControllersStay
    BY DEF ControllersStay, localVars
  <2> QED
    BY <2>1, OthersJudge
<1>2. ASSUME crashes = 0
      PROVE  FaultlessInv'
  <2>1. ControllersStay /\ PendingRight /\ LedgerRight
    BY <1>2 DEF ControllersStay, localVars, EndInv, FaultlessInv
  <2>2. \A c \in Controllers : WorkRight(c)' /\ StateRight(c)'
    BY <1>2, <2>1, OthersWork
  <2>3. Gated' = Gated /\ Stopped' = Stopped /\ NothingPending' = NothingPending
    BY DEF Gated, Stopped, Requesting, NothingPending, localVars
  <2>4. PendingRight' /\ LedgerRight'
    BY <2>1, <2>3 DEF PendingRight, ReviewRight, LedgerRight, JobsSucceeded, localVars
  <2> QED
    BY <2>2, <2>4 DEF FaultlessInv
<1> QED
  BY <1>1, <1>2 DEF EndNext

LEMMA EndInit == Init => EndInv
<1> SUFFICES ASSUME Init PROVE EndInv
  OBVIOUS
<1>1. JudgeInv
  BY DEF Init, JudgeInv, JudgedRight, AtRest, InHand, Working, Judging, Entering, Procs
<1>2. \A c \in Controllers : WorkRight(c) /\ StateRight(c)
  BY DEF Init, Ledger!Init, WorkRight, StateRight, InHand, Working, Judging, Procs
<1>3. PendingRight /\ LedgerRight
  BY DEF Init, Ledger!Init, PendingRight, ReviewRight, LedgerRight, Procs
<1> QED
  BY <1>1, <1>2, <1>3, InitInvariant DEF EndInv, FaultlessInv

LEMMA EndStep == ASSUME OneController, OneReviewer, EndInv, [Next]_vars PROVE EndInv'
<1>0. IInv'
  BY StepInvariant DEF EndInv
<1>1. ASSUME NEW c \in Controllers,
             Advance(c) \/ \E command \in {"none", "status"} : Begin(c, command)
      PROVE  EndNext
  <2>1. Before(c)
    BY BeforeStep
  <2>2. CASE \/ Load(c) \/ Insert(c) \/ Sync(c, "sync", "assess") \/ Assess(c) \/ List(c)
             \/ Fetch(c) \/ Plan(c) \/ Move(c) \/ Acquire(c) \/ Attempt(c) \/ Run(c)
    BY <2>1, <2>2, EnterEnds, AssessEnds, ListEnds, FetchEnds, PlanEnds, MoveEnds,
       AcquireEnds, AttemptEnds
  <2>3. CASE \/ Commit(c) \/ Ask(c) \/ Release(c) \/ Requeue(c) \/ Sync(c, "resync", "after")
             \/ After(c) \/ Remaining(c) \/ Record(c) \/ RecordEnd(c) \/ SetOutcome(c)
    BY <2>1, <2>3, CommitEnds, AskEnds, ReleaseEnds, RequeueEnds, EnterEnds, AfterEnds,
       RemainingEnds, RecordEnds
  <2> QED
    BY <1>1, <2>1, <2>2, <2>3, BeginEnds, Zenon DEF Advance
<1>2. ASSUME NEW r \in Reviewers, Review(r)
      PROVE  EndNext
  BY <1>2, ReviewsEnd
<1>3. ASSUME NEW p \in Procs, Crash(p)
      PROVE  EndNext
  BY <1>3, CrashEnds
<1>4. ASSUME Cancel \/ RecoverExpired
      PROVE  EndNext
  BY <1>4, CancelEnds, RecoverEnds
<1>5. ASSUME Elapse \/ UNCHANGED vars
      PROVE  EndNext
  BY <1>5, NothingEnds DEF Elapse, vars, storeVars, ledgerVars, localVars
<1>6. EndNext
  BY <1>1, <1>2, <1>3, <1>4, <1>5, Zenon DEF Next
<1> QED
  BY <1>0, <1>6 DEF EndInv, EndNext

(* One controller, one reviewer, jobs that are recovered under them, asked    *)
(* for approval, retried and canceled: as long as neither has died a mission *)
(* is completed only when every job has succeeded and every approval is      *)
(* resolved (_complete), and it ends as job_failed only if a job has failed  *)
(* for good, also when controllers have died (_terminate).                   *)
THEOREM EndIsEarned == ASSUME OneController, OneReviewer PROVE Spec => []EndsAsWorked
<1>1. ASSUME EndInv
      PROVE  EndsAsWorked
  <2>1. ASSUME mission = "COMPLETED", crashes = 0
        PROVE  JobsSucceeded /\ NothingPending
    <3>1. /\ PendingRight /\ LedgerRight /\ \A c \in Controllers : StateRight(c)
          /\ \A j \in Jobs : approval[j] = "pending" => Stopped \/ Gated
      BY <1>1, <2>1 DEF EndInv, FaultlessInv, PendingRight
    <3>2. \A c \in Controllers : ~Requesting(c)
      BY <2>1, <3>1, ShortRoutes DEF StateRight, Requesting, AtRest
    <3> QED
      BY <2>1, <3>1, <3>2 DEF LedgerRight, Gated, Stopped, NothingPending
  <2> QED
    BY <1>1, <2>1 DEF EndInv, JudgeInv, FailedSome, EndsAsWorked
<1>2. EndInv => EndsAsWorked
  BY <1>1
<1>3. EndInv /\ [Next]_vars => EndInv'
  BY EndStep
<1> QED
  BY <1>2, <1>3, EndInit, PTL DEF Spec
=============================================================================
