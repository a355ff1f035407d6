--------------------------- MODULE GraphRunProofs ---------------------------
(***************************************************************************)
(* Proofs about GraphRun for every template and every number of crashes,   *)
(* interventions and approvals: type correctness and the limits of the     *)
(* nodes for any number of drivers; and, while one driver at a time is at  *)
(* work, the limits of the edges, that nothing is routed twice, joins are  *)
(* complete, results are the jobs' and the reviewers', and a graph that    *)
(* succeeded is settled.                                                   *)
(***************************************************************************)
EXTENDS GraphRun, FiniteSetTheorems, TLAPS

-----------------------------------------------------------------------------
(* Where a call is, and how many runs there are.                             *)
InCall(d) ==
  LET c == call[d] IN
  /\ c.pc \in Waving => c.cur \in 1 .. Len(c.wave) /\ c.mode # "none"
  /\ c.pc \in {"create", "mark", "prepare"} => c.mode = "wave"
  /\ c.pc \in {"execute", "apply", "again", "fresh", "consume", "count"} =>
       c.mode \in {"wave", "resumed"}
  /\ c.pc = "gate" => c.mode = "gates"
  /\ c.room => c.pc = "route" /\ c.via \in Edges
  /\ \A k \in DOMAIN c.wave :
       c.mode = "gates" \/ c.wave[k].out = "waiting" => c.wave[k].approval # 0
  /\ c.pc \in Limiting =>
       c.limits \in [Nodes -> Nat] /\ \A n \in Nodes : c.limits[n] <= Node[n].maxRuns

(* Nobody has created a run since the driver read them: then those of the    *)
(* nodes that are next are still as many as they were.                       *)
NoRunSince(d) ==
  LET c == call[d] IN
  \/ c.pc = "create" /\ Len(runs) + 1 = c.base + c.cur
  \/ c.pc = "mark" /\ Len(runs) = c.base + c.cur
Unborn(d) ==
  LET c == call[d]
  IN {k \in DOMAIN c.wave : k > c.cur \/ (c.pc = "create" /\ k = c.cur)}
RunsCounted(d) ==
  LET c == call[d] IN
  /\ c.pc = "create" => Len(runs) + 1 >= c.base + c.cur
  /\ c.pc = "mark" => Len(runs) >= c.base + c.cur
  /\ c.pc \in {"create", "mark"} =>
       \A j, k \in DOMAIN c.wave : c.wave[j].node = c.wave[k].node => j = k
  /\ NoRunSince(d) =>
       \A k \in Unborn(d) : /\ c.wave[k].index = Cardinality(RunsOf(c.wave[k].node)) + 1
                            /\ c.wave[k].index <= c.limits[c.wave[k].node]

CountInv ==
  /\ TypeOK /\ NodesWithin
  /\ \A d \in Drivers : InCall(d) /\ RunsCounted(d)

(* The items of a wave that have a run know it, each one of its own; and an  *)
(* item that is about to be bound knows a job that exists.                  *)
BegunIn(c) ==
  IF c.pc \in Waving
    THEN {k \in DOMAIN c.wave : /\ c.pc = "create" => k < c.cur
                                /\ c.pc = "mark" => k <= c.cur}
    ELSE {}
KnownIn(c) ==
  /\ \A k \in DOMAIN c.wave : c.wave[k].at = "bind" => c.wave[k].job \in DOMAIN jobs
  /\ \A k \in BegunIn(c) :
       /\ c.wave[k].run \in DOMAIN runs
       /\ runs[c.wave[k].run].node = c.wave[k].node /\ IndexOf(c.wave[k].run) = c.wave[k].index
  /\ \A j, k \in BegunIn(c) : c.wave[j].run = c.wave[k].run => j = k

BaseInv == CountInv /\ \A d \in Drivers : KnownIn(call[d])

-----------------------------------------------------------------------------
(* Finite sets of numbers, in their order *)

Rank(S, x) == Cardinality({y \in S : y <= x})

LEMMA RankProps ==
  ASSUME NEW S \in SUBSET Nat, IsFiniteSet(S)
  PROVE  /\ Cardinality(S) \in Nat
         /\ \A x \in S : Rank(S, x) \in 1 .. Cardinality(S)
         /\ \A x, y \in S : x < y => Rank(S, x) < Rank(S, y)
         /\ \A x, y \in S : Rank(S, x) = Rank(S, y) => x = y
         /\ \A i \in 1 .. Cardinality(S) : \E x \in S : Rank(S, x) = i
<1> DEFINE Below(x) == {y \in S : y <= x}
<1>1. \A x \in S : IsFiniteSet(Below(x)) /\ Cardinality(Below(x)) \in Nat
                   /\ Cardinality(Below(x)) <= Cardinality(S)
  <2> TAKE x \in S
  <2>1. Below(x) \in SUBSET S
    OBVIOUS
  <2>2. IsFiniteSet(Below(x)) /\ Cardinality(Below(x)) <= Cardinality(S)
    BY <2>1, FS_Subset
  <2> QED BY <2>2, FS_CardinalityType
<1>2. Cardinality(S) \in Nat
  BY FS_CardinalityType
<1>3. \A x \in S : Cardinality(Below(x)) > 0
  <2> TAKE x \in S
  <2>1. x \in Below(x)
    OBVIOUS
  <2>2. Cardinality(Below(x)) # 0
    BY <1>1, <2>1, FS_EmptySet
  <2> QED BY <1>1, <2>2
<1>4. ASSUME NEW x \in S, NEW y \in S, x < y
      PROVE  Cardinality(Below(x)) < Cardinality(Below(y))
  <2> x \in Nat /\ y \in Nat /\ \A z \in S : z \in Nat
    OBVIOUS
  <2>a. \A z \in Below(x) : z \in Below(y)
    BY <1>4
  <2>b. y \in Below(y) /\ y \notin Below(x)
    BY <1>4
  <2>1. Below(x) \in SUBSET Below(y) /\ y \in Below(y) /\ y \notin Below(x)
    BY <2>a, <2>b
  <2>2. Below(x) # Below(y)
    BY <2>1
  <2>3. IsFiniteSet(Below(y))
    BY <1>1
  <2>4. Cardinality(Below(x)) <= Cardinality(Below(y)) /\ Cardinality(Below(x)) # Cardinality(Below(y))
    BY <2>1, <2>2, <2>3, FS_Subset
  <2> QED BY <1>1, <2>4
<1>5. ASSUME NEW x \in S, NEW y \in S, Cardinality(Below(x)) = Cardinality(Below(y))
      PROVE  x = y
  <2>1. x < y \/ y < x \/ x = y
    OBVIOUS
  <2> QED BY <1>1, <1>4, <1>5, <2>1
<1> DEFINE f == [x \in S |-> Cardinality(Below(x))]
           I == 1 .. Cardinality(S)
<1>6. f \in [S -> I]
  BY <1>1, <1>2, <1>3
<1>7. f \in Injection(S, I)
  BY <1>5, <1>6, Zenon DEF Injection, IsInjective
<1>8. IsFiniteSet(I) /\ Cardinality(I) = Cardinality(S)
  BY <1>2, FS_Interval
<1>9. f \in Surjection(S, I)
  BY <1>7, <1>8, FS_Injection
<1>10. \A i \in I : \E x \in S : f[x] = i
  BY <1>9 DEF Surjection
<1> QED BY <1>2, <1>1, <1>3, <1>4, <1>5, <1>10 DEF Rank

LEMMA MinMax ==
  ASSUME NEW S \in SUBSET Nat, IsFiniteSet(S), S # {}
  PROVE  /\ Min(S) \in S /\ \A y \in S : Min(S) <= y
         /\ Max(S) \in S /\ \A y \in S : y <= Max(S)
<1>1. Cardinality(S) \in Nat \ {0}
  BY RankProps, FS_EmptySet
<1>2. PICK x \in S : Rank(S, x) = 1
  BY <1>1, RankProps
<1>3. PICK z \in S : Rank(S, z) = Cardinality(S)
  BY <1>1, RankProps
<1>4. \A y \in S : Rank(S, y) \in 1 .. Cardinality(S)
  BY RankProps
<1>5. \A y \in S : x <= y
  <2> TAKE y \in S
  <2>1. y < x => Rank(S, y) < Rank(S, x)
    BY RankProps
  <2> QED BY <1>1, <1>2, <1>4, <2>1
<1>6. \A y \in S : y <= z
  <2> TAKE y \in S
  <2>1. z < y => Rank(S, z) < Rank(S, y)
    BY RankProps
  <2> QED BY <1>1, <1>3, <1>4, <2>1
<1> QED BY <1>5, <1>6 DEF Min, Max

LEMMA InOrderProps ==
  ASSUME NEW S \in SUBSET Nat, IsFiniteSet(S)
  PROVE  /\ InOrder(S) \in Seq(S)
         /\ Cardinality(S) \in Nat /\ Len(InOrder(S)) = Cardinality(S)
         /\ DOMAIN InOrder(S) = 1 .. Cardinality(S)
         /\ \A i \in DOMAIN InOrder(S) : InOrder(S)[i] \in S
         /\ \A i, j \in DOMAIN InOrder(S) : InOrder(S)[i] = InOrder(S)[j] => i = j
         /\ InOrder(S) = <<>> <=> S = {}
         /\ S # {} => 1 \in DOMAIN InOrder(S)
<1>1. Cardinality(S) \in Nat
  BY RankProps
<1>2. \A i \in 1 .. Cardinality(S) :
        InOrder(S)[i] \in S /\ Rank(S, InOrder(S)[i]) = i
  <2> TAKE i \in 1 .. Cardinality(S)
  <2>1. \E x \in S : Rank(S, x) = i
    BY RankProps
  <2> QED BY <2>1 DEF InOrder, Rank
<1>3. InOrder(S) \in [1 .. Cardinality(S) -> S]
  <2>1. InOrder(S) = [i \in 1 .. Cardinality(S) |-> InOrder(S)[i]]
    BY DEF InOrder
  <2> QED BY <1>2, <2>1, Zenon
<1>4. InOrder(S) \in Seq(S) /\ Len(InOrder(S)) = Cardinality(S)
  BY <1>1, <1>3
<1>5. \A i, j \in 1 .. Cardinality(S) : InOrder(S)[i] = InOrder(S)[j] => i = j
  BY <1>2, Zenon
<1>6. Cardinality(S) = 0 <=> S = {}
  BY FS_EmptySet
<1>7. DOMAIN InOrder(S) = 1 .. Cardinality(S)
  BY <1>3
<1>8. InOrder(S) = <<>> <=> S = {}
  BY <1>1, <1>4, <1>6
<1>9. InOrder(S) \in Seq(S)
  BY <1>1, <1>3
<1>10. \A i, j \in DOMAIN InOrder(S) : InOrder(S)[i] = InOrder(S)[j] => i = j
  BY <1>5, <1>7, Zenon
<1>11. \A i \in DOMAIN InOrder(S) : InOrder(S)[i] \in S
  BY <1>2, <1>7, Zenon
<1>12. S # {} => 1 \in DOMAIN InOrder(S)
  <2> SUFFICES ASSUME S # {} PROVE 1 \in DOMAIN InOrder(S)
    OBVIOUS
  <2>1. Cardinality(S) # 0
    BY <1>6, Zenon
  <2>2. 1 \in 1 .. Cardinality(S)
    BY <1>1, <2>1
  <2> QED BY <1>7, <2>2, Zenon
<1> QED BY <1>1, <1>4, <1>7, <1>8, <1>9, <1>10, <1>11, <1>12, Zenon

-----------------------------------------------------------------------------
(* Types, variable by variable *)

GraphOK ==
  graph \in [status : {"RUNNING", "WAITING_APPROVAL", "SUCCEEDED", "FAILED"}, step : Nat,
             max : StepLimits, code : Goal]
JobState == {"queued", "leased", "failed", "canceled"} \cup Successes
JobsOK == DOMAIN jobs \subseteq Key /\ jobs \in [DOMAIN jobs -> JobState]
BoundOK == DOMAIN bound \subseteq Nat \X Nat /\ bound \in [DOMAIN bound -> DOMAIN jobs]
Approval == [decision : {"pending", "approved", "rejected"}, told : BOOLEAN]
CallsOK == call \in [Drivers -> Call]
StoreOK ==
  /\ GraphOK /\ IsTemplate(snapshot)
  /\ runs \in Seq(Run) /\ handoffs \in Seq(Handoff)
  /\ JobsOK /\ BoundOK
  /\ approvals \in Seq(Approval)
  /\ mission \in MissionState
  /\ used \subseteq Keys /\ crashes \in 0 .. MaxCrashes

LEMMA TypeParts == TypeOK <=> StoreOK /\ CallsOK
BY DEF TypeOK, StoreOK, CallsOK, GraphOK, JobsOK, BoundOK, JobState, Approval

LEMMA TypePartsNext == StoreOK' /\ CallsOK' => TypeOK'
BY TypeParts, PTL

LEMMA TemplateShape ==
  ASSUME NEW t, IsTemplate(t)
  PROVE  /\ t.nodes \in Seq(NodeType(DOMAIN t.nodes)) /\ t.edges \in Seq(EdgeType(DOMAIN t.nodes))
         /\ t.rounds \in Nat
         /\ DOMAIN t.nodes \in SUBSET Nat /\ IsFiniteSet(DOMAIN t.nodes)
         /\ DOMAIN t.edges \in SUBSET Nat /\ IsFiniteSet(DOMAIN t.edges)
         /\ \A n \in DOMAIN t.nodes : n \in Nat /\ t.nodes[n] \in NodeType(DOMAIN t.nodes)
         /\ \A e \in DOMAIN t.edges : e \in Nat /\ e >= 1 /\ t.edges[e] \in EdgeType(DOMAIN t.nodes)
<1> DEFINE N == DOMAIN t.nodes
<1>1. t.nodes \in Seq(NodeType(N)) /\ t.edges \in Seq(EdgeType(N)) /\ t.rounds \in Nat
  BY DEF IsTemplate
<1>2. /\ Len(t.nodes) \in Nat /\ N = 1 .. Len(t.nodes)
      /\ Len(t.edges) \in Nat /\ DOMAIN t.edges = 1 .. Len(t.edges)
  BY <1>1
<1>3. IsFiniteSet(N) /\ IsFiniteSet(DOMAIN t.edges)
  BY <1>2, FS_Interval
<1>4. \A n \in N : t.nodes[n] \in NodeType(N)
  BY <1>1, <1>2
<1>5. \A e \in DOMAIN t.edges : t.edges[e] \in EdgeType(N)
  BY <1>1, <1>2
<1>6. /\ N \in SUBSET Nat /\ DOMAIN t.edges \in SUBSET Nat
      /\ \A e \in DOMAIN t.edges : e \in Nat /\ e >= 1
      /\ \A n \in N : n \in Nat
  BY <1>2
<1> QED BY <1>1, <1>3, <1>4, <1>5, <1>6

LEMMA TemplateFacts ==
  ASSUME IsTemplate(snapshot)
  PROVE  /\ Node \in Seq(NodeType(Nodes)) /\ Edge \in Seq(EdgeType(Nodes)) /\ MaxRounds \in Nat
         /\ Nodes \in SUBSET Nat /\ IsFiniteSet(Nodes)
         /\ Edges \in SUBSET Nat /\ IsFiniteSet(Edges)
         /\ \A n \in Nodes : n \in Nat /\ Node[n] \in NodeType(Nodes)
         /\ \A e \in Edges : e \in Nat /\ e >= 1 /\ Edge[e] \in EdgeType(Nodes)
BY TemplateShape DEF Node, Edge, Nodes, Edges, MaxRounds

LEMMA TemplateNext ==
  ASSUME IsTemplate(snapshot)'
  PROVE  \A n \in Nodes' : Node'[n] \in NodeType(Nodes')
BY TemplateShape DEF Node, Nodes

LEMMA RowFacts ==
  ASSUME StoreOK
  PROVE  /\ Len(runs) \in Nat /\ DOMAIN runs = 1 .. Len(runs) /\ DOMAIN runs \in SUBSET Nat
         /\ \A r \in DOMAIN runs : r \in Nat /\ r >= 1 /\ runs[r] \in Run
         /\ Len(handoffs) \in Nat /\ DOMAIN handoffs = 1 .. Len(handoffs)
         /\ DOMAIN handoffs \in SUBSET Nat /\ IsFiniteSet(DOMAIN handoffs)
         /\ \A h \in DOMAIN handoffs : h \in Nat /\ handoffs[h] \in Handoff
         /\ Len(approvals) \in Nat /\ DOMAIN approvals = 1 .. Len(approvals)
         /\ \A a \in DOMAIN approvals : approvals[a] \in Approval
         /\ IsFiniteSet(DOMAIN runs)
         /\ \A n : RunsOf(n) \in SUBSET Nat /\ IsFiniteSet(RunsOf(n)) /\ Cardinality(RunsOf(n)) \in Nat
         /\ \A S : RunsIn(S) \in SUBSET Nat /\ IsFiniteSet(RunsIn(S))
<1>1. /\ Len(runs) \in Nat /\ DOMAIN runs = 1 .. Len(runs) /\ DOMAIN runs \in SUBSET Nat
      /\ \A r \in DOMAIN runs : r \in Nat /\ r >= 1 /\ runs[r] \in Run
  BY DEF StoreOK
<1>2. /\ Len(handoffs) \in Nat /\ DOMAIN handoffs = 1 .. Len(handoffs)
      /\ DOMAIN handoffs \in SUBSET Nat
      /\ \A h \in DOMAIN handoffs : h \in Nat /\ handoffs[h] \in Handoff
  BY DEF StoreOK
<1>3. /\ Len(approvals) \in Nat /\ DOMAIN approvals = 1 .. Len(approvals)
      /\ \A a \in DOMAIN approvals : approvals[a] \in Approval
  BY DEF StoreOK
<1>4. IsFiniteSet(DOMAIN runs) /\ IsFiniteSet(DOMAIN handoffs)
  BY <1>1, <1>2, FS_Interval
<1>5. ASSUME NEW n
      PROVE  RunsOf(n) \in SUBSET Nat /\ IsFiniteSet(RunsOf(n)) /\ Cardinality(RunsOf(n)) \in Nat
  <2>1. RunsOf(n) \in SUBSET DOMAIN runs
    BY DEF RunsOf
  <2>2. IsFiniteSet(RunsOf(n))
    BY <1>4, <2>1, FS_Subset
  <2> QED BY <1>1, <2>1, <2>2, FS_CardinalityType
<1>6. ASSUME NEW S
      PROVE  RunsIn(S) \in SUBSET Nat /\ IsFiniteSet(RunsIn(S))
  <2>1. RunsIn(S) \in SUBSET DOMAIN runs
    BY DEF RunsIn
  <2> QED BY <1>1, <1>4, <2>1, FS_Subset
<1> QED BY <1>1, <1>2, <1>3, <1>4, <1>5, <1>6

LEMMA ItemFacts ==
  ASSUME TypeOK, NEW d \in Drivers, NEW k \in DOMAIN call[d].wave
  PROVE  /\ Len(call[d].wave) \in Nat /\ DOMAIN call[d].wave = 1 .. Len(call[d].wave)
         /\ k \in Nat
         /\ call[d].wave[k] \in ItemType
         /\ call[d].wave[k].node \in Nodes
<1>1. call[d].wave \in Seq(ItemType)
  BY DEF TypeOK, Call
<1>2. /\ Len(call[d].wave) \in Nat /\ DOMAIN call[d].wave = 1 .. Len(call[d].wave)
      /\ k \in Nat /\ call[d].wave[k] \in ItemType
  BY <1>1
<1>3. call[d].wave[k].node \in Nodes
  BY <1>2 DEF ItemType
<1> QED BY <1>2, <1>3

LEMMA CurrentItem ==
  ASSUME TypeOK, NEW d \in Drivers, InCall(d), call[d].pc \in Waving
  PROVE  /\ call[d].cur \in DOMAIN call[d].wave
         /\ call[d].cur \in Nat
         /\ Item(d) \in ItemType
         /\ Item(d).node \in Nodes
<1>1. call[d].wave \in Seq(ItemType) /\ call[d].cur \in Nat
  BY DEF TypeOK, Call
<1>2. call[d].cur \in 1 .. Len(call[d].wave)
  BY DEF InCall
<1>3. call[d].cur \in DOMAIN call[d].wave
  BY <1>1, <1>2
<1> QED BY <1>1, <1>3, ItemFacts DEF Item

-----------------------------------------------------------------------------
(* How a step changes the call of a driver *)

LEMMA GoFacts ==
  ASSUME CallsOK, NEW d \in Drivers, NEW c, Go(d, c)
  PROVE  /\ call' = [e \in Drivers |-> call'[e]] /\ call'[d] = c
         /\ \A e \in Drivers : e # d => call'[e] = call[e]
BY DEF CallsOK, Go

LEMMA NoCallType == NoCall \in Call
BY DEF NoCall, Call, Goal

LEMMA ReturnFacts ==
  ASSUME CallsOK, NEW d \in Drivers, Return(d)
  PROVE  Go(d, NoCall)
BY DEF Return, Go

LEMMA SetFacts ==
  ASSUME TypeOK, NEW d \in Drivers, NEW k \in DOMAIN call[d].wave, NEW item, Set(d, k, item)
  PROVE  LET c == [call[d] EXCEPT !.wave = [call[d].wave EXCEPT ![k] = item]]
         IN /\ Go(d, c)
            /\ Call \subseteq Call' /\ item \in ItemType' => c \in Call'
            /\ c.pc = call[d].pc /\ c.mode = call[d].mode /\ c.limits = call[d].limits
            /\ c.step = call[d].step /\ c.base = call[d].base /\ c.cur = call[d].cur
            /\ c.via = call[d].via /\ c.tries = call[d].tries /\ c.goal = call[d].goal
            /\ c.room = call[d].room
            /\ Len(c.wave) = Len(call[d].wave) /\ DOMAIN c.wave = DOMAIN call[d].wave
            /\ c.wave[k] = item
            /\ \A j \in DOMAIN call[d].wave : j # k => c.wave[j] = call[d].wave[j]
<1> DEFINE W == [call[d].wave EXCEPT ![k] = item]
           c == [call[d] EXCEPT !.wave = W]
<1>1. call[d] \in Call /\ call[d].wave \in Seq(ItemType)
  BY DEF TypeOK, Call
<1>2. /\ Len(W) = Len(call[d].wave) /\ DOMAIN W = DOMAIN call[d].wave
      /\ W[k] = item /\ \A j \in DOMAIN call[d].wave : j # k => W[j] = call[d].wave[j]
  BY <1>1
<1>3. ASSUME Call \subseteq Call', item \in ItemType'
      PROVE  c \in Call'
  <2>1. call[d] \in Call'
    BY <1>1, <1>3
  <2>2. call[d].wave \in Seq(ItemType')
    BY <2>1 DEF Call
  <2>3. W \in Seq(ItemType')
    BY <1>3, <2>2
  <2> QED BY <2>1, <2>3 DEF Call
<1>4. c.wave = W
  BY <1>1 DEF Call
<1>5. /\ c.pc = call[d].pc /\ c.mode = call[d].mode /\ c.limits = call[d].limits
      /\ c.step = call[d].step /\ c.base = call[d].base /\ c.cur = call[d].cur
      /\ c.via = call[d].via /\ c.tries = call[d].tries /\ c.goal = call[d].goal
      /\ c.room = call[d].room
  BY <1>1 DEF Call
<1>6. Go(d, c)
  BY DEF Set
<1> QED BY <1>2, <1>3, <1>4, <1>5, <1>6

AskedGrow == Asked \subseteq Asked'

LEMMA CallGrows ==
  ASSUME UNCHANGED approvals \/ AskedGrow, Nodes' = Nodes, DOMAIN handoffs \subseteq DOMAIN handoffs'
  PROVE  Call \subseteq Call'
<1>0. Asked \subseteq Asked'
  BY DEF AskedGrow, Asked
<1>1. ItemType \subseteq ItemType'
  BY <1>0 DEF ItemType
<1>2. Seq(ItemType) \subseteq Seq(ItemType')
  BY <1>1
<1> QED BY <1>2 DEF Call

(* What a call needs in order to be InCall, said of its record.             *)
Sound(c) ==
  /\ c.pc \in Waving => c.cur \in 1 .. Len(c.wave) /\ c.mode # "none"
  /\ c.pc \in {"create", "mark", "prepare"} => c.mode = "wave"
  /\ c.pc \in {"execute", "apply", "again", "fresh", "consume", "count"} =>
       c.mode \in {"wave", "resumed"}
  /\ c.pc = "gate" => c.mode = "gates"
  /\ c.room => c.pc = "route" /\ c.via \in Edges
  /\ \A k \in DOMAIN c.wave :
       c.mode = "gates" \/ c.wave[k].out = "waiting" => c.wave[k].approval # 0
  /\ c.pc \in Limiting =>
       c.limits \in [Nodes -> Nat] /\ \A n \in Nodes : c.limits[n] <= Node[n].maxRuns

LimitsGrow ==
  /\ Nodes' = Nodes /\ Edges' = Edges
  /\ \A n \in Nodes : Node[n].maxRuns <= Node'[n].maxRuns
RunsGrow ==
  \/ Len(runs') = Len(runs) /\ \A n \in Nodes : RunsOf(n)' = RunsOf(n)
  \/ Len(runs') = Len(runs) + 1

LEMMA CountKept ==
  ASSUME CountInv, NEW e \in Drivers, call'[e] = call[e], StoreOK', LimitsGrow, RunsGrow
  PROVE  InCall(e)' /\ RunsCounted(e)'
<1> USE DEF CountInv
<1>0. StoreOK /\ call[e] \in Call /\ InCall(e) /\ RunsCounted(e)
  BY TypeParts DEF TypeOK
<1>1. /\ \A n \in Nodes : Node[n] \in NodeType(Nodes) /\ Node'[n] \in NodeType(Nodes)
      /\ Len(runs) \in Nat
  BY <1>0, TemplateFacts, TemplateNext, RowFacts DEF LimitsGrow, StoreOK
<1>2. InCall(e)'
  <2>1. ASSUME call[e].pc \in Limiting
        PROVE  /\ call[e].limits \in [Nodes' -> Nat]
               /\ \A n \in Nodes' : call[e].limits[n] <= Node'[n].maxRuns
    <3>1. call[e].limits \in [Nodes -> Nat] /\ \A n \in Nodes : call[e].limits[n] <= Node[n].maxRuns
      BY <1>0, <2>1 DEF InCall
    <3>2. Nodes' = Nodes
      BY DEF LimitsGrow
    <3>3. ASSUME NEW n \in Nodes
          PROVE  call[e].limits[n] <= Node'[n].maxRuns
      <4>1. call[e].limits[n] \in Nat /\ Node[n].maxRuns \in Nat /\ Node'[n].maxRuns \in Nat
        BY <1>1, <3>1, <3>2 DEF NodeType
      <4>2. call[e].limits[n] <= Node[n].maxRuns /\ Node[n].maxRuns <= Node'[n].maxRuns
        BY <3>1 DEF LimitsGrow
      <4> QED BY <4>1, <4>2
    <3> QED BY <3>1, <3>2, <3>3
  <2> HIDE DEF CountInv
  <2>2. InCall(e)' <=> Sound(call[e])'
    BY DEF InCall, Sound
  <2>3. Sound(call[e])
    BY <1>0 DEF InCall, Sound
  <2> QED BY <2>1, <2>2, <2>3 DEF Sound, LimitsGrow
<1>3. RunsCounted(e)'
  <2>1. /\ call[e].base \in Nat /\ call[e].cur \in Nat /\ Len(runs') \in Nat
        /\ \A k \in DOMAIN call[e].wave : k \in Nat /\ call[e].wave[k].node \in Nodes
    BY <1>0, ItemFacts DEF Call, StoreOK, CountInv
  <2>2. CASE Len(runs') = Len(runs) + 1
    <3>1. ~NoRunSince(e)'
      BY <1>0, <1>1, <2>1, <2>2 DEF RunsCounted, NoRunSince
    <3> QED BY <1>0, <1>1, <2>1, <2>2, <3>1 DEF RunsCounted
  <2>3. CASE Len(runs') = Len(runs) /\ \A n \in Nodes : RunsOf(n)' = RunsOf(n)
    <3>1. NoRunSince(e)' => NoRunSince(e)
      BY <2>3 DEF NoRunSince
    <3>2. Unborn(e)' = Unborn(e) /\ Unborn(e) \subseteq DOMAIN call[e].wave
      BY DEF Unborn
    <3>3. ASSUME NoRunSince(e)', NEW k \in Unborn(e)
          PROVE  /\ call[e].wave[k].index = Cardinality(RunsOf(call[e].wave[k].node)') + 1
                 /\ call[e].wave[k].index <= call[e].limits[call[e].wave[k].node]
      <4>1. RunsOf(call[e].wave[k].node)' = RunsOf(call[e].wave[k].node)
        BY <2>1, <2>3, <3>2, Zenon
      <4> QED BY <1>0, <3>1, <3>2, <3>3, <4>1 DEF RunsCounted
    <3> QED BY <1>0, <2>3, <3>2, <3>3 DEF RunsCounted
  <2> QED BY <2>2, <2>3 DEF RunsGrow
<1> QED BY <1>2, <1>3

LEMMA SoundIs ==
  ASSUME NEW d
  PROVE  InCall(d) <=> Sound(call[d])
BY DEF InCall, Sound

(* What a step of a driver must do to keep CountInv ...                     *)
LEMMA CountMoved ==
  ASSUME CountInv, NEW d \in Drivers, NEW c, c \in Call \cup Call', Go(d, c), Sound(c),
         RunsCounted(d)', StoreOK', DOMAIN handoffs \subseteq DOMAIN handoffs', LimitsGrow, RunsGrow, NodesWithin', UNCHANGED approvals \/ AskedGrow
  PROVE  CountInv'
<1>1. StoreOK /\ CallsOK /\ Nodes' = Nodes
  BY TypeParts DEF CountInv, LimitsGrow
<1>2. /\ call' = [e \in Drivers |-> call'[e]] /\ call'[d] = c
      /\ \A e \in Drivers : e # d => call'[e] = call[e]
  BY <1>1, GoFacts
<1>3. CallsOK'
  <2>1. Call \subseteq Call'
    BY <1>1, CallGrows
  <2>2. \A e \in Drivers : call'[e] \in Call'
    BY <1>1, <1>2, <2>1 DEF CallsOK
  <2> QED BY <1>2, <2>2 DEF CallsOK
<1>4. TypeOK'
  BY <1>3, TypePartsNext
<1>5. \A e \in Drivers : e # d => InCall(e)' /\ RunsCounted(e)'
  BY <1>2, CountKept
<1>7. InCall(d)'
  <2>1. ASSUME c.pc \in Limiting
        PROVE  c.limits \in [Nodes' -> Nat] /\ \A n \in Nodes' : c.limits[n] <= Node'[n].maxRuns
    <3>1. c.limits \in [Nodes -> Nat] /\ \A n \in Nodes : c.limits[n] <= Node[n].maxRuns
      BY <2>1 DEF Sound
    <3>2. /\ \A n \in Nodes : Node[n] \in NodeType(Nodes)
          /\ \A n \in Nodes' : Node'[n] \in NodeType(Nodes')
      BY <1>1, TemplateFacts, TemplateNext DEF StoreOK
    <3>3. ASSUME NEW n \in Nodes
          PROVE  c.limits[n] <= Node'[n].maxRuns
      <4>1. c.limits[n] \in Nat /\ Node[n].maxRuns \in Nat /\ Node'[n].maxRuns \in Nat
        BY <1>1, <3>1, <3>2 DEF NodeType
      <4>2. c.limits[n] <= Node[n].maxRuns /\ Node[n].maxRuns <= Node'[n].maxRuns
        BY <3>1 DEF LimitsGrow
      <4> QED BY <4>1, <4>2
    <3> QED BY <1>1, <3>1, <3>3
  <2> QED BY <1>2, <2>1 DEF InCall, Sound, LimitsGrow
<1> QED BY <1>4, <1>5, <1>7 DEF CountInv

LEMMA CountCalm ==
  ASSUME CountInv, NEW d \in Drivers, NEW c, c \in Call \cup Call', Go(d, c), Sound(c), c.pc \notin {"create", "mark"},
         StoreOK', DOMAIN handoffs \subseteq DOMAIN handoffs', LimitsGrow, RunsGrow, NodesWithin', UNCHANGED approvals \/ AskedGrow
  PROVE  CountInv'
<1>1. call'[d] = c
  BY TypeParts, GoFacts DEF CountInv
<1>2. RunsCounted(d)'
  BY <1>1 DEF RunsCounted, NoRunSince
<1> QED BY <1>2, CountMoved

(* ... and a step of anybody else.                                          *)
LEMMA CountOutside ==
  ASSUME CountInv, UNCHANGED call,
         StoreOK', DOMAIN handoffs \subseteq DOMAIN handoffs', LimitsGrow, RunsGrow, NodesWithin', UNCHANGED approvals \/ AskedGrow
  PROVE  CountInv'
<1>1. CallsOK /\ Nodes' = Nodes
  BY TypeParts DEF CountInv, LimitsGrow
<1>2. CallsOK'
  BY <1>1, CallGrows DEF CallsOK
<1>3. TypeOK'
  BY <1>2, TypePartsNext
<1>4. \A e \in Drivers : InCall(e)' /\ RunsCounted(e)'
  BY CountKept
<1> QED BY <1>3, <1>4 DEF CountInv

LEMMA RowsSame ==
  ASSUME UNCHANGED <<runs, handoffs, snapshot>>, CountInv
  PROVE  /\ DOMAIN handoffs \subseteq DOMAIN handoffs' /\ LimitsGrow /\ RunsGrow /\ NodesWithin'
         /\ \A n : RunsOf(n)' = RunsOf(n)
<1>1. /\ Nodes' = Nodes /\ Node' = Node /\ Edge' = Edge /\ Edges' = Edges
  BY DEF Nodes, Node, Edge, Edges
<1>2. \A n : RunsOf(n)' = RunsOf(n)
  BY DEF RunsOf
<1>3. \A n \in Nodes : Node[n].maxRuns \in Nat
  BY TypeParts, TemplateFacts DEF CountInv, StoreOK, NodeType
<1>4. NodesWithin'
  BY <1>1, <1>2 DEF NodesWithin, CountInv
<1> QED BY <1>1, <1>2, <1>3, <1>4 DEF LimitsGrow, RunsGrow

LEMMA CountControl ==
  ASSUME CountInv, NEW d \in Drivers, NEW c, c \in Call \cup Call', Go(d, c), Sound(c), c.pc \notin {"create", "mark"},
         StoreOK', UNCHANGED <<runs, handoffs, snapshot>>, UNCHANGED approvals \/ AskedGrow
  PROVE  CountInv'
BY RowsSame, CountCalm

LEMMA CountReturn ==
  ASSUME CountInv, NEW d \in Drivers, Return(d), StoreOK', UNCHANGED <<runs, handoffs, snapshot>>, UNCHANGED approvals \/ AskedGrow
  PROVE  CountInv'
<1>1. CallsOK
  BY TypeParts DEF CountInv
<1>2. Go(d, NoCall)
  BY <1>1, ReturnFacts
<1>3. Sound(NoCall) /\ NoCall.pc \notin {"create", "mark"}
  BY DEF Sound, NoCall, Waving, Limiting
<1> QED BY <1>2, <1>3, NoCallType, CountControl

LEMMA StoreSame ==
  ASSUME StoreOK, UNCHANGED <<storeVars, used, crashes>>
  PROVE  StoreOK'
BY DEF StoreOK, storeVars, GraphOK, JobsOK, BoundOK, Run, Handoff, Asked, Nodes, Node, Edges, Edge

(* A step that only writes one variable of the store keeps the others' types. *)
LEMMA StoreFrame ==
  ASSUME StoreOK, UNCHANGED <<snapshot>>, UNCHANGED approvals \/ AskedGrow
  PROVE  /\ UNCHANGED graph => GraphOK'
         /\ IsTemplate(snapshot)'
         /\ UNCHANGED runs \/ runs' \in Seq(Run) => (runs \in Seq(Run))'
         /\ UNCHANGED handoffs \/ handoffs' \in Seq(Handoff) => (handoffs \in Seq(Handoff))'
         /\ UNCHANGED jobs => JobsOK'
         /\ UNCHANGED bound /\ DOMAIN jobs \subseteq DOMAIN jobs' => BoundOK'
         /\ UNCHANGED approvals => (approvals \in Seq(Approval))'
         /\ UNCHANGED mission => (mission \in MissionState)'
         /\ UNCHANGED used => (used \subseteq Keys)'
         /\ UNCHANGED crashes => (crashes \in 0 .. MaxCrashes)'
<1>1. Asked \subseteq Asked'
  BY DEF AskedGrow, Asked
<1>2. Nodes' = Nodes /\ Edges' = Edges
  BY DEF Nodes, Node, Edges, Edge
<1>3. Run \subseteq Run' /\ Handoff \subseteq Handoff'
  BY <1>1, <1>2 DEF Run, Handoff
<1>4. Seq(Run) \subseteq Seq(Run') /\ Seq(Handoff) \subseteq Seq(Handoff')
  BY <1>3
<1>5. runs \in Seq(Run) /\ handoffs \in Seq(Handoff)
  BY DEF StoreOK
<1>6. /\ UNCHANGED runs \/ runs' \in Seq(Run) => (runs \in Seq(Run))'
      /\ UNCHANGED handoffs \/ handoffs' \in Seq(Handoff) => (handoffs \in Seq(Handoff))'
  BY <1>4, <1>5
<1> HIDE DEF AskedGrow
<1>7. /\ UNCHANGED graph => GraphOK'
      /\ IsTemplate(snapshot)'
      /\ UNCHANGED jobs => JobsOK'
      /\ UNCHANGED bound /\ DOMAIN jobs \subseteq DOMAIN jobs' => BoundOK'
  BY DEF StoreOK, GraphOK, JobsOK, BoundOK
<1>8. /\ UNCHANGED approvals => (approvals \in Seq(Approval))'
      /\ UNCHANGED mission => (mission \in MissionState)'
      /\ UNCHANGED used => (used \subseteq Keys)'
      /\ UNCHANGED crashes => (crashes \in 0 .. MaxCrashes)'
  BY DEF StoreOK
<1> QED BY <1>6, <1>7, <1>8

LEMMA Known ==
  ASSUME CountInv, NEW d \in Drivers
  PROVE  /\ TypeOK /\ StoreOK /\ CallsOK /\ call[d] \in Call /\ InCall(d) /\ Sound(call[d])
         /\ \A label : Goto(d, label) => Go(d, [call[d] EXCEPT !.pc = label])
BY TypeParts, SoundIs DEF CountInv, CallsOK, Goto

-----------------------------------------------------------------------------
(* CountInv: the calls between the waves *)

LEMMA StartCount ==
  ASSUME CountInv, NEW d \in Drivers, Start(d)
  PROVE  CountInv'
<1>1. StoreOK'
  BY Known, StoreSame DEF Start
<1>2. PICK label \in {"look", "wake"} : Go(d, [call[d] EXCEPT !.pc = label])
  BY Known DEF Start
<1> DEFINE c == [call[d] EXCEPT !.pc = label]
<1>3. c \in Call /\ Sound(c) /\ c.pc \notin {"create", "mark"}
  BY Known DEF Call, Sound, Waving, Limiting, Start, At
<1> QED BY <1>1, <1>2, <1>3, CountControl DEF Start, storeVars

LEMMA WakeCount ==
  ASSUME CountInv, NEW d \in Drivers, Wake(d)
  PROVE  CountInv'
<1>1. GraphOK'
  BY Known DEF Wake, StoreOK, GraphOK, Goal
<1>2. StoreOK'
  BY <1>1, Known, StoreFrame DEF Wake, StoreOK
<1> DEFINE c == [call[d] EXCEPT !.pc = "look"]
<1>3. c \in Call /\ Sound(c) /\ c.pc \notin {"create", "mark"} /\ Go(d, c)
  BY Known DEF Call, Sound, Waving, Limiting, Wake, At
<1> QED BY <1>2, <1>3, CountControl DEF Wake

LEMMA LookCount ==
  ASSUME CountInv, NEW d \in Drivers, Look(d)
  PROVE  CountInv'
<1>1. StoreOK'
  BY Known, StoreSame DEF Look
<1>2. CASE Return(d)
  BY <1>1, <1>2, CountReturn DEF Look, storeVars
<1> DEFINE limits == [n \in Nodes |-> Node[n].maxRuns]
           c == [call[d] EXCEPT !.pc = "scan", !.step = graph.step, !.limits = limits]
<1>3. CASE Go(d, c)
  <2>1. limits \in [Nodes -> Nat] /\ \A n \in Nodes : limits[n] = Node[n].maxRuns
    BY Known, TemplateFacts DEF StoreOK, NodeType
  <2>2. graph.step \in Nat
    BY Known DEF StoreOK, GraphOK
  <2> HIDE DEF limits
  <2>3. c \in Call
    BY <2>1, <2>2, Known DEF Call, Limiting
  <2>4. c.pc = "scan" /\ c.limits = limits
    BY Known DEF Call
  <2>5. \A n \in Nodes : limits[n] <= Node[n].maxRuns
    BY <2>1, Known, TemplateFacts DEF StoreOK, NodeType
  <2>6. Sound(c)
    <3>1. c.wave = call[d].wave /\ c.mode = call[d].mode /\ ~c.room
      BY Known DEF Call, Sound, Look, At
    <3> HIDE DEF c
    <3> QED BY <2>1, <2>4, <2>5, <3>1, Known DEF Sound, Waving
  <2> QED BY <1>1, <1>3, <2>3, <2>4, <2>6, CountControl DEF Look, storeVars
<1> QED BY <1>2, <1>3 DEF Look

LEMMA GateItems ==
  ASSUME StoreOK
  PROVE  LET waiting == RunsIn({"WAITING_APPROVAL"})
             order == InOrder(waiting)
             wave == [i \in DOMAIN order |->
                        WaveItem(runs[order[i]].node, order[i], IndexOf(order[i]), {},
                                 runs[order[i]].approval, "done", "none")]
         IN /\ wave \in Seq(ItemType) /\ Len(wave) = Cardinality(waiting)
            /\ DOMAIN wave = DOMAIN order
            /\ \A k \in DOMAIN wave : wave[k].approval # 0
            /\ waiting # {} => 1 \in 1 .. Len(wave)
<1> DEFINE waiting == RunsIn({"WAITING_APPROVAL"})
           order == InOrder(waiting)
           Gate(r) == WaveItem(runs[r].node, r, IndexOf(r), {}, runs[r].approval, "done", "none")
           wave == [i \in DOMAIN order |-> Gate(order[i])]
<1>1. waiting \in SUBSET Nat /\ IsFiniteSet(waiting) /\ waiting \subseteq DOMAIN runs
  BY RowFacts DEF RunsIn
<1>2. /\ Cardinality(waiting) \in Nat /\ DOMAIN order = 1 .. Cardinality(waiting)
      /\ \A i \in DOMAIN order : order[i] \in waiting
      /\ waiting # {} => 1 \in DOMAIN order
  BY <1>1, InOrderProps
<1>3. ASSUME NEW r \in waiting
      PROVE  Gate(r) \in ItemType /\ Gate(r).approval # 0
  <2>1. r \in Nat /\ runs[r] \in Run /\ runs[r].approval # 0
    BY <1>1, RowFacts DEF Run, RunsIn
  <2>2. IndexOf(r) \in Nat
    <3>1. {q \in RunsOf(runs[r].node) : q <= r} \in SUBSET RunsOf(runs[r].node)
      OBVIOUS
    <3> QED BY <3>1, RowFacts, FS_Subset, FS_CardinalityType DEF IndexOf
  <2>3. NoKey \in Key
    BY DEF NoKey, Key
  <2> QED BY <2>1, <2>2, <2>3 DEF WaveItem, ItemType, Run, Outcome
<1> HIDE DEF waiting, order, Gate
<1>4. \A i \in 1 .. Cardinality(waiting) : wave[i] \in ItemType /\ wave[i].approval # 0
  BY <1>2, <1>3
<1>5. wave \in Seq(ItemType) /\ Len(wave) = Cardinality(waiting)
  BY <1>2, <1>4
<1>6. \A k \in DOMAIN wave : wave[k].approval # 0
  BY <1>2, <1>4, <1>5
<1>7. waiting # {} => 1 \in 1 .. Len(wave)
  BY <1>2, <1>5
<1> HIDE DEF wave
<1> QED BY <1>2, <1>5, <1>6, <1>7 DEF wave, waiting, order, Gate

LEMMA ScanCount ==
  ASSUME CountInv, NEW d \in Drivers, Scan(d)
  PROVE  CountInv'
<1>1. StoreOK'
  BY Known, StoreSame DEF Scan
<1>2. UNCHANGED <<runs, handoffs, snapshot, approvals>>
  BY DEF Scan, storeVars
<1> DEFINE waiting == RunsIn({"WAITING_APPROVAL"})
           order == InOrder(waiting)
           Gate(r) == WaveItem(runs[r].node, r, IndexOf(r), {}, runs[r].approval, "done", "none")
           wave == [i \in DOMAIN order |-> Gate(order[i])]
           c == [call[d] EXCEPT !.pc = "gate", !.mode = "gates", !.cur = 1, !.wave = wave]
<1>3. CASE waiting # {}
  <2>1. Go(d, c)
    BY <1>3 DEF Scan
  <2>2. /\ wave \in Seq(ItemType) /\ 1 \in 1 .. Len(wave)
        /\ \A k \in DOMAIN wave : wave[k].approval # 0
    BY <1>3, Known, GateItems
  <2> HIDE DEF wave
  <2>3. c \in Call
    BY <2>2, Known DEF Call, Limiting, Waving
  <2>4. /\ c.pc = "gate" /\ c.wave = wave /\ c.mode = "gates" /\ c.cur = 1
        /\ c.limits = call[d].limits /\ call[d].pc \in Limiting /\ ~c.room
    BY Known DEF Call, Limiting, Sound, Scan, At
  <2> HIDE DEF c
  <2>5. Sound(c)
    BY <2>2, <2>4, Known DEF Sound
  <2> QED BY <1>1, <1>2, <2>1, <2>3, <2>4, <2>5, CountControl
<1>4. ASSUME NEW label \in {"resume", "rounds", "plan"}, Goto(d, label)
      PROVE  CountInv'
  <2> DEFINE b == [call[d] EXCEPT !.pc = label]
  <2>1. b \in Call /\ Sound(b) /\ b.pc \notin {"create", "mark"} /\ Go(d, b)
    BY <1>4, Known DEF Call, Sound, Limiting, Waving, Scan, At
  <2> QED BY <1>1, <1>2, <2>1, CountControl
<1>5. CASE Go(d, [call[d] EXCEPT !.pc = "finish", !.goal = "graph_step_limit"])
  <2> DEFINE b == [call[d] EXCEPT !.pc = "finish", !.goal = "graph_step_limit"]
  <2>1. b \in Call /\ Sound(b) /\ b.pc \notin {"create", "mark"}
    BY ZenonT(40), Known DEF Call, Sound, Limiting, Waving, Goal, Scan, At
  <2> QED BY <1>1, <1>2, <1>5, <2>1, CountControl
<1> HIDE DEF c
<1>6. waiting # {} \/ Goto(d, "resume") \/ Goto(d, "rounds") \/ Goto(d, "plan")
      \/ Go(d, [call[d] EXCEPT !.pc = "finish", !.goal = "graph_step_limit"])
  BY DEF Scan
<1> QED BY <1>3, <1>4, <1>5, <1>6

LEMMA RoundsCount ==
  ASSUME CountInv, NEW d \in Drivers, Rounds(d)
  PROVE  CountInv'
<1>1. GraphOK'
  BY Known DEF Rounds, StoreOK, GraphOK, Goal
<1>2. StoreOK'
  BY <1>1, Known, StoreFrame DEF Rounds, StoreOK
<1> QED BY <1>2, CountReturn DEF Rounds

LEMMA SettledType ==
  ASSUME NEW limits
  PROVE  Settled(limits) \in Goal
BY DEF Settled, Goal

LEMMA SettleCount ==
  ASSUME CountInv, NEW d \in Drivers, Settle(d)
  PROVE  CountInv'
<1>1. StoreOK'
  BY Known, StoreSame DEF Settle
<1>2. PICK goal \in Goal : Go(d, [call[d] EXCEPT !.pc = "finish", !.goal = goal])
  BY SettledType DEF Settle
<1> DEFINE c == [call[d] EXCEPT !.pc = "finish", !.goal = goal]
<1>3. c \in Call /\ Sound(c) /\ c.pc \notin {"create", "mark"}
  BY Known DEF Call, Sound, Waving, Limiting, Settle, At
<1> QED BY <1>1, <1>2, <1>3, CountControl DEF Settle, storeVars

LEMMA FinishCount ==
  ASSUME CountInv, NEW d \in Drivers, Finish(d)
  PROVE  CountInv'
<1>0. call[d].goal \in Goal /\ StoreOK
  BY Known DEF Call
<1>1. GraphOK'
  BY <1>0 DEF Finish, StoreOK, GraphOK, Goal
<1>2. StoreOK'
  BY <1>0, <1>1, StoreFrame DEF Finish, StoreOK
<1>3. CASE Return(d)
  BY <1>2, <1>3, CountReturn DEF Finish
<1>4. ASSUME NEW label \in {"complete", "fail"}, Goto(d, label)
      PROVE  CountInv'
  <2> DEFINE c == [call[d] EXCEPT !.pc = label]
  <2>1. c \in Call /\ Sound(c) /\ c.pc \notin {"create", "mark"} /\ Go(d, c)
    BY <1>4, Known DEF Call, Sound, Waving, Limiting, Finish, At
  <2> QED BY <1>2, <2>1, CountControl DEF Finish
<1> QED BY <1>3, <1>4 DEF Finish

LEMMA EndCount ==
  ASSUME CountInv, NEW d \in Drivers, CompleteMission(d) \/ FailMission(d)
  PROVE  CountInv'
<1>1. mission' \in MissionState
  BY Known DEF CompleteMission, FailMission, StoreOK, MissionState
<1>2. StoreOK'
  BY <1>1, Known, StoreFrame DEF CompleteMission, FailMission, StoreOK
<1> QED BY <1>2, CountReturn DEF CompleteMission, FailMission

LEMMA MergedType ==
  ASSUME StoreOK, NEW H \in SUBSET DOMAIN handoffs
  PROVE  Merged(H) \in Asked
<1> DEFINE ids == {handoffs[h].approval : h \in H} \ {0}
<1>1. 0 \in Asked /\ \A a \in ids : a \in Asked
  BY RowFacts DEF Handoff, Asked
<1>2. Cardinality(ids) = 1 => ids # {}
  BY FS_EmptySet
<1>3. ids # {} => (CHOOSE a \in ids : TRUE) \in ids
  OBVIOUS
<1> QED BY <1>1, <1>2, <1>3 DEF Merged

LEMMA PlanItems ==
  ASSUME StoreOK, NEW limits
  PROVE  LET order == InOrder(ReadyNodes(limits))
             wave == [i \in DOMAIN order |->
                        WaveItem(order[i], 0, Cardinality(RunsOf(order[i])) + 1, PendingTo(order[i]),
                                 Merged(PendingTo(order[i])), "todo", "none")]
         IN /\ wave \in Seq(ItemType) /\ DOMAIN wave = DOMAIN order
            /\ \A i \in DOMAIN wave : wave[i].node = order[i] /\ order[i] \in ReadyNodes(limits)
            /\ \A i \in DOMAIN wave : wave[i].node \in Nodes
            /\ \A i, j \in DOMAIN wave : wave[i].node = wave[j].node => i = j
            /\ order # <<>> => 1 \in 1 .. Len(wave)
<1> DEFINE ready == ReadyNodes(limits)
           order == InOrder(ready)
           New(n) == WaveItem(n, 0, Cardinality(RunsOf(n)) + 1, PendingTo(n),
                              Merged(PendingTo(n)), "todo", "none")
           wave == [i \in DOMAIN order |-> New(order[i])]
<1>1. ready \in SUBSET Nat /\ IsFiniteSet(ready) /\ ready \subseteq Nodes
  BY TemplateFacts, FS_Subset DEF ReadyNodes, StoreOK
<1>2. /\ Cardinality(ready) \in Nat /\ DOMAIN order = 1 .. Cardinality(ready)
      /\ \A i \in DOMAIN order : order[i] \in ready
      /\ \A i, j \in DOMAIN order : order[i] = order[j] => i = j
      /\ order # <<>> => 1 \in DOMAIN order
      /\ order \in Seq(ready)
  BY <1>1, InOrderProps, Zenon
<1>3. ASSUME NEW n \in ready
      PROVE  New(n) \in ItemType
  <2>1. n \in Nodes /\ Cardinality(RunsOf(n)) \in Nat
    BY <1>1, RowFacts
  <2>2. PendingTo(n) \in SUBSET DOMAIN handoffs
    BY DEF PendingTo, Pending
  <2>3. NoKey \in Key
    BY DEF NoKey, Key
  <2>4. Merged(PendingTo(n)) \in Asked
    BY <2>2, MergedType
  <2> QED BY <2>1, <2>2, <2>3, <2>4 DEF WaveItem, ItemType, Outcome
<1> HIDE DEF ready, order
<1>4. \A i \in DOMAIN order : wave[i].node = order[i]
  BY DEF WaveItem
<1> HIDE DEF New
<1>5. \A i \in 1 .. Cardinality(ready) : wave[i] \in ItemType
  BY <1>2, <1>3
<1>6. wave \in Seq(ItemType) /\ Len(wave) = Cardinality(ready) /\ DOMAIN wave = DOMAIN order
  BY <1>2, <1>5
<1>8. order # <<>> => 1 \in 1 .. Len(wave)
  BY <1>2, <1>6
<1> HIDE DEF wave
<1>9. \A i \in DOMAIN wave : wave[i].node = order[i] /\ order[i] \in ready /\ order[i] \in Nodes
  BY <1>1, <1>2, <1>4, <1>6, Zenon
<1>10. \A i, j \in DOMAIN wave : wave[i].node = wave[j].node => i = j
  BY <1>2, <1>6, <1>9, Zenon
<1>11. /\ \A i \in DOMAIN wave : wave[i].node = order[i] /\ order[i] \in ready
       /\ \A i \in DOMAIN wave : wave[i].node \in Nodes
  BY <1>9
<1> QED BY <1>6, <1>8, <1>10, <1>11 DEF wave, ready, order, New

LEMMA PlanCount ==
  ASSUME CountInv, NEW d \in Drivers, Plan(d)
  PROVE  CountInv'
<1>1. StoreOK'
  BY Known, StoreSame DEF Plan
<1>2. UNCHANGED <<runs, handoffs, snapshot, approvals>>
  BY DEF Plan, storeVars
<1> DEFINE limits == call[d].limits
           order == InOrder(ReadyNodes(limits))
           wave == [i \in DOMAIN order |->
                      WaveItem(order[i], 0, Cardinality(RunsOf(order[i])) + 1, PendingTo(order[i]),
                               Merged(PendingTo(order[i])), "todo", "none")]
<1>3. CASE order = <<>>
  <2>1. PICK goal \in Goal : Go(d, [call[d] EXCEPT !.pc = "finish", !.goal = goal])
    BY <1>3, SettledType DEF Plan
  <2> DEFINE c == [call[d] EXCEPT !.pc = "finish", !.goal = goal]
  <2>2. c \in Call /\ Sound(c) /\ c.pc \notin {"create", "mark"}
    BY Known DEF Call, Sound, Waving, Limiting, Plan, At
  <2> QED BY <1>1, <1>2, <2>1, <2>2, CountControl
<1>4. CASE order # <<>>
  <2>0. PICK W, L : W = wave /\ L = limits
    OBVIOUS
  <2> DEFINE c == [call[d] EXCEPT !.pc = "create", !.mode = "wave", !.base = Len(runs),
                                  !.cur = 1, !.wave = W]
  <2>1. Go(d, c)
    BY <1>4, <2>0 DEF Plan
  <2>2. /\ W \in Seq(ItemType)
        /\ \A k \in DOMAIN W : W[k].node \in ReadyNodes(limits) /\ W[k].node \in Nodes
        /\ \A i, j \in DOMAIN W : W[i].node = W[j].node => i = j
        /\ 1 \in 1 .. Len(W)
    BY <1>4, <2>0, Known, PlanItems
  <2>3. \A k \in DOMAIN W : W[k].index = Cardinality(RunsOf(W[k].node)) + 1 /\ W[k].out = "none"
    BY <2>0 DEF WaveItem
  <2> HIDE DEF wave, order
  <2>a. Len(runs) \in Nat /\ call[d] \in Call
    BY Known, RowFacts
  <2>4. c \in Call
    BY <2>2, <2>a DEF Call, Limiting, Waving
  <2>5. /\ c.pc = "create" /\ c.mode = "wave" /\ c.base = Len(runs) /\ c.cur = 1 /\ c.wave = W
        /\ c.limits = L /\ c.room = call[d].room
    BY <2>0, Known DEF Call
  <2>6. Sound(c)
    <3>1. call[d].pc = "plan" /\ \A k \in DOMAIN W : W[k].out = "none"
      BY <2>3 DEF Plan, At
    <3> HIDE DEF c
    <3> QED BY <2>0, <2>2, <2>5, <3>1, Known DEF Sound, Limiting, Waving
  <2>7. call'[d] = c
    BY <2>1, <2>4, Known, GoFacts
  <2>8. LimitsGrow /\ RunsGrow /\ NodesWithin' /\ DOMAIN handoffs \subseteq DOMAIN handoffs'
        /\ \A n : RunsOf(n)' = RunsOf(n)
    BY <1>2, RowsSame
  <2> HIDE DEF c
  <2>9. RunsCounted(d)'
    <3>2. ASSUME NEW k \in DOMAIN W
          PROVE  /\ W[k].index = Cardinality(RunsOf(W[k].node)') + 1
                 /\ W[k].index <= L[W[k].node]
      <4>1. L \in [Nodes -> Nat] /\ W[k].node \in Nodes
        BY <2>0, <2>2, Known DEF Plan, At, Sound, Limiting
      <4>2. L[W[k].node] \in Nat /\ Cardinality(RunsOf(W[k].node)) \in Nat
        BY <4>1, Known, RowFacts
      <4>3. Cardinality(RunsOf(W[k].node)) < L[W[k].node]
        BY <2>0, <2>2 DEF ReadyNodes, Ready
      <4>4. RunsOf(W[k].node)' = RunsOf(W[k].node)
        BY <2>8
      <4> QED BY <2>3, <4>2, <4>3, <4>4
    <3>3. call'[d].pc = "create" /\ call'[d].base = Len(runs) /\ call'[d].cur = 1
          /\ call'[d].wave = W /\ call'[d].limits = L /\ Len(runs') = Len(runs)
      BY <1>2, <2>5, <2>7
    <3>4. Unborn(d)' \subseteq DOMAIN W
      BY <3>3 DEF Unborn
    <3> QED BY <2>2, <2>a, <3>2, <3>3, <3>4 DEF RunsCounted
  <2> QED BY <1>1, <1>2, <2>1, <2>4, <2>6, <2>8, <2>9, CountMoved
<1> QED BY <1>3, <1>4

-----------------------------------------------------------------------------
(* Runs are added at the end, and change their status where they are *)

LEMMA IndexType ==
  ASSUME StoreOK, NEW r \in DOMAIN runs
  PROVE  IndexOf(r) \in Nat
<1>1. {q \in RunsOf(runs[r].node) : q <= r} \in SUBSET RunsOf(runs[r].node)
  OBVIOUS
<1> QED BY <1>1, RowFacts, FS_Subset, FS_CardinalityType DEF IndexOf

LEMMA AppendRun ==
  ASSUME StoreOK, NEW run \in Run, runs' = Append(runs, run)
  PROVE  /\ runs' \in Seq(Run) /\ Len(runs') = Len(runs) + 1
         /\ DOMAIN runs' = DOMAIN runs \cup {Len(runs) + 1} /\ Len(runs) + 1 \notin DOMAIN runs
         /\ Len(runs) + 1 \in Nat
         /\ \A r \in DOMAIN runs : runs'[r] = runs[r] /\ r < Len(runs) + 1
         /\ runs'[Len(runs) + 1] = run
         /\ \A n : n # run.node => RunsOf(n)' = RunsOf(n)
         /\ \A n : n = run.node =>
              /\ RunsOf(n)' = RunsOf(n) \cup {Len(runs) + 1}
              /\ Cardinality(RunsOf(n)') = Cardinality(RunsOf(n)) + 1
         /\ \A r \in DOMAIN runs : IndexOf(r)' = IndexOf(r)
         /\ \A q : q = Len(runs) + 1 => IndexOf(q)' = Cardinality(RunsOf(run.node)) + 1
<1>1. runs \in Seq(Run) /\ Len(runs) \in Nat /\ DOMAIN runs = 1 .. Len(runs)
  BY RowFacts DEF StoreOK
<1>2. /\ runs' \in Seq(Run) /\ Len(runs') = Len(runs) + 1
      /\ \A r \in 1 .. Len(runs) : runs'[r] = runs[r]
      /\ runs'[Len(runs) + 1] = run
  BY <1>1
<1>3. /\ DOMAIN runs' = DOMAIN runs \cup {Len(runs) + 1} /\ Len(runs) + 1 \notin DOMAIN runs
      /\ \A r \in DOMAIN runs : runs'[r] = runs[r] /\ r < Len(runs) + 1 /\ r \in Nat
      /\ Len(runs) + 1 \in Nat
  BY <1>1, <1>2
<1> DEFINE new == Len(runs) + 1
<1>4. \A n : n # run.node => RunsOf(n)' = RunsOf(n)
  BY <1>2, <1>3 DEF RunsOf
<1>5. ASSUME NEW n, n = run.node
      PROVE  RunsOf(n)' = RunsOf(n) \cup {new} /\ Cardinality(RunsOf(n)') = Cardinality(RunsOf(n)) + 1
  <2>1. RunsOf(n)' = RunsOf(n) \cup {new}
    BY <1>2, <1>3, <1>5 DEF RunsOf
  <2>2. new \notin RunsOf(n) /\ IsFiniteSet(RunsOf(n))
    BY <1>3, RowFacts DEF RunsOf
  <2> QED BY <2>1, <2>2, FS_AddElement
<1>6. ASSUME NEW r \in DOMAIN runs
      PROVE  IndexOf(r)' = IndexOf(r)
  <2>0. PICK n : n = runs[r].node
    OBVIOUS
  <2>1. runs'[r].node = n
    BY <1>3, <2>0
  <2>2. {q \in RunsOf(n)' : q <= r} = {q \in RunsOf(n) : q <= r}
    <3>1. CASE n # run.node
      BY <1>4, <3>1
    <3>2. CASE n = run.node
      <4>1. r \in Nat /\ r < new /\ new \in Nat
        BY <1>3
      <4>2. ~(new <= r)
        BY <4>1
      <4> QED BY <1>5, <3>2, <4>2
    <3> QED BY <3>1, <3>2
  <2> QED BY <2>0, <2>1, <2>2 DEF IndexOf
<1>7. ASSUME NEW q, q = new
      PROVE  IndexOf(q)' = Cardinality(RunsOf(run.node)) + 1
  <2>0. PICK n : n = run.node
    OBVIOUS
  <2>1. runs'[q].node = n
    BY <1>2, <1>7, <2>0
  <2>2. \A p \in RunsOf(n)' : p <= q
    <3>1. \A p \in RunsOf(n) : p \in DOMAIN runs
      BY DEF RunsOf
    <3> QED BY <1>3, <1>5, <1>7, <2>0, <3>1
  <2>3. {p \in RunsOf(n)' : p <= q} = RunsOf(n)'
    BY <2>2
  <2> QED BY <1>5, <2>0, <2>1, <2>3 DEF IndexOf
<1> QED BY <1>2, <1>3, <1>4, <1>5, <1>6, <1>7

LEMMA ChangeRun ==
  ASSUME StoreOK, NEW r, NEW run, runs' = [runs EXCEPT ![r] = run],
         r \in DOMAIN runs => run \in Run /\ run.node = runs[r].node
  PROVE  /\ runs' \in Seq(Run) /\ Len(runs') = Len(runs) /\ DOMAIN runs' = DOMAIN runs
         /\ r \in DOMAIN runs => runs'[r] = run
         /\ \A q \in DOMAIN runs : q # r => runs'[q] = runs[q]
         /\ \A q \in DOMAIN runs : runs'[q].node = runs[q].node
         /\ \A n : RunsOf(n)' = RunsOf(n)
         /\ \A q \in DOMAIN runs : IndexOf(q)' = IndexOf(q)
<1>1. runs \in Seq(Run) /\ Len(runs) \in Nat /\ DOMAIN runs = 1 .. Len(runs)
  BY RowFacts DEF StoreOK
<1>2. /\ DOMAIN runs' = DOMAIN runs
      /\ r \in DOMAIN runs => runs'[r] = run
      /\ \A q \in DOMAIN runs : q # r => runs'[q] = runs[q]
  BY <1>1
<1>3. \A q \in DOMAIN runs : runs'[q] \in Run
  BY <1>1, <1>2
<1>4. runs' \in Seq(Run) /\ Len(runs') = Len(runs)
  <2>1. runs' = [q \in 1 .. Len(runs) |-> runs'[q]]
    BY <1>1, <1>2
  <2>2. runs' \in [1 .. Len(runs) -> Run]
    BY <1>1, <1>3, <2>1
  <2>3. runs' \in Seq(Run)
    BY <1>1, <2>2
  <2> QED BY <1>1, <1>2, <2>3
<1>5. \A q \in DOMAIN runs : runs'[q].node = runs[q].node
  BY <1>2
<1>6. \A n : RunsOf(n)' = RunsOf(n)
  BY <1>2, <1>5 DEF RunsOf
<1>7. ASSUME NEW q \in DOMAIN runs
      PROVE  IndexOf(q)' = IndexOf(q)
  <2>0. PICK n : n = runs[q].node
    OBVIOUS
  <2>1. runs'[q].node = n /\ RunsOf(n)' = RunsOf(n)
    BY <1>5, <1>6, <2>0
  <2>2. {p \in RunsOf(n)' : p <= q} = {p \in RunsOf(n) : p <= q}
    BY <2>1
  <2> QED BY <2>0, <2>1, <2>2 DEF IndexOf
<1> QED BY <1>2, <1>4, <1>5, <1>6, <1>7

(* Runs that only change their status leave the limits alone.               *)
LEMMA LimitsOfChange ==
  ASSUME CountInv, UNCHANGED <<handoffs, snapshot>>, Len(runs') = Len(runs),
         \A n : RunsOf(n)' = RunsOf(n)
  PROVE  /\ DOMAIN handoffs \subseteq DOMAIN handoffs' /\ LimitsGrow /\ RunsGrow /\ NodesWithin'
<1>1. /\ Nodes' = Nodes /\ Node' = Node /\ Edge' = Edge /\ Edges' = Edges
  BY DEF Nodes, Node, Edge, Edges
<1>3. \A n \in Nodes : Node[n].maxRuns \in Nat
  BY TypeParts, TemplateFacts DEF CountInv, StoreOK, NodeType
<1>4. NodesWithin'
  BY <1>1 DEF NodesWithin, CountInv
<1> QED BY <1>1, <1>3, <1>4 DEF LimitsGrow, RunsGrow

-----------------------------------------------------------------------------
(* CountInv: a wave begins *)

LEMMA CreateRunCount ==
  ASSUME CountInv, NEW d \in Drivers, CreateRun(d)
  PROVE  CountInv'
<1>0. /\ StoreOK /\ call[d] \in Call /\ Sound(call[d]) /\ RunsCounted(d) /\ TypeOK /\ InCall(d)
      /\ call[d].pc = "create" /\ call[d].cur \in DOMAIN call[d].wave /\ call[d].cur \in Nat
      /\ Item(d) \in ItemType /\ Item(d).node \in Nodes
      /\ Len(runs) \in Nat
  BY Known, CurrentItem, RowFacts DEF CountInv, CreateRun, At, Waving
<1>1. CASE Len(runs) + 1 # call[d].base + call[d].cur
  <2>1. Return(d) /\ UNCHANGED <<runs, handoffs, snapshot, approvals>> /\ UNCHANGED <<storeVars, used, crashes>>
    BY <1>1 DEF CreateRun, storeVars
  <2> QED BY <1>0, <2>1, StoreSame, CountReturn
<1>2. CASE Len(runs) + 1 = call[d].base + call[d].cur
  <2>0. PICK run, W, k, L, base :
          /\ run = [node |-> Item(d).node, status |-> "CREATED", out |-> "none",
                    input |-> Item(d).approval, approval |-> 0]
          /\ W = call[d].wave /\ k = call[d].cur /\ L = call[d].limits /\ base = call[d].base
    OBVIOUS
  <2>b. PICK V : V = [W EXCEPT ![k].run = Len(runs) + 1]
    OBVIOUS
  <2> DEFINE c == [call[d] EXCEPT !.pc = "mark", !.wave = V]
  <2>1. runs' = Append(runs, run) /\ Go(d, c) /\ UNCHANGED <<handoffs, snapshot, approvals>>
    BY <1>2, <2>0, <2>b DEF CreateRun
  <2>2. run \in Run /\ run.node = W[k].node /\ run.node \in Nodes
    <3>1. 0 \in Asked /\ Item(d).approval \in Asked
      BY <1>0, RowFacts DEF Asked, ItemType
    <3> QED BY <1>0, <2>0, <3>1 DEF Run, Outcome, ActiveRun, Item
  <2>3. /\ runs' \in Seq(Run) /\ Len(runs') = Len(runs) + 1
        /\ \A n : n # run.node => RunsOf(n)' = RunsOf(n)
        /\ Cardinality(RunsOf(run.node)') = Cardinality(RunsOf(run.node)) + 1
    BY <1>0, <2>1, <2>2, AppendRun
  <2>4. StoreOK'
    BY <1>0, <2>3, StoreFrame DEF CreateRun, StoreOK
  <2>5. /\ V \in Seq(ItemType) /\ Len(V) = Len(W) /\ DOMAIN V = DOMAIN W
        /\ \A j \in DOMAIN W : V[j].node = W[j].node /\ V[j].index = W[j].index
                                /\ V[j].out = W[j].out /\ V[j].approval = W[j].approval
    <3>1. W \in Seq(ItemType) /\ k \in DOMAIN W /\ Len(runs) + 1 \in Nat
      BY <1>0, <2>0 DEF Call
    <3>4. W[k] \in ItemType
      BY <3>1
    <3>2. [W[k] EXCEPT !.run = Len(runs) + 1] \in ItemType
      BY <3>1, <3>4 DEF ItemType
    <3>3. V = [W EXCEPT ![k] = [W[k] EXCEPT !.run = Len(runs) + 1]]
      BY <2>b, <3>1
    <3>5. [W[k] EXCEPT !.run = Len(runs) + 1].node = W[k].node
          /\ [W[k] EXCEPT !.run = Len(runs) + 1].index = W[k].index
          /\ [W[k] EXCEPT !.run = Len(runs) + 1].out = W[k].out
          /\ [W[k] EXCEPT !.run = Len(runs) + 1].approval = W[k].approval
      BY <3>4 DEF ItemType
    <3> QED BY <3>1, <3>2, <3>3, <3>5
  <2>6. c \in Call /\ c.pc = "mark" /\ c.mode = call[d].mode /\ c.limits = L
        /\ c.base = base /\ c.cur = k /\ c.wave = V /\ c.room = call[d].room
    BY <1>0, <2>0, <2>5 DEF Call, Limiting, Waving
  <2>7. Sound(c)
    <3> HIDE DEF c
    <3> QED BY <1>0, <2>0, <2>5, <2>6 DEF Sound, Limiting, Waving
  <2> HIDE DEF c
  <2>8. call'[d] = c
    BY <1>0, <2>1, <2>6, Known, GoFacts
  <2>9. Nodes' = Nodes /\ Node' = Node /\ Edge' = Edge /\ Edges' = Edges
    BY <2>1 DEF Nodes, Node, Edge, Edges
  <2>10. LimitsGrow /\ RunsGrow
    <3>1. \A n \in Nodes : Node[n].maxRuns \in Nat
      BY <1>0, TemplateFacts DEF StoreOK, NodeType
    <3> QED BY <2>3, <2>9, <3>1 DEF LimitsGrow, RunsGrow
  <2>11. /\ W[k].index = Cardinality(RunsOf(run.node)) + 1
         /\ W[k].index <= L[run.node]
    <3>1. NoRunSince(d) /\ k \in Unborn(d)
      BY <1>0, <1>2, <2>0 DEF NoRunSince, Unborn
    <3> QED BY <1>0, <2>0, <2>2, <3>1 DEF RunsCounted
  <2>12. NodesWithin'
    <3>1. L \in [Nodes -> Nat] /\ L[run.node] <= Node[run.node].maxRuns
      BY <1>0, <2>0, <2>2 DEF Sound, Limiting, Waving
    <3>2. L[run.node] \in Nat /\ Node[run.node].maxRuns \in Nat /\ Cardinality(RunsOf(run.node)) \in Nat
      BY <1>0, <2>2, <3>1, TemplateFacts, RowFacts DEF StoreOK, NodeType
    <3>3. Cardinality(RunsOf(run.node)') <= Node[run.node].maxRuns
      BY <2>3, <2>11, <3>1, <3>2
    <3>4. \A n \in Nodes : Cardinality(RunsOf(n)') <= Node[n].maxRuns
      <4> TAKE n \in Nodes
      <4>1. CASE n = run.node
        BY <3>3, <4>1
      <4>2. CASE n # run.node
        BY <2>3, <4>2 DEF CountInv, NodesWithin
      <4> QED BY <4>1, <4>2
    <3> QED BY <2>1, <2>9, <3>4 DEF NodesWithin, CountInv
  <2>13. RunsCounted(d)'
    <3>1. /\ call'[d].pc = "mark" /\ call'[d].base = base /\ call'[d].cur = k
          /\ call'[d].wave = V /\ call'[d].limits = L
      BY <2>6, <2>8
    <3>2. Len(runs') >= base + k
      BY <1>0, <1>2, <2>0, <2>3 DEF Call
    <3>3. \A i, j \in DOMAIN V : V[i].node = V[j].node => i = j
      BY <1>0, <2>0, <2>5 DEF RunsCounted
    <3>4. ASSUME NEW j \in DOMAIN V, j > k
          PROVE  /\ V[j].index = Cardinality(RunsOf(V[j].node)') + 1
                 /\ V[j].index <= L[V[j].node]
      <4>1. V[j].node = W[j].node /\ V[j].index = W[j].index /\ W[j].node # run.node
        BY <1>0, <2>0, <2>2, <2>5, <3>3, <3>4
      <4>2. NoRunSince(d) /\ j \in Unborn(d)
        BY <1>0, <1>2, <2>0, <2>5, <3>4 DEF NoRunSince, Unborn
      <4>3. W[j].index = Cardinality(RunsOf(W[j].node)) + 1 /\ W[j].index <= L[W[j].node]
        BY <1>0, <2>0, <4>2 DEF RunsCounted
      <4>4. RunsOf(V[j].node)' = RunsOf(W[j].node)
        BY <2>3, <4>1
      <4> QED BY <4>1, <4>3, <4>4
    <3>5. Unborn(d)' = {j \in DOMAIN V : j > k}
      BY <3>1 DEF Unborn
    <3> QED BY <3>1, <3>2, <3>3, <3>4, <3>5 DEF RunsCounted
  <2> QED BY <2>1, <2>4, <2>6, <2>7, <2>10, <2>12, <2>13, CountMoved
<1> QED BY <1>1, <1>2

LEMMA MarkRunningCount ==
  ASSUME CountInv, NEW d \in Drivers, MarkRunning(d)
  PROVE  CountInv'
<1>0. /\ StoreOK /\ call[d] \in Call /\ Sound(call[d]) /\ RunsCounted(d) /\ TypeOK /\ InCall(d)
      /\ call[d].pc = "mark" /\ call[d].cur \in DOMAIN call[d].wave /\ call[d].cur \in Nat
  BY Known, CurrentItem, RowFacts DEF CountInv, MarkRunning, At, Waving
<1>1. PICK r, run : /\ r = Item(d).run /\ run = [runs[r] EXCEPT !.status = "RUNNING"]
  OBVIOUS
<1>2. /\ runs' = [runs EXCEPT ![r] = run]
      /\ UNCHANGED <<graph, snapshot, handoffs, jobs, bound, approvals, mission, used, crashes>>
  BY <1>1 DEF MarkRunning
<1>3. r \in DOMAIN runs => run \in Run /\ run.node = runs[r].node
  <2>1. r \in DOMAIN runs => runs[r] \in Run
    BY <1>0, RowFacts
  <2> QED BY <1>1, <2>1 DEF Run, ActiveRun
<1>4. runs' \in Seq(Run) /\ Len(runs') = Len(runs) /\ \A n : RunsOf(n)' = RunsOf(n)
  BY <1>0, <1>2, <1>3, ChangeRun
<1>5. StoreOK'
  BY <1>0, <1>2, <1>4, StoreFrame DEF StoreOK
<1>6. DOMAIN handoffs \subseteq DOMAIN handoffs' /\ LimitsGrow /\ RunsGrow /\ NodesWithin'
  BY <1>2, <1>4, LimitsOfChange, Zenon
<1>7. CASE ~(call[d].cur < Len(call[d].wave))
  <2> DEFINE c == [call[d] EXCEPT !.pc = "prepare"]
  <2>1. Go(d, c) /\ c \in Call /\ Sound(c) /\ c.pc = "prepare"
    BY <1>0, <1>7, Known DEF MarkRunning, Call, Sound, Limiting, Waving
  <2> QED BY <1>2, <1>5, <1>6, <2>1, CountCalm
<1>8. CASE call[d].cur < Len(call[d].wave)
  <2>0. PICK W, L, base, cur :
          /\ W = call[d].wave /\ L = call[d].limits /\ base = call[d].base /\ cur = call[d].cur
    OBVIOUS
  <2> DEFINE c == [call[d] EXCEPT !.pc = "create", !.cur = cur + 1]
  <2>1. Go(d, c)
    BY <1>8, <2>0 DEF MarkRunning
  <2>a. Len(runs) \in Nat
    BY <1>0, RowFacts
  <2>2. W \in Seq(ItemType) /\ cur \in Nat /\ base \in Nat /\ Len(runs) \in Nat
    BY <1>0, <2>0, <2>a DEF Call
  <2>3. /\ c \in Call /\ c.pc = "create" /\ c.mode = call[d].mode /\ c.limits = L
        /\ c.base = base /\ c.cur = cur + 1 /\ c.wave = W
    <3>1. cur + 1 \in Nat
      BY <2>2
    <3> QED BY <1>0, <2>0, <3>1 DEF Call, Limiting, Waving
  <2>4. Sound(c)
    <3>1. cur + 1 \in 1 .. Len(W)
      BY <1>0, <1>8, <2>0, <2>2
    <3> QED BY <1>0, <2>0, <2>3, <3>1 DEF Sound, Limiting, Waving
  <2> HIDE DEF c
  <2>5. call'[d] = c
    BY <1>0, <2>1, <2>3, Known, GoFacts
  <2>6. RunsCounted(d)'
    <3>1. /\ call'[d].pc = "create" /\ call'[d].base = base /\ call'[d].cur = cur + 1
          /\ call'[d].wave = W /\ call'[d].limits = L
      BY <2>3, <2>5
    <3>2. Len(runs) >= base + cur
      BY <1>0, <2>0 DEF RunsCounted
    <3>3. Len(runs') + 1 >= base + (cur + 1)
      BY <1>4, <2>2, <3>2
    <3>4. \A i, j \in DOMAIN W : W[i].node = W[j].node => i = j
      BY <1>0, <2>0 DEF RunsCounted
    <3>5. ASSUME NoRunSince(d)', NEW j \in Unborn(d)'
          PROVE  /\ W[j].index = Cardinality(RunsOf(W[j].node)') + 1
                 /\ W[j].index <= L[W[j].node]
      <4>1. Len(runs') + 1 = base + (cur + 1)
        BY <3>1, <3>5 DEF NoRunSince
      <4>2. NoRunSince(d)
        BY SMTT(20), <1>0, <1>4, <2>0, <2>2, <4>1 DEF NoRunSince
      <4>3. j \in DOMAIN W /\ j \in Nat /\ (j > cur + 1 \/ j = cur + 1)
        BY <2>2, <3>1, <3>5 DEF Unborn
      <4>4. j \in Unborn(d)
        BY <2>0, <2>2, <4>3 DEF Unborn
      <4>5. W[j].index = Cardinality(RunsOf(W[j].node)) + 1 /\ W[j].index <= L[W[j].node]
        BY <1>0, <2>0, <4>2, <4>4 DEF RunsCounted
      <4>6. RunsOf(W[j].node)' = RunsOf(W[j].node)
        BY <1>4
      <4> QED BY <4>5, <4>6
    <3> QED BY <3>1, <3>3, <3>4, <3>5 DEF RunsCounted
  <2> QED BY <1>2, <1>5, <1>6, <2>1, <2>3, <2>4, <2>6, CountMoved
<1> QED BY <1>7, <1>8

LEMMA ToWorkerType ==
  ASSUME StoreOK
  PROVE  ToWorker \in MissionState
BY DEF StoreOK, ToWorker, MissionState

LEMMA PrepareCount ==
  ASSUME CountInv, NEW d \in Drivers, Prepare(d)
  PROVE  CountInv'
<1>1. mission' \in MissionState
  BY Known, ToWorkerType DEF Prepare, StoreOK
<1>2. StoreOK'
  BY <1>1, Known, StoreFrame DEF Prepare, StoreOK
<1> DEFINE c == [call[d] EXCEPT !.pc = "execute"]
<1>3. c \in Call /\ Sound(c) /\ c.pc \notin {"create", "mark"} /\ Go(d, c)
  BY Known DEF Call, Sound, Waving, Limiting, Prepare, At
<1> QED BY <1>2, <1>3, CountControl DEF Prepare

LEMMA ResumeItems ==
  ASSUME StoreOK
  PROVE  LET order == InOrder(Resumable)
             Repeat(r) == WaveItem(runs[r].node, r, IndexOf(r), PendingTo(runs[r].node), 0,
                                   "todo", "none")
             Again(r) == IF jobs[JobOf(r)] = "queued" THEN Repeat(r)
                         ELSE Persisted(Repeat(r), jobs[JobOf(r)])
             wave == [i \in DOMAIN order |-> Again(order[i])]
         IN /\ wave \in Seq(ItemType) /\ DOMAIN wave = DOMAIN order
            /\ \A k \in DOMAIN wave : wave[k].out # "waiting"
            /\ Resumable # {} => 1 \in 1 .. Len(wave)
<1> DEFINE order == InOrder(Resumable)
           Repeat(r) == WaveItem(runs[r].node, r, IndexOf(r), PendingTo(runs[r].node), 0,
                                 "todo", "none")
           Again(r) == IF jobs[JobOf(r)] = "queued" THEN Repeat(r)
                       ELSE Persisted(Repeat(r), jobs[JobOf(r)])
           wave == [i \in DOMAIN order |-> Again(order[i])]
<1>1. Resumable \in SUBSET Nat /\ IsFiniteSet(Resumable) /\ Resumable \subseteq DOMAIN runs
  <2>1. Resumable \in SUBSET RunsIn({"RUNNING"}) /\ Resumable \subseteq DOMAIN runs
    BY DEF Resumable, Held, RunsIn
  <2> QED BY <2>1, RowFacts, FS_Subset
<1>2. /\ Cardinality(Resumable) \in Nat /\ DOMAIN order = 1 .. Cardinality(Resumable)
      /\ \A i \in DOMAIN order : order[i] \in Resumable
      /\ Resumable # {} => 1 \in DOMAIN order
  BY <1>1, InOrderProps
<1>3. ASSUME NEW r \in Resumable
      PROVE  Again(r) \in ItemType /\ Again(r).out # "waiting"
  <2>1. r \in DOMAIN runs /\ r \in Nat /\ runs[r] \in Run
    BY <1>1, RowFacts
  <2>2. IndexOf(r) \in Nat
    BY <2>1, IndexType
  <2>3. PendingTo(runs[r].node) \in SUBSET DOMAIN handoffs
    BY DEF PendingTo, Pending
  <2>4. NoKey \in Key
    BY DEF NoKey, Key
  <2>5. Repeat(r) \in ItemType
    <3>1. 0 \in Asked /\ runs[r].node \in Nodes
      BY <2>1, RowFacts DEF Asked, Run
    <3> QED BY <2>1, <2>2, <2>3, <2>4, <3>1 DEF WaveItem, ItemType, Outcome
  <2>b. Repeat(r).out = "none"
    BY DEF WaveItem
  <2>6. jobs[JobOf(r)] \in JobState /\ jobs[JobOf(r)] \notin {"leased"}
    <3>1. <<runs[r].node, IndexOf(r)>> \in DOMAIN bound /\ jobs[JobOf(r)] # "leased"
      BY DEF Resumable, Held
    <3>2. JobOf(r) \in DOMAIN jobs
      BY <3>1 DEF JobOf, StoreOK, BoundOK
    <3> QED BY <3>1, <3>2 DEF StoreOK, JobsOK
  <2> HIDE DEF Repeat
  <2>7. ASSUME jobs[JobOf(r)] # "queued"
        PROVE  /\ Persisted(Repeat(r), jobs[JobOf(r)]) \in ItemType
               /\ Persisted(Repeat(r), jobs[JobOf(r)]).out # "waiting"
    <3>1. jobs[JobOf(r)] \in Outcome /\ jobs[JobOf(r)] # "waiting"
      BY <2>6, <2>7 DEF JobState, Outcome, Successes, Failures
    <3> QED BY <2>5, <3>1 DEF Persisted, ItemType
  <2> QED BY <2>5, <2>b, <2>7
<1> HIDE DEF order, Again
<1>4. \A i \in 1 .. Cardinality(Resumable) : wave[i] \in ItemType /\ wave[i].out # "waiting"
  BY <1>2, <1>3
<1>5. wave \in Seq(ItemType) /\ Len(wave) = Cardinality(Resumable) /\ DOMAIN wave = DOMAIN order
  BY <1>2, <1>4
<1>6. Resumable # {} => 1 \in 1 .. Len(wave)
  BY <1>2, <1>5
<1>7. \A k \in DOMAIN wave : wave[k].out # "waiting"
  BY <1>2, <1>4, <1>5
<1> HIDE DEF wave
<1> QED BY <1>5, <1>6, <1>7 DEF wave, order, Again

LEMMA ResumeCount ==
  ASSUME CountInv, NEW d \in Drivers, Resume(d)
  PROVE  CountInv'
<1>1. mission' \in MissionState
  BY Known, ToWorkerType DEF Resume, StoreOK
<1>2. StoreOK'
  BY <1>1, Known, StoreFrame DEF Resume, StoreOK
<1>3. UNCHANGED <<runs, handoffs, snapshot, approvals>>
  BY DEF Resume
<1>4. CASE Resumable = {}
  <2> DEFINE c == [call[d] EXCEPT !.pc = "finish", !.goal = "active"]
  <2>1. Go(d, c)
    BY <1>4 DEF Resume
  <2>2. c \in Call /\ Sound(c) /\ c.pc \notin {"create", "mark"}
    BY ZenonT(40), Known DEF Call, Sound, Waving, Limiting, Goal, Resume, At
  <2> QED BY <1>2, <1>3, <2>1, <2>2, CountControl
<1>5. CASE Resumable # {}
  <2> DEFINE order == InOrder(Resumable)
             Repeat(r) == WaveItem(runs[r].node, r, IndexOf(r), PendingTo(runs[r].node), 0,
                                   "todo", "none")
             Again(r) == IF jobs[JobOf(r)] = "queued" THEN Repeat(r)
                         ELSE Persisted(Repeat(r), jobs[JobOf(r)])
             wave == [i \in DOMAIN order |-> Again(order[i])]
             c == [call[d] EXCEPT !.pc = "execute", !.mode = "resumed", !.cur = 1, !.wave = wave]
  <2>1. Go(d, c)
    BY <1>5 DEF Resume
  <2>2. /\ wave \in Seq(ItemType) /\ 1 \in 1 .. Len(wave)
        /\ \A k \in DOMAIN wave : wave[k].out # "waiting"
    BY <1>5, Known, ResumeItems
  <2> HIDE DEF wave
  <2>3. c \in Call
    BY <2>2, Known DEF Call, Waving, Limiting
  <2>4. /\ c.pc = "execute" /\ c.wave = wave /\ c.mode = "resumed" /\ c.cur = 1
        /\ c.limits = call[d].limits /\ call[d].pc = "resume" /\ ~c.room
    BY Known DEF Call, Sound, Resume, At
  <2> HIDE DEF c
  <2>5. Sound(c)
    BY <2>2, <2>4, Known DEF Sound, Waving, Limiting
  <2> QED BY <1>2, <1>3, <2>1, <2>3, <2>4, <2>5, CountControl
<1> QED BY <1>4, <1>5

-----------------------------------------------------------------------------
(* CountInv: a wave is executed *)

LEMMA ThreadCount ==
  ASSUME CountInv, NEW d \in Drivers, NEW k \in DOMAIN call[d].wave, NEW item,
         item \in ItemType', Set(d, k, item), item.out = "waiting" => item.approval # 0,
         call[d].pc \in {"execute", "again"}, StoreOK',
         UNCHANGED <<runs, handoffs, snapshot>>, UNCHANGED approvals \/ AskedGrow
  PROVE  CountInv'
<1> DEFINE c == [call[d] EXCEPT !.wave = [call[d].wave EXCEPT ![k] = item]]
<1>0. Call \subseteq Call'
  BY CallGrows DEF Nodes, Node
<1>1. /\ c \in Call' /\ Go(d, c) /\ c.pc = call[d].pc /\ c.mode = call[d].mode
      /\ c.limits = call[d].limits /\ c.cur = call[d].cur /\ Len(c.wave) = Len(call[d].wave)
      /\ DOMAIN c.wave = DOMAIN call[d].wave /\ c.wave[k] = item /\ c.room = call[d].room
      /\ \A j \in DOMAIN call[d].wave : j # k => c.wave[j] = call[d].wave[j]
  BY <1>0, Known, SetFacts
<1> HIDE DEF c
<1>2. Sound(c) /\ c.pc \notin {"create", "mark"}
  <2>1. call[d].mode # "gates" /\ ~c.room
    BY <1>1, Known DEF Sound
  <2>2. \A j \in DOMAIN c.wave : c.wave[j].out = "waiting" => c.wave[j].approval # 0
    BY <1>1, Known DEF Sound
  <2> QED BY <1>1, <2>1, <2>2, Known DEF Sound
<1> QED BY <1>1, <1>2, CountControl

LEMMA ItemsGrow ==
  ASSUME UNCHANGED approvals \/ AskedGrow, UNCHANGED <<handoffs, snapshot>>
  PROVE  ItemType \subseteq ItemType'
BY DEF ItemType, AskedGrow, Asked, Nodes, Node

LEMMA AnswerType ==
  ASSUME NEW item \in ItemType, NEW out \in Outcome \cup {"retryable"}
  PROVE  [item EXCEPT !.at = "done", !.out = out] \in ItemType
BY DEF ItemType

LEMMA MoveType ==
  ASSUME NEW item \in ItemType, NEW at \in {"todo", "bind", "start", "lease", "run", "report", "done"}
  PROVE  [item EXCEPT !.at = at] \in ItemType
BY DEF ItemType

LEMMA AnswersCount ==
  ASSUME CountInv, NEW d \in Drivers, NEW k \in DOMAIN call[d].wave,
         NEW out \in Outcome \cup {"retryable"}, Answers(d, k, out),
         out # "waiting" \/ call[d].wave[k].approval # 0,
         call[d].pc \in {"execute", "again"}, StoreOK', UNCHANGED <<runs, handoffs, snapshot>>, UNCHANGED approvals \/ AskedGrow
  PROVE  CountInv'
<1> DEFINE item == [call[d].wave[k] EXCEPT !.at = "done", !.out = out]
<1>1. item \in ItemType'
  BY Known, ItemFacts, ItemsGrow, AnswerType
<1>2. Set(d, k, item)
  BY DEF Answers
<1>3. item.out = "waiting" => item.approval # 0
  BY Known, ItemFacts DEF ItemType
<1> HIDE DEF item
<1> QED BY <1>1, <1>2, <1>3, ThreadCount

LEMMA MovesCount ==
  ASSUME CountInv, NEW d \in Drivers, NEW k \in DOMAIN call[d].wave,
         NEW at \in {"todo", "bind", "start", "lease", "run", "report", "done"}, Moves(d, k, at),
         call[d].pc \in {"execute", "again"}, StoreOK', UNCHANGED <<runs, handoffs, snapshot>>, UNCHANGED approvals \/ AskedGrow
  PROVE  CountInv'
<1> DEFINE item == [call[d].wave[k] EXCEPT !.at = at]
<1>1. item \in ItemType'
  BY Known, ItemFacts, ItemsGrow, MoveType
<1>2. Set(d, k, item)
  BY DEF Moves
<1>3. item.out = call[d].wave[k].out /\ item.approval = call[d].wave[k].approval
  BY Known, ItemFacts DEF ItemType
<1>4. item.out = "waiting" => item.approval # 0
  BY <1>3, Known DEF Sound
<1> HIDE DEF item
<1> QED BY <1>1, <1>2, <1>4, ThreadCount

LEMMA RefuseCount ==
  ASSUME CountInv, NEW d \in Drivers, NEW k \in DOMAIN call[d].wave, Refuse(d, k),
         call[d].pc \in {"execute", "again"}, StoreOK', UNCHANGED <<runs, handoffs, snapshot>>, UNCHANGED approvals \/ AskedGrow
  PROVE  CountInv'
<1>1. CASE Return(d)
  BY <1>1, CountReturn
<1>2. CASE Answers(d, k, "failed")
  <2>1. "failed" \in Outcome \cup {"retryable"}
    BY DEF Outcome, Failures
  <2> QED BY <1>2, <2>1, AnswersCount
<1> QED BY <1>1, <1>2 DEF Refuse

LEMMA ExecutingAt ==
  ASSUME NEW d, NEW k, NEW at, Executing(d, k, at)
  PROVE  /\ k \in DOMAIN call[d].wave /\ call[d].wave[k].at = at
         /\ call[d].pc \in {"execute", "again"}
BY DEF Executing

LEMMA OutsType ==
  ASSUME StoreOK, NEW n \in Nodes
  PROVE  Node[n].outs \subseteq Successes \cup {"failed", "retryable"}
BY TemplateFacts DEF StoreOK, NodeType

LEMMA RunProgramCount ==
  ASSUME CountInv, NEW d \in Drivers, NEW k \in DOMAIN call[d].wave, RunProgram(d, k)
  PROVE  CountInv'
<1>1. StoreOK'
  BY Known, StoreSame DEF RunProgram
<1>2. PICK out \in Node[call[d].wave[k].node].outs : Answers(d, k, out)
  BY DEF RunProgram
<1>3. out \in Outcome \cup {"retryable"} /\ out # "waiting"
  BY <1>2, Known, ItemFacts, OutsType DEF Outcome, Successes, Failures
<1> QED BY <1>1, <1>2, <1>3, ExecutingAt, AnswersCount DEF RunProgram, storeVars

LEMMA Decided ==
  ASSUME StoreOK, NEW a \in Asked, a # 0
  PROVE  a \in DOMAIN approvals /\ Answer(a) \in {"waiting", "approved", "rejected"}
<1>1. a \in DOMAIN approvals /\ approvals[a] \in Approval
  BY RowFacts DEF Asked
<1> QED BY <1>1 DEF Answer, Approval

LEMMA AppendApproval ==
  ASSUME StoreOK, approvals' = Append(approvals, [decision |-> "pending", told |-> FALSE])
  PROVE  /\ approvals' \in Seq(Approval) /\ Len(approvals') = Len(approvals) + 1
         /\ AskedGrow /\ Len(approvals) + 1 \in Asked' /\ Len(approvals) + 1 # 0
         /\ \A a \in DOMAIN approvals : a \in DOMAIN approvals' /\ approvals'[a] = approvals[a]
<1>1. [decision |-> "pending", told |-> FALSE] \in Approval
  BY DEF Approval
<1>2. /\ approvals' \in Seq(Approval) /\ Len(approvals') = Len(approvals) + 1
      /\ \A a \in DOMAIN approvals : a \in DOMAIN approvals' /\ approvals'[a] = approvals[a]
      /\ Len(approvals) \in Nat
  BY <1>1 DEF StoreOK
<1> QED BY <1>2 DEF AskedGrow, Asked

LEMMA RunGateCount ==
  ASSUME CountInv, NEW d \in Drivers, NEW k \in DOMAIN call[d].wave, RunGate(d, k)
  PROVE  CountInv'
<1>0. /\ StoreOK /\ call[d].pc \in {"execute", "again"} /\ call[d].wave[k] \in ItemType
      /\ UNCHANGED <<graph, snapshot, runs, handoffs, jobs, bound, used, crashes>>
  BY Known, ItemFacts, ExecutingAt DEF RunGate
<1> DEFINE item == call[d].wave[k]
<1>1. CASE item.approval # 0
  <2>1. Answers(d, k, Answer(item.approval)) /\ UNCHANGED <<approvals, mission>>
    BY <1>1 DEF RunGate
  <2>2. Answer(item.approval) \in {"waiting", "approved", "rejected"}
    BY <1>0, <1>1, Decided DEF ItemType
  <2>3. Answer(item.approval) \in Outcome \cup {"retryable"}
    BY <2>2 DEF Outcome, Successes, Failures
  <2>4. StoreOK'
    BY <1>0, <2>1, StoreSame DEF storeVars
  <2> QED BY <1>0, <1>1, <2>1, <2>3, <2>4, AnswersCount
<1>2. CASE item.approval = 0
  <2>1. approvals' = Append(approvals, [decision |-> "pending", told |-> FALSE])
    BY <1>2 DEF RunGate
  <2>2. /\ approvals' \in Seq(Approval) /\ AskedGrow
        /\ Len(approvals) + 1 \in Asked' /\ Len(approvals) + 1 # 0
    BY <1>0, <2>1, AppendApproval
  <2>3. mission' \in MissionState
    BY <1>0, <1>2 DEF RunGate, StoreOK, MissionState
  <2>4. StoreOK'
    BY <1>0, <2>2, <2>3, StoreFrame DEF StoreOK
  <2>5. CASE Answers(d, k, "failed")
    <3>1. "failed" \in Outcome \cup {"retryable"}
      BY DEF Outcome, Failures
    <3> QED BY <1>0, <2>2, <2>4, <2>5, <3>1, AnswersCount
  <2> DEFINE asked == [item EXCEPT !.at = "done", !.out = "waiting", !.approval = Len(approvals) + 1]
  <2>6. CASE Set(d, k, asked)
    <3>1. item \in ItemType' /\ "waiting" \in Outcome
      BY <1>0, <2>2, ItemsGrow DEF Outcome
    <3>2. asked \in ItemType' /\ asked.approval # 0
      BY <2>2, <3>1 DEF ItemType
    <3> HIDE DEF asked
    <3> QED BY <1>0, <2>2, <2>4, <2>6, <3>2, ThreadCount
  <2> HIDE DEF asked
  <2>7. Answers(d, k, "failed") \/ Set(d, k, asked)
    BY <1>2 DEF RunGate, asked
  <2> QED BY <2>5, <2>6, <2>7
<1> QED BY <1>1, <1>2

LEMMA CreatedType ==
  ASSUME StoreOK, NEW key \in Key, jobs' = Created(key)
  PROVE  /\ JobsOK' /\ DOMAIN jobs \subseteq DOMAIN jobs' /\ key \in DOMAIN jobs'
         /\ \A j \in DOMAIN jobs : jobs'[j] = jobs[j]
         /\ key \notin DOMAIN jobs => jobs'[key] = "queued"
<1>1. CASE key \in DOMAIN jobs
  BY <1>1 DEF Created, StoreOK, JobsOK
<1>2. CASE key \notin DOMAIN jobs
  <2>1. jobs' = Put(jobs, key, "queued")
    BY <1>2 DEF Created
  <2>a. PICK f, g : f = jobs /\ g = Put(f, key, "queued")
    OBVIOUS
  <2>b. /\ DOMAIN g = DOMAIN f \cup {key} /\ g[key] = "queued"
        /\ \A j \in DOMAIN f : j # key => g[j] = f[j]
        /\ g = [j \in DOMAIN f \cup {key} |-> g[j]]
    BY <2>a DEF Put
  <2>c. jobs' = g
    BY <2>1, <2>a
  <2>2. /\ DOMAIN jobs' = DOMAIN jobs \cup {key} /\ jobs'[key] = "queued"
        /\ \A j \in DOMAIN jobs : jobs'[j] = jobs[j]
        /\ jobs' = [j \in DOMAIN jobs' |-> jobs'[j]]
    BY <1>2, <2>a, <2>b, <2>c
  <2>3. \A j \in DOMAIN jobs' : jobs'[j] \in JobState
    BY <2>2 DEF StoreOK, JobsOK, JobState
  <2>4. DOMAIN jobs' \subseteq Key
    BY <2>2 DEF StoreOK, JobsOK
  <2>5. JobsOK'
    BY <2>2, <2>3, <2>4 DEF JobsOK
  <2> QED BY <1>2, <2>2, <2>5
<1> QED BY <1>1, <1>2

LEMMA ChangedJob ==
  ASSUME StoreOK, NEW j, NEW state \in JobState, jobs' = [jobs EXCEPT ![j] = state]
  PROVE  /\ JobsOK' /\ DOMAIN jobs' = DOMAIN jobs
         /\ j \in DOMAIN jobs => jobs'[j] = state
         /\ \A i \in DOMAIN jobs : i # j => jobs'[i] = jobs[i]
BY DEF StoreOK, JobsOK

LEMMA JobType ==
  ASSUME NEW item \in ItemType, NEW key \in Key, NEW at \in {"bind", "start"}
  PROVE  [item EXCEPT !.at = at, !.job = key] \in ItemType
BY DEF ItemType

LEMMA ChooseCount ==
  ASSUME CountInv, NEW d \in Drivers, NEW k \in DOMAIN call[d].wave, Choose(d, k)
  PROVE  CountInv'
<1>0. PICK item : item = call[d].wave[k]
  OBVIOUS
<1>1. /\ StoreOK /\ call[d].pc \in {"execute", "again"} /\ item \in ItemType /\ item.node \in Nodes
      /\ item.out = "waiting" => item.approval # 0
      /\ UNCHANGED <<graph, snapshot, runs, handoffs, bound, approvals, mission, used, crashes>>
  <2>1. call[d].wave[k].out = "waiting" => call[d].wave[k].approval # 0
    BY Known DEF Sound
  <2> QED BY <1>0, <2>1, Known, ItemFacts, ExecutingAt DEF Choose
<1>2. <<item.node, item.index, 0>> \in Key
  BY <1>1, TemplateFacts DEF ItemType, Key, StoreOK
<1>3. PICK at, key : /\ at \in {"bind", "start"} /\ key \in Key
                     /\ Set(d, k, [item EXCEPT !.at = at, !.job = key])
  <2>1. CASE <<item.node, item.index>> \in DOMAIN bound
    <3>1. bound[<<item.node, item.index>>] \in Key
      BY <1>1, <2>1 DEF StoreOK, BoundOK, JobsOK
    <3> QED BY <1>0, <2>1, <3>1 DEF Choose
  <2>2. CASE <<item.node, item.index>> \notin DOMAIN bound
    <3>1. \A j \in Adoptable(item.node) : j \in Key
      BY <1>1 DEF Adoptable, StoreOK, JobsOK
    <3> QED BY <1>0, <1>2, <2>2, <3>1 DEF Choose
  <2> QED BY <2>1, <2>2
<1>4. JobsOK' /\ DOMAIN jobs \subseteq DOMAIN jobs'
  <2>1. CASE UNCHANGED jobs
    BY <1>1, <2>1 DEF StoreOK, JobsOK
  <2>2. CASE jobs' = Created(<<item.node, item.index, 0>>)
    BY <1>1, <1>2, <2>2, CreatedType
  <2> QED BY <1>0, <2>1, <2>2 DEF Choose
<1>5. StoreOK'
  BY <1>1, <1>4, StoreFrame DEF StoreOK
<1>6. PICK next : next = [item EXCEPT !.at = at, !.job = key]
  OBVIOUS
<1>7. next \in ItemType' /\ next.out = item.out /\ next.approval = item.approval
  BY <1>1, <1>3, <1>6, JobType, ItemsGrow DEF ItemType
<1>8. Set(d, k, next) /\ (next.out = "waiting" => next.approval # 0)
  BY <1>1, <1>3, <1>6, <1>7
<1> QED BY <1>1, <1>5, <1>7, <1>8, ThreadCount

LEMMA BindCount ==
  ASSUME CountInv, NEW d \in Drivers, NEW k \in DOMAIN call[d].wave, Bind(d, k), KnownIn(call[d])
  PROVE  CountInv'
<1>0. PICK item, place : item = call[d].wave[k] /\ place = <<item.node, item.index>>
  OBVIOUS
<1>1. /\ StoreOK /\ call[d].pc \in {"execute", "again"} /\ item \in ItemType
      /\ UNCHANGED <<graph, snapshot, runs, handoffs, jobs, approvals, mission, used, crashes>>
  BY <1>0, Known, ItemFacts, ExecutingAt DEF Bind
<1>2. CASE Refuse(d, k) /\ UNCHANGED bound
  <2>1. StoreOK'
    BY <1>1, <1>2, StoreSame DEF storeVars
  <2> QED BY <1>1, <1>2, <2>1, RefuseCount
<1>3. CASE Moves(d, k, "start") /\ bound' = Put(bound, place, item.job) /\ item.job \in DOMAIN jobs
  <2>1. BoundOK'
    <3>1. PICK f, g : f = bound /\ g = Put(f, place, item.job)
      OBVIOUS
    <3>2. /\ DOMAIN g = DOMAIN f \cup {place} /\ g[place] = item.job
          /\ \A b \in DOMAIN f : b # place => g[b] = f[b]
          /\ g = [b \in DOMAIN f \cup {place} |-> g[b]]
      BY <3>1 DEF Put
    <3>3. place \in Nat \X Nat
      BY <1>0, <1>1, TemplateFacts DEF ItemType, StoreOK
    <3>4. /\ DOMAIN f \subseteq Nat \X Nat
          /\ \A b \in DOMAIN f : f[b] \in DOMAIN jobs
      BY <1>1, <3>1 DEF StoreOK, BoundOK
    <3>5. \A b \in DOMAIN f \cup {place} : g[b] \in DOMAIN jobs
      BY <1>3, <3>2, <3>4
    <3>6. bound' = g /\ jobs' = jobs
      BY <1>1, <1>3, <3>1
    <3> QED BY <3>2, <3>3, <3>4, <3>5, <3>6 DEF BoundOK
  <2>2. StoreOK'
    BY <1>1, <2>1, StoreFrame DEF StoreOK
  <2> QED BY <1>1, <1>3, <2>2, MovesCount
<1> QED BY <1>0, <1>2, <1>3, ExecutingAt DEF Bind, KnownIn

LEMMA StartJobCount ==
  ASSUME CountInv, NEW d \in Drivers, NEW k \in DOMAIN call[d].wave, StartJob(d, k)
  PROVE  CountInv'
<1>1. /\ StoreOK /\ call[d].pc \in {"execute", "again"}
      /\ UNCHANGED <<graph, snapshot, runs, handoffs, jobs, bound, approvals, used, crashes>>
  BY Known, ExecutingAt DEF StartJob
<1>2. mission' \in MissionState
  BY <1>1, ToWorkerType DEF StartJob, StoreOK
<1>3. StoreOK'
  BY <1>1, <1>2, StoreFrame DEF StoreOK
<1>4. Refuse(d, k) \/ Moves(d, k, "lease")
  BY DEF StartJob
<1> QED BY <1>1, <1>3, <1>4, RefuseCount, MovesCount

LEMMA LeaseCount ==
  ASSUME CountInv, NEW d \in Drivers, NEW k \in DOMAIN call[d].wave, Lease(d, k)
  PROVE  CountInv'
<1>1. /\ StoreOK /\ call[d].pc \in {"execute", "again"}
      /\ UNCHANGED <<graph, snapshot, runs, handoffs, mission, bound, approvals, used, crashes>>
  BY Known, ExecutingAt DEF Lease
<1>2. JobsOK' /\ DOMAIN jobs' = DOMAIN jobs
  <2>1. CASE UNCHANGED jobs
    BY <1>1, <2>1 DEF StoreOK, JobsOK
  <2>2. CASE jobs' = [jobs EXCEPT ![call[d].wave[k].job] = "leased"]
    BY <1>1, <2>2, ChangedJob DEF JobState
  <2> QED BY <2>1, <2>2 DEF Lease
<1>3. StoreOK'
  BY <1>1, <1>2, StoreFrame DEF StoreOK
<1>4. Refuse(d, k) \/ Moves(d, k, "run")
  BY DEF Lease
<1> QED BY <1>1, <1>3, <1>4, RefuseCount, MovesCount

LEMMA WorkCount ==
  ASSUME CountInv, NEW d \in Drivers, NEW k \in DOMAIN call[d].wave, Work(d, k)
  PROVE  CountInv'
<1>0. PICK item : item = call[d].wave[k]
  OBVIOUS
<1>1. /\ StoreOK /\ call[d].pc \in {"execute", "again"} /\ item \in ItemType
      /\ UNCHANGED <<graph, snapshot, runs, handoffs, mission, bound, approvals, used, crashes>>
  BY <1>0, Known, ItemFacts, ExecutingAt DEF Work
<1>2. PICK state \in JobState : jobs' = [jobs EXCEPT ![item.job] = state]
  BY <1>0 DEF Work, JobState
<1>3. JobsOK' /\ DOMAIN jobs' = DOMAIN jobs
  BY <1>1, <1>2, ChangedJob
<1>4. StoreOK'
  BY <1>1, <1>3, StoreFrame DEF StoreOK
<1>5. CASE \E out \in Successes : Set(d, k, [item EXCEPT !.at = "report", !.out = out])
  <2>1. PICK out, next : out \in Successes /\ next = [item EXCEPT !.at = "report", !.out = out]
                         /\ Set(d, k, next)
    BY <1>5
  <2>2. out \in Outcome \cup {"retryable"} /\ out # "waiting"
    BY <2>1 DEF Outcome, Successes
  <2>3. next \in ItemType' /\ next.out # "waiting"
    BY <1>1, <2>1, <2>2, ItemsGrow DEF ItemType
  <2> QED BY <1>1, <1>4, <2>1, <2>3, ThreadCount
<1>6. CASE \E out \in Failures : Answers(d, k, out)
  <2>1. PICK out \in Failures : Answers(d, k, out)
    BY <1>6
  <2>2. out \in Outcome \cup {"retryable"} /\ out # "waiting"
    BY DEF Outcome, Failures
  <2> QED BY <1>1, <1>4, <2>1, <2>2, AnswersCount
<1> QED BY <1>0, <1>5, <1>6 DEF Work, Failures

LEMMA ReportCount ==
  ASSUME CountInv, NEW d \in Drivers, NEW k \in DOMAIN call[d].wave, Report(d, k)
  PROVE  CountInv'
<1>1. /\ StoreOK /\ call[d].pc \in {"execute", "again"}
      /\ UNCHANGED <<graph, snapshot, runs, handoffs, jobs, bound, used, crashes>>
  BY Known, ExecutingAt DEF Report
<1>2. /\ (approvals \in Seq(Approval))' /\ (UNCHANGED approvals \/ AskedGrow)
  <2>1. CASE UNCHANGED approvals
    BY <1>1, <2>1 DEF StoreOK
  <2>2. CASE approvals' = Append(approvals, [decision |-> "pending", told |-> FALSE])
    BY <1>1, <2>2, AppendApproval
  <2> QED BY <2>1, <2>2 DEF Report
<1>3. mission' \in MissionState
  BY <1>1 DEF Report, StoreOK, MissionState
<1>4. StoreOK'
  BY <1>1, <1>2, <1>3, StoreFrame DEF StoreOK
<1>5. Refuse(d, k) \/ Moves(d, k, "done")
  BY DEF Report
<1> QED BY <1>1, <1>2, <1>4, <1>5, RefuseCount, MovesCount

LEMMA TooLateCount ==
  ASSUME CountInv, NEW d \in Drivers, NEW k \in DOMAIN call[d].wave, TooLate(d, k)
  PROVE  CountInv'
<1>0. PICK item, next : item = call[d].wave[k] /\ next = [item EXCEPT !.out = "failed"]
  OBVIOUS
<1>1. /\ StoreOK /\ call[d].pc = "execute" /\ item \in ItemType
      /\ UNCHANGED <<storeVars, used, crashes>> /\ Set(d, k, next)
  BY <1>0, Known, ItemFacts DEF TooLate, At
<1>2. StoreOK' /\ UNCHANGED <<runs, handoffs, snapshot, approvals>>
  BY <1>1, StoreSame DEF storeVars
<1>3. next \in ItemType' /\ next.out # "waiting"
  BY <1>0, <1>1, <1>2, ItemsGrow DEF ItemType, Outcome, Failures
<1> QED BY <1>1, <1>2, <1>3, ThreadCount

LEMMA CollectCount ==
  ASSUME CountInv, NEW d \in Drivers, Collect(d)
  PROVE  CountInv'
<1> DEFINE c == [call[d] EXCEPT !.pc = "apply", !.cur = 1]
<1>1. StoreOK' /\ UNCHANGED <<runs, handoffs, snapshot, approvals>>
  BY Known, StoreSame DEF Collect, storeVars
<1>2. call[d] \in Call /\ call[d].pc = "execute" /\ call[d].cur \in 1 .. Len(call[d].wave)
      /\ call[d].wave \in Seq(ItemType) /\ Go(d, c)
  BY Known DEF Collect, At, Sound, Waving, Call
<1>3. 1 \in 1 .. Len(call[d].wave)
  BY <1>2
<1>4. c \in Call /\ c.pc = "apply" /\ c.cur = 1 /\ c.wave = call[d].wave
      /\ c.mode = call[d].mode /\ c.limits = call[d].limits /\ c.room = call[d].room
  BY <1>2 DEF Call, Limiting, Waving
<1> HIDE DEF c
<1>5. Sound(c)
  BY <1>2, <1>3, <1>4, Known DEF Sound, Limiting, Waving
<1> QED BY <1>1, <1>2, <1>4, <1>5, CountControl

-----------------------------------------------------------------------------
(* CountInv: the results are applied *)

LEMMA CompleteRow ==
  ASSUME StoreOK, NEW r, NEW status \in TerminalRun \cup {"WAITING_APPROVAL"},
         NEW out \in Outcome \cup {"skipped"}, NEW approval \in Asked,
         status = "WAITING_APPROVAL" => approval # 0, Complete(r, status, out, approval)
  PROVE  /\ runs' \in Seq(Run) /\ Len(runs') = Len(runs) /\ DOMAIN runs' = DOMAIN runs
         /\ r \in DOMAIN runs =>
              /\ runs'[r].status = status /\ runs'[r].out = out /\ runs'[r].approval = approval
         /\ \A q \in DOMAIN runs : q # r => runs'[q] = runs[q]
         /\ \A q \in DOMAIN runs : runs'[q].node = runs[q].node
         /\ \A n : RunsOf(n)' = RunsOf(n)
         /\ \A q \in DOMAIN runs : IndexOf(q)' = IndexOf(q)
<1>0. PICK run : run = [runs[r] EXCEPT !.status = status, !.out = out, !.approval = approval]
  OBVIOUS
<1>1. runs' = [runs EXCEPT ![r] = run]
  BY <1>0 DEF Complete
<1>2. r \in DOMAIN runs =>
        /\ run \in Run /\ run.node = runs[r].node
        /\ run.status = status /\ run.out = out /\ run.approval = approval
  <2>1. r \in DOMAIN runs => runs[r] \in Run
    BY RowFacts
  <2> QED BY <1>0, <2>1 DEF Run, ActiveRun
<1> QED BY <1>1, <1>2, ChangeRun

(* A call that writes the end of a run and goes on.                         *)
LEMMA CompleteCount ==
  ASSUME CountInv, NEW d \in Drivers, NEW r, NEW status \in TerminalRun \cup {"WAITING_APPROVAL"},
         NEW out \in Outcome \cup {"skipped"}, NEW approval \in Asked,
         status = "WAITING_APPROVAL" => approval # 0, Complete(r, status, out, approval),
         NEW c \in Call, Go(d, c), Sound(c), c.pc \notin {"create", "mark"},
         UNCHANGED <<graph, snapshot, handoffs, jobs, bound, approvals, mission, used, crashes>>
  PROVE  CountInv'
<1>1. runs' \in Seq(Run) /\ Len(runs') = Len(runs) /\ \A n : RunsOf(n)' = RunsOf(n)
  BY Known, CompleteRow
<1>2. StoreOK'
  BY <1>1, Known, StoreFrame DEF StoreOK
<1>3. DOMAIN handoffs \subseteq DOMAIN handoffs' /\ LimitsGrow /\ RunsGrow /\ NodesWithin'
  BY <1>1, LimitsOfChange
<1> QED BY <1>2, <1>3, CountCalm

LEMMA ApplyWaitingCount ==
  ASSUME CountInv, NEW d \in Drivers, ApplyWaiting(d)
  PROVE  CountInv'
<1> DEFINE c == [call[d] EXCEPT !.pc = "consume"]
<1>1. c \in Call /\ Sound(c) /\ c.pc \notin {"create", "mark"} /\ Go(d, c)
  BY Known DEF ApplyWaiting, At, Call, Sound, Waving, Limiting
<1>2. Item(d).approval \in Asked /\ Item(d).approval # 0
  <2>1. call[d].pc = "apply" /\ Item(d).out = "waiting"
    BY DEF ApplyWaiting, At
  <2>2. call[d].cur \in DOMAIN call[d].wave /\ Item(d) \in ItemType
    BY <2>1, Known, CurrentItem DEF Waving
  <2> QED BY <2>1, <2>2, Known DEF Sound, Item, ItemType
<1>3. "waiting" \in Outcome
  BY DEF Outcome
<1> HIDE DEF c
<1> QED BY <1>1, <1>2, <1>3, CompleteCount DEF ApplyWaiting

LEMMA KeptType ==
  ASSUME StoreOK, NEW item \in ItemType
  PROVE  Kept(item) \in Asked /\ Given(item) \in Asked
<1>1. 0 \in Asked
  BY RowFacts DEF Asked
<1> QED BY <1>1 DEF Kept, Given, ItemType

LEMMA ApplySuccessCount ==
  ASSUME CountInv, NEW d \in Drivers, ApplySuccess(d)
  PROVE  CountInv'
<1> DEFINE c == [call[d] EXCEPT !.pc = "route", !.via = 1]
<1>1. c \in Call /\ Sound(c) /\ c.pc \notin {"create", "mark"} /\ Go(d, c)
  BY Known DEF ApplySuccess, At, Call, Sound, Waving, Limiting
<1>2. Item(d) \in ItemType
  BY Known, CurrentItem DEF Waving, ApplySuccess, At
<1>3. Kept(Item(d)) \in Asked
  BY <1>2, Known, KeptType
<1>4. Item(d).out \in Outcome \cup {"skipped"} /\ "SUCCEEDED" \in TerminalRun
  BY DEF ApplySuccess, Outcome, TerminalRun
<1> HIDE DEF c
<1> QED BY <1>1, <1>3, <1>4, CompleteCount DEF ApplySuccess

LEMMA ApplyFailureCount ==
  ASSUME CountInv, NEW d \in Drivers, ApplyFailure(d)
  PROVE  CountInv'
<1>0. PICK item, how : item = Item(d) /\ how = Node[item.node].onFailure
  OBVIOUS
<1>1. PICK out : out = (CASE how = "skip" -> "skipped" [] how = "fail" -> item.out [] OTHER -> "failed")
  OBVIOUS
<1>2. PICK status : status = (IF how = "skip" THEN "SKIPPED" ELSE "FAILED")
  OBVIOUS
<1>3. Complete(item.run, status, out, Given(item)) /\ item.out \in Failures
  BY <1>0, <1>1, <1>2 DEF ApplyFailure
<1>4. out \in Outcome \cup {"skipped"}
  <2>1. CASE how = "skip"
    BY <1>1, <2>1
  <2>2. CASE how # "skip"
    BY <1>1, <1>3, <2>2 DEF Outcome, Failures
  <2> QED BY <2>1, <2>2
<1>5. status \in TerminalRun /\ status # "WAITING_APPROVAL"
  BY <1>2 DEF TerminalRun
<1>6. Given(item) \in Asked
  BY <1>0, Known, CurrentItem, KeptType DEF Waving, ApplyFailure, At
<1>7. CASE Go(d, [call[d] EXCEPT !.pc = "consume", !.goal = "unhandled_node_outcome"])
  <2> DEFINE c == [call[d] EXCEPT !.pc = "consume", !.goal = "unhandled_node_outcome"]
  <2>1. c \in Call /\ Sound(c) /\ c.pc \notin {"create", "mark"}
    BY ZenonT(40), Known DEF ApplyFailure, At, Call, Sound, Waving, Limiting, Goal
  <2> HIDE DEF c
  <2>2. Go(d, c)
    BY <1>7 DEF c
  <2> QED BY <1>3, <1>4, <1>5, <1>6, <2>1, <2>2, CompleteCount DEF ApplyFailure
<1>8. CASE Go(d, [call[d] EXCEPT !.pc = "route", !.via = 1])
  <2> DEFINE c == [call[d] EXCEPT !.pc = "route", !.via = 1]
  <2>1. c \in Call /\ Sound(c) /\ c.pc \notin {"create", "mark"}
    BY Known DEF ApplyFailure, At, Call, Sound, Waving, Limiting
  <2> HIDE DEF c
  <2>2. Go(d, c)
    BY <1>8 DEF c
  <2> QED BY <1>3, <1>4, <1>5, <1>6, <2>1, <2>2, CompleteCount DEF ApplyFailure
<1> QED BY <1>7, <1>8 DEF ApplyFailure

(* A call that only changes the item it is at.                              *)
LEMMA CurrentSet ==
  ASSUME CountInv, NEW d \in Drivers, NEW k \in DOMAIN call[d].wave, NEW item \in ItemType,
         item.out = call[d].wave[k].out, item.approval = call[d].wave[k].approval,
         NEW label \in {"fresh", "again"}, NEW tries \in Nat, NEW c,
         c = [call[d] EXCEPT !.pc = label, !.tries = tries, !.wave = [call[d].wave EXCEPT ![k] = item]],
         call[d].pc \in {"apply", "fresh"}
  PROVE  c \in Call /\ Sound(c) /\ c.pc \notin {"create", "mark"}
<1>0. PICK V : V = [call[d].wave EXCEPT ![k] = item]
  OBVIOUS
<1>1. V \in Seq(ItemType) /\ Len(V) = Len(call[d].wave) /\ DOMAIN V = DOMAIN call[d].wave
      /\ \A j \in DOMAIN V : V[j].out = call[d].wave[j].out /\ V[j].approval = call[d].wave[j].approval
  <2>1. call[d].wave \in Seq(ItemType)
    BY Known DEF Call
  <2> QED BY <1>0, <2>1
<1>2. c = [call[d] EXCEPT !.pc = label, !.tries = tries, !.wave = V]
  BY <1>0
<1>3. /\ c \in Call /\ c.pc = label /\ c.wave = V /\ c.mode = call[d].mode
      /\ c.limits = call[d].limits /\ c.cur = call[d].cur
  BY <1>1, <1>2, Known DEF Call, Limiting, Waving
<1>4. Sound(c)
  BY <1>1, <1>3, Known DEF Sound, Limiting, Waving
<1> QED BY <1>3, <1>4

LEMMA ApplyRetryCount ==
  ASSUME CountInv, NEW d \in Drivers, ApplyRetry(d)
  PROVE  CountInv'
<1>0. PICK k, item, tries, label, c :
        /\ k = call[d].cur /\ item = [call[d].wave[k] EXCEPT !.at = "todo"]
        /\ tries = call[d].tries + 1 /\ label = (IF IsWorker(Item(d)) THEN "fresh" ELSE "again")
        /\ c = [call[d] EXCEPT !.pc = label, !.tries = tries,
                               !.wave = [call[d].wave EXCEPT ![k] = item]]
  OBVIOUS
<1>1. /\ StoreOK /\ call[d].pc = "apply" /\ k \in DOMAIN call[d].wave
      /\ call[d].wave[k] \in ItemType /\ call[d].tries \in Nat
      /\ UNCHANGED <<graph, snapshot, runs, handoffs, jobs, approvals, mission, used, crashes>>
  BY <1>0, Known, CurrentItem DEF ApplyRetry, At, Waving, Item, Call
<1>2. Go(d, c)
  <2>1. call[d].wave \in Seq(ItemType)
    BY Known DEF Call
  <2>2. [call[d].wave EXCEPT ![k].at = "todo"] = [call[d].wave EXCEPT ![k] = item]
    BY <1>0, <1>1, <2>1
  <2> QED BY <1>0, <2>2 DEF ApplyRetry
<1>3. /\ item \in ItemType /\ item.out = call[d].wave[k].out
      /\ item.approval = call[d].wave[k].approval
  <2>1. PICK was : was = call[d].wave[k]
    OBVIOUS
  <2> QED BY <1>0, <1>1, <2>1 DEF ItemType
<1>4. tries \in Nat /\ label \in {"fresh", "again"}
  BY <1>0, <1>1
<1>5. c \in Call /\ Sound(c) /\ c.pc \notin {"create", "mark"}
  BY <1>0, <1>1, <1>3, <1>4, CurrentSet
<1>6. BoundOK'
  <2>1. PICK place : bound' = [b \in DOMAIN bound \ {place} |-> bound[b]]
    BY DEF ApplyRetry
  <2> QED BY <1>1, <2>1 DEF StoreOK, BoundOK
<1>7. StoreOK'
  BY <1>1, <1>6, StoreFrame DEF StoreOK
<1> QED BY <1>1, <1>2, <1>5, <1>7, CountControl

LEMMA FreshCount ==
  ASSUME CountInv, NEW d \in Drivers, Fresh(d)
  PROVE  CountInv'
<1>0. PICK k, key, item, tries, c :
        /\ k = call[d].cur /\ key = <<Item(d).node, Item(d).index, call[d].tries>>
        /\ item = [call[d].wave[k] EXCEPT !.at = "bind", !.job = key] /\ tries = call[d].tries
        /\ c = [call[d] EXCEPT !.pc = "again", !.tries = tries,
                               !.wave = [call[d].wave EXCEPT ![k] = item]]
  OBVIOUS
<1>1. /\ StoreOK /\ call[d].pc = "fresh" /\ k \in DOMAIN call[d].wave
      /\ call[d].wave[k] \in ItemType /\ Item(d) = call[d].wave[k] /\ tries \in Nat
      /\ UNCHANGED <<graph, snapshot, runs, handoffs, bound, approvals, mission, used, crashes>>
  BY <1>0, Known, CurrentItem DEF Fresh, At, Waving, Item, Call
<1>2. key \in Key
  BY <1>0, <1>1, TemplateFacts DEF ItemType, Key, StoreOK
<1>3. Go(d, c)
  <2>1. call[d].wave \in Seq(ItemType) /\ call[d] \in Call
    BY Known DEF Call
  <2>2. [call[d].wave EXCEPT ![k].at = "bind", ![k].job = key] = [call[d].wave EXCEPT ![k] = item]
    BY <1>0, <1>1, <2>1 DEF ItemType
  <2>3. c = [call[d] EXCEPT !.pc = "again", !.wave = [call[d].wave EXCEPT ![k] = item]]
    BY <1>0, <2>1 DEF Call
  <2> QED BY <1>0, <2>2, <2>3 DEF Fresh
<1>4. /\ item \in ItemType /\ item.out = call[d].wave[k].out
      /\ item.approval = call[d].wave[k].approval
  BY <1>0, <1>1, <1>2, JobType DEF ItemType
<1>5. c \in Call /\ Sound(c) /\ c.pc \notin {"create", "mark"}
  BY <1>0, <1>1, <1>4, CurrentSet
<1>6. JobsOK' /\ DOMAIN jobs \subseteq DOMAIN jobs'
  BY <1>0, <1>1, <1>2, CreatedType DEF Fresh
<1>7. StoreOK'
  BY <1>1, <1>6, StoreFrame DEF StoreOK
<1> QED BY <1>1, <1>3, <1>5, <1>7, CountControl

LEMMA RepeatedCount ==
  ASSUME CountInv, NEW d \in Drivers, Repeated(d)
  PROVE  CountInv'
<1> DEFINE c == [call[d] EXCEPT !.pc = "apply"]
<1>1. c \in Call /\ Sound(c) /\ c.pc \notin {"create", "mark"} /\ Go(d, c)
  BY Known DEF Repeated, At, Call, Sound, Waving, Limiting
<1>2. StoreOK'
  BY Known, StoreSame DEF Repeated
<1> QED BY <1>1, <1>2, CountControl DEF Repeated, storeVars

-----------------------------------------------------------------------------
(* CountInv: the handoffs *)

LEMMA AppendHandoff ==
  ASSUME StoreOK, NEW row \in Handoff, handoffs' = Append(handoffs, row)
  PROVE  /\ handoffs' \in Seq(Handoff) /\ Len(handoffs') = Len(handoffs) + 1
         /\ DOMAIN handoffs' = DOMAIN handoffs \cup {Len(handoffs) + 1}
         /\ Len(handoffs) + 1 \notin DOMAIN handoffs /\ Len(handoffs) + 1 \in Nat
         /\ \A h \in DOMAIN handoffs : handoffs'[h] = handoffs[h]
         /\ handoffs'[Len(handoffs) + 1] = row
<1>1. handoffs \in Seq(Handoff) /\ Len(handoffs) \in Nat /\ DOMAIN handoffs = 1 .. Len(handoffs)
  BY RowFacts DEF StoreOK
<1>2. /\ handoffs' \in Seq(Handoff) /\ Len(handoffs') = Len(handoffs) + 1
      /\ \A h \in 1 .. Len(handoffs) : handoffs'[h] = handoffs[h]
      /\ handoffs'[Len(handoffs) + 1] = row
  BY <1>1
<1>3. DOMAIN handoffs' = 1 .. (Len(handoffs) + 1)
  BY <1>1, <1>2
<1> QED BY <1>1, <1>2, <1>3

LEMMA RouteCount ==
  ASSUME CountInv, NEW d \in Drivers, Route(d)
  PROVE  CountInv'
<1>0. /\ StoreOK /\ call[d].pc = "route" /\ ~call[d].room /\ call[d] \in Call
      /\ UNCHANGED <<storeVars, used, crashes>>
      /\ UNCHANGED <<runs, handoffs, snapshot, approvals>>
  BY Known DEF Route, At, storeVars
<1>1. StoreOK'
  BY <1>0, StoreSame
<1>2. CASE \E goal \in Goal : Routed(d, goal)
  <2>1. PICK goal \in Goal : Routed(d, goal)
    BY <1>2
  <2>2. PICK label : label = (IF call[d].mode = "gates" THEN "next" ELSE "consume")
    OBVIOUS
  <2> DEFINE c == [call[d] EXCEPT !.pc = label, !.goal = goal]
  <2>3. Go(d, c)
    BY <2>1, <2>2 DEF Routed
  <2>4. label \in {"next", "consume"} /\ (label = "consume" => call[d].mode \in {"wave", "resumed"})
    <3>1. call[d].mode \in {"none", "wave", "resumed", "gates"} /\ call[d].mode # "none"
      BY <1>0, Known DEF Call, Sound, Waving
    <3> QED BY <2>2, <3>1
  <2>5. c \in Call /\ Sound(c) /\ c.pc \notin {"create", "mark"}
    BY <1>0, <2>4, Known DEF Call, Sound, Waving, Limiting
  <2> HIDE DEF c
  <2> QED BY <1>0, <1>1, <2>3, <2>5, CountControl
<1>3. ASSUME NEW via \in Nat, Go(d, [call[d] EXCEPT !.via = via])
      PROVE  CountInv'
  <2> DEFINE c == [call[d] EXCEPT !.via = via]
  <2>1. c \in Call /\ Sound(c) /\ c.pc \notin {"create", "mark"}
    BY <1>0, Known DEF Call, Sound, Waving, Limiting
  <2>2. Go(d, c)
    BY <1>3
  <2> HIDE DEF c
  <2> QED BY <1>0, <1>1, <2>1, <2>2, CountControl
<1>4. ASSUME NEW e \in Edges, Counted(d, e)
      PROVE  CountInv'
  <2> DEFINE c == [call[d] EXCEPT !.via = e, !.room = TRUE]
  <2>1. e \in Nat
    BY <1>0, TemplateFacts DEF StoreOK
  <2>2. c \in Call /\ Sound(c) /\ c.pc \notin {"create", "mark"}
    BY <1>0, <2>1, Known DEF Call, Sound, Waving, Limiting
  <2>3. Go(d, c)
    BY <1>4 DEF Counted
  <2> HIDE DEF c
  <2> QED BY <1>0, <1>1, <2>2, <2>3, CountControl
<1>5. PICK open : open = {e \in Edges : e >= call[d].via /\ Matching(d, e)}
  OBVIOUS
<1>6. open # {} => Min(open) \in Edges /\ Min(open) + 1 \in Nat
  <2>1. Edges \in SUBSET Nat /\ IsFiniteSet(Edges)
    BY <1>0, TemplateFacts DEF StoreOK
  <2>2. open \in SUBSET Edges /\ IsFiniteSet(open) /\ open \in SUBSET Nat
    <3>1. open \in SUBSET Edges
      BY <1>5
    <3> QED BY <2>1, <3>1, FS_Subset
  <2>3. ASSUME open # {}
        PROVE  Min(open) \in open
    BY <2>2, <2>3, MinMax
  <2>4. \A e \in open : e \in Edges /\ e + 1 \in Nat
    BY <2>1, <2>2
  <2> QED BY <2>3, <2>4
<1>7. call[d].goal \in Goal /\ "edge_traversal_limit" \in Goal
  BY <1>0 DEF Call, Goal
<1> QED BY <1>2, <1>3, <1>4, <1>5, <1>6, <1>7 DEF Route

LEMMA HandOverCount ==
  ASSUME CountInv, NEW d \in Drivers, HandOver(d), KnownIn(call[d])
  PROVE  CountInv'
<1>0. /\ StoreOK /\ call[d].pc = "route" /\ call[d].room /\ Item(d) \in ItemType /\ call[d] \in Call
      /\ UNCHANGED <<graph, snapshot, runs, jobs, bound, approvals, mission, used, crashes>>
  BY Known, CurrentItem DEF HandOver, At, Waving
<1>1. PICK e : e = call[d].via
  OBVIOUS
<1>2. e \in Edges /\ e + 1 \in Nat
  <2>1. e \in Edges
    BY <1>0, <1>1, Known DEF Sound
  <2> QED BY <1>0, <2>1, TemplateFacts DEF StoreOK
<1>3. PICK row : row = [edge |-> e, source |-> Item(d).run, status |-> "PENDING", by |-> 0,
                        approval |-> runs[Item(d).run].approval, synthetic |-> FALSE]
  OBVIOUS
<1>4. Item(d).run \in DOMAIN runs
  <2>1. call[d].cur \in BegunIn(call[d])
    BY <1>0, Known, CurrentItem DEF BegunIn, Waving
  <2> QED BY <2>1 DEF KnownIn, Item
<1>5. row \in Handoff
  <2>1. runs[Item(d).run] \in Run /\ Item(d).run \in Nat
    BY <1>0, <1>4, RowFacts
  <2> QED BY <1>2, <1>3, <2>1 DEF Handoff, Run
<1>6. handoffs' \in Seq(Handoff) /\ DOMAIN handoffs \subseteq DOMAIN handoffs'
  <2>1. handoffs' = Append(handoffs, row)
    BY <1>1, <1>3 DEF HandOver
  <2> QED BY <1>0, <1>5, <2>1, AppendHandoff
<1>7. StoreOK'
  BY <1>0, <1>6, StoreFrame DEF StoreOK
<1>8. \A n : RunsOf(n)' = RunsOf(n)
  BY <1>0 DEF RunsOf
<1>9. /\ Nodes' = Nodes /\ Node' = Node /\ Edges' = Edges
  BY <1>0 DEF Nodes, Node, Edges, Edge
<1>10. \A n \in Nodes : Node[n].maxRuns \in Nat
  BY <1>0, TemplateFacts DEF StoreOK, NodeType
<1>11. LimitsGrow /\ RunsGrow /\ NodesWithin'
  BY <1>0, <1>8, <1>9, <1>10 DEF LimitsGrow, RunsGrow, NodesWithin, CountInv
<1> DEFINE c == [call[d] EXCEPT !.via = e + 1, !.room = FALSE]
<1>12. c \in Call /\ Sound(c) /\ c.pc \notin {"create", "mark"}
  BY <1>0, <1>2, Known DEF Call, Sound, Waving, Limiting
<1>13. Go(d, c)
  BY <1>1 DEF HandOver
<1> HIDE DEF c
<1> QED BY <1>0, <1>6, <1>7, <1>11, <1>12, <1>13, CountCalm

LEMMA TakenFacts ==
  ASSUME StoreOK, NEW H, NEW by \in Nat, NEW T, T = Taken(H, by)
  PROVE  /\ T \in Seq(Handoff) /\ DOMAIN T = DOMAIN handoffs /\ Len(T) = Len(handoffs)
         /\ \A h \in DOMAIN handoffs :
              /\ T[h].edge = handoffs[h].edge /\ T[h].source = handoffs[h].source
              /\ T[h].synthetic = handoffs[h].synthetic /\ T[h].approval = handoffs[h].approval
         /\ \A h \in DOMAIN handoffs : h \notin H => T[h] = handoffs[h]
         /\ \A h \in DOMAIN handoffs : h \in H => T[h].status = "CONSUMED" /\ T[h].by = by
<1>1. /\ Len(handoffs) \in Nat /\ DOMAIN handoffs = 1 .. Len(handoffs)
      /\ \A h \in DOMAIN handoffs : handoffs[h] \in Handoff
  BY RowFacts
<1>2. /\ DOMAIN T = DOMAIN handoffs
      /\ \A h \in DOMAIN handoffs : h \notin H => T[h] = handoffs[h]
      /\ \A h \in DOMAIN handoffs : h \in H => T[h] = [handoffs[h] EXCEPT !.status = "CONSUMED", !.by = by]
      /\ T = [h \in DOMAIN handoffs |-> T[h]]
  BY DEF Taken
<1>3. ASSUME NEW h \in DOMAIN handoffs
      PROVE  /\ T[h] \in Handoff
             /\ T[h].edge = handoffs[h].edge /\ T[h].source = handoffs[h].source
             /\ T[h].synthetic = handoffs[h].synthetic /\ T[h].approval = handoffs[h].approval
             /\ h \in H => T[h].status = "CONSUMED" /\ T[h].by = by
  <2>1. handoffs[h] \in Handoff
    BY <1>1
  <2>2. CASE h \notin H
    BY <1>2, <2>1, <2>2
  <2>3. CASE h \in H
    <3>1. T[h] = [handoffs[h] EXCEPT !.status = "CONSUMED", !.by = by]
      BY <1>2, <2>3
    <3> QED BY <2>1, <3>1 DEF Handoff
  <2> QED BY <2>2, <2>3
<1>4. T \in Seq(Handoff) /\ Len(T) = Len(handoffs)
  <2>1. T \in [1 .. Len(handoffs) -> Handoff]
    BY <1>1, <1>2, <1>3
  <2> QED BY <1>1, <2>1
<1> QED BY <1>2, <1>3, <1>4

LEMMA ConsumeCount ==
  ASSUME CountInv, NEW d \in Drivers, Consume(d)
  PROVE  CountInv'
<1>0. /\ StoreOK /\ call[d].pc = "consume" /\ Item(d) \in ItemType /\ call[d] \in Call
      /\ UNCHANGED <<graph, snapshot, runs, jobs, bound, approvals, mission, used, crashes>>
  BY Known, CurrentItem DEF Consume, At, Waving
<1>1. CASE Return(d) /\ UNCHANGED handoffs
  <2>1. StoreOK'
    BY <1>0, <1>1, StoreSame DEF storeVars
  <2> QED BY <1>0, <1>1, <2>1, CountReturn
<1>2. CASE handoffs' = Taken(Item(d).inputs, Item(d).run) /\ Goto(d, "next")
  <2>0. PICK H, by : H = Item(d).inputs /\ by = Item(d).run
    OBVIOUS
  <2>1. by \in Nat /\ handoffs' = Taken(H, by)
    BY <1>0, <1>2, <2>0 DEF ItemType
  <2>2. /\ handoffs' \in Seq(Handoff) /\ DOMAIN handoffs' = DOMAIN handoffs
        /\ \A h \in DOMAIN handoffs : handoffs'[h].edge = handoffs[h].edge
                                      /\ handoffs'[h].synthetic = handoffs[h].synthetic
    <3>1. PICK T : T = Taken(H, by)
      OBVIOUS
    <3>2. /\ T \in Seq(Handoff) /\ DOMAIN T = DOMAIN handoffs
          /\ \A h \in DOMAIN handoffs : T[h].edge = handoffs[h].edge
                                        /\ T[h].synthetic = handoffs[h].synthetic
      BY <1>0, <2>1, <3>1, TakenFacts
    <3>3. handoffs' = T
      BY <2>1, <3>1
    <3> QED BY <1>0, <3>2, <3>3 DEF Handoff, Edges, Edge
  <2>3. StoreOK'
    BY <1>0, <2>2, StoreFrame DEF StoreOK
  <2>4. /\ Nodes' = Nodes /\ Node' = Node /\ Edge' = Edge /\ Edges' = Edges
        /\ \A n : RunsOf(n)' = RunsOf(n)
    BY <1>0 DEF Nodes, Node, Edges, Edge, RunsOf
  <2>5. \A n \in Nodes : Node[n].maxRuns \in Nat
    BY <1>0, TemplateFacts DEF StoreOK, NodeType
  <2>6. LimitsGrow /\ RunsGrow
    BY <1>0, <2>4, <2>5 DEF LimitsGrow, RunsGrow
  <2>8. NodesWithin'
    BY <2>4 DEF NodesWithin, CountInv
  <2> DEFINE c == [call[d] EXCEPT !.pc = "next"]
  <2>9. c \in Call /\ Sound(c) /\ c.pc \notin {"create", "mark"}
    BY <1>0, Known DEF Call, Sound, Waving, Limiting
  <2>10. Go(d, c)
    BY <1>2, Known
  <2> HIDE DEF c
  <2> QED BY <1>0, <2>2, <2>3, <2>6, <2>8, <2>9, <2>10, CountCalm
<1> QED BY <1>1, <1>2 DEF Consume

LEMMA NextItemCount ==
  ASSUME CountInv, NEW d \in Drivers, NextItem(d)
  PROVE  CountInv'
<1>1. StoreOK' /\ UNCHANGED <<runs, handoffs, snapshot, approvals>>
  BY Known, StoreSame DEF NextItem, storeVars
<1>2. /\ call[d] \in Call /\ call[d].pc = "next" /\ call[d].mode \in {"wave", "resumed", "gates"}
      /\ call[d].cur \in Nat /\ Len(call[d].wave) \in Nat /\ call[d].cur \in 1 .. Len(call[d].wave)
  BY Known DEF NextItem, At, Sound, Waving, Call
<1>3. CASE call[d].goal = "none" /\ call[d].cur < Len(call[d].wave)
  <2>1. PICK label, cur : /\ label = (IF call[d].mode = "gates" THEN "gate" ELSE "apply")
                          /\ cur = call[d].cur + 1
    OBVIOUS
  <2> DEFINE c == [call[d] EXCEPT !.pc = label, !.cur = cur, !.tries = 0]
  <2>2. Go(d, c)
    BY <1>3, <2>1 DEF NextItem
  <2>3. /\ cur \in Nat /\ cur \in 1 .. Len(call[d].wave)
        /\ \/ (label = "gate" /\ call[d].mode = "gates")
           \/ (label = "apply" /\ call[d].mode \in {"wave", "resumed"})
    <3>1. cur \in Nat /\ cur \in 1 .. Len(call[d].wave)
      BY <1>2, <1>3, <2>1
    <3> QED BY <1>2, <2>1, <3>1
  <2>4. /\ c \in Call /\ c.pc = label /\ c.cur = cur /\ c.wave = call[d].wave
        /\ c.mode = call[d].mode /\ c.limits = call[d].limits /\ c.room = call[d].room
    BY <1>2, <2>3 DEF Call, Waving, Limiting
  <2> HIDE DEF c
  <2>5. Sound(c)
    BY <1>2, <2>3, <2>4, Known DEF Sound, Waving, Limiting
  <2> QED BY <1>1, <2>2, <2>3, <2>4, <2>5, CountControl
<1>4. ASSUME NEW label, Goto(d, label),
             label \in {"finish", "reopen"} \/ (label = "count" /\ call[d].mode # "gates")
      PROVE  CountInv'
  <2> DEFINE c == [call[d] EXCEPT !.pc = label]
  <2>1. c \in Call /\ Sound(c) /\ c.pc \notin {"create", "mark"} /\ Go(d, c)
    BY <1>2, <1>4, Known DEF Call, Sound, Waving, Limiting
  <2> QED BY <1>1, <2>1, CountControl
<1> QED BY <1>3, <1>4 DEF NextItem

LEMMA CountStepCount ==
  ASSUME CountInv, NEW d \in Drivers, CountStep(d)
  PROVE  CountInv'
<1>0. PICK g : g = graph
  OBVIOUS
<1>a. g \in [status : {"RUNNING", "WAITING_APPROVAL", "SUCCEEDED", "FAILED"}, step : Nat,
             max : StepLimits, code : Goal]
  BY <1>0, Known DEF StoreOK, GraphOK
<1>b. g.step + 1 \in Nat
  BY <1>a
<1>1. GraphOK'
  BY <1>0, <1>a, <1>b DEF CountStep, GraphOK
<1>2. StoreOK'
  BY <1>1, Known, StoreFrame DEF CountStep, StoreOK
<1>3. UNCHANGED <<runs, handoffs, snapshot, approvals>>
  BY DEF CountStep
<1>4. CASE Goto(d, "settle")
  <2> DEFINE c == [call[d] EXCEPT !.pc = "settle"]
  <2>1. c \in Call /\ Sound(c) /\ c.pc \notin {"create", "mark"} /\ Go(d, c)
    BY <1>4, Known DEF CountStep, At, Call, Sound, Waving, Limiting
  <2> QED BY <1>2, <1>3, <2>1, CountControl
<1>5. CASE Go(d, [call[d] EXCEPT !.pc = "finish", !.goal = "waiting"])
  <2> DEFINE c == [call[d] EXCEPT !.pc = "finish", !.goal = "waiting"]
  <2>1. c \in Call /\ Sound(c) /\ c.pc \notin {"create", "mark"}
    BY ZenonT(40), Known DEF Call, Sound, Waving, Limiting, Goal, CountStep, At
  <2> QED BY <1>2, <1>3, <1>5, <2>1, CountControl
<1> QED BY <1>4, <1>5 DEF CountStep

LEMMA ReopenCount ==
  ASSUME CountInv, NEW d \in Drivers, Reopen(d)
  PROVE  CountInv'
<1>1. GraphOK'
  BY Known DEF Reopen, StoreOK, GraphOK, Goal
<1>2. StoreOK'
  BY <1>1, Known, StoreFrame DEF Reopen, StoreOK
<1> DEFINE c == [call[d] EXCEPT !.pc = "settle"]
<1>3. c \in Call /\ Sound(c) /\ c.pc \notin {"create", "mark"} /\ Go(d, c)
  BY Known DEF Reopen, At, Call, Sound, Waving, Limiting
<1> QED BY <1>2, <1>3, CountControl DEF Reopen

LEMMA ResumeGateCount ==
  ASSUME CountInv, NEW d \in Drivers, ResumeGate(d)
  PROVE  CountInv'
<1>0. /\ StoreOK /\ call[d].pc = "gate" /\ Item(d) \in ItemType /\ call[d] \in Call
      /\ UNCHANGED <<graph, snapshot, handoffs, jobs, bound, approvals, mission, used, crashes>>
  BY Known, CurrentItem DEF ResumeGate, At, Waving
<1>1. PICK item, answer : item = Item(d) /\ answer = Answer(item.approval)
  OBVIOUS
<1>2. item.approval \in Asked /\ item.approval # 0
  <2>1. call[d].cur \in DOMAIN call[d].wave
    BY <1>0, Known, CurrentItem DEF Waving
  <2>2. call[d].mode = "gates"
    BY <1>0, Known DEF Sound
  <2> QED BY <1>0, <1>1, <2>1, <2>2, Known DEF Sound, Item, ItemType
<1>3. answer \in {"waiting", "approved", "rejected"}
  BY <1>0, <1>1, <1>2, Decided
<1>4. ASSUME NEW goal \in Goal
      PROVE  LET c == [call[d] EXCEPT !.pc = "finish", !.goal = goal]
             IN c \in Call /\ Sound(c) /\ c.pc \notin {"create", "mark"}
  BY <1>0, Known DEF Call, Sound, Waving, Limiting
<1>5. LET c == [call[d] EXCEPT !.pc = "route", !.via = 1]
      IN c \in Call /\ Sound(c) /\ c.pc \notin {"create", "mark"}
  BY <1>0, Known DEF Call, Sound, Waving, Limiting
<1>6. "waiting" \in Goal /\ "unhandled_node_outcome" \in Goal
  BY DEF Goal
<1>7. CASE answer = "waiting"
  <2>1. Go(d, [call[d] EXCEPT !.pc = "finish", !.goal = "waiting"]) /\ UNCHANGED runs
    BY <1>1, <1>7 DEF ResumeGate
  <2>2. StoreOK'
    BY <1>0, <2>1, StoreSame DEF storeVars
  <2> QED BY <1>0, <1>4, <1>6, <2>1, <2>2, CountControl
<1>8. CASE answer # "waiting"
  <2>1. PICK status : status = (IF answer = "approved" THEN "SUCCEEDED" ELSE "FAILED")
    OBVIOUS
  <2>2. Complete(item.run, status, answer, item.approval)
    BY <1>1, <1>8, <2>1 DEF ResumeGate
  <2>3. status \in TerminalRun /\ status # "WAITING_APPROVAL" /\ answer \in Outcome
    BY <1>3, <2>1 DEF TerminalRun, Outcome, Successes, Failures
  <2>4. PICK c : Go(d, c) /\ c \in Call /\ Sound(c) /\ c.pc \notin {"create", "mark"}
    BY <1>1, <1>4, <1>5, <1>6, <1>8 DEF ResumeGate
  <2> QED BY <1>0, <1>2, <2>2, <2>3, <2>4, CompleteCount
<1> QED BY <1>7, <1>8

-----------------------------------------------------------------------------
(* CountInv: operators, and the recovery of jobs *)

LEMMA DecideCount ==
  ASSUME CountInv, NEW a \in DOMAIN approvals, Decide(a) \/ Tell(a)
  PROVE  CountInv'
<1>0. StoreOK /\ UNCHANGED <<graph, snapshot, runs, handoffs, jobs, bound, call, used, crashes>>
  BY TypeParts DEF CountInv, Decide, Tell
<1>1. approvals \in Seq(Approval) /\ approvals[a] \in Approval
  BY <1>0 DEF StoreOK
<1>2. PICK row \in Approval : approvals' = [approvals EXCEPT ![a] = row]
  <2>1. CASE Decide(a)
    <3>1. PICK decision \in {"approved", "rejected"} :
            approvals' = [approvals EXCEPT ![a] = [approvals[a] EXCEPT !.decision = decision]]
      BY <1>1, <2>1 DEF Decide
    <3>2. [approvals[a] EXCEPT !.decision = decision] \in Approval
      BY <1>1 DEF Approval
    <3> QED BY <3>1, <3>2
  <2>2. CASE Tell(a)
    <3>1. approvals' = [approvals EXCEPT ![a] = [approvals[a] EXCEPT !.told = TRUE]]
      BY <1>1, <2>2 DEF Tell
    <3>2. [approvals[a] EXCEPT !.told = TRUE] \in Approval
      BY <1>1 DEF Approval
    <3> QED BY <3>1, <3>2
  <2> QED BY <2>1, <2>2
<1>3. approvals' \in Seq(Approval) /\ Len(approvals') = Len(approvals)
  BY <1>1, <1>2
<1>4. AskedGrow
  BY <1>3 DEF AskedGrow, Asked
<1>5. mission' \in MissionState
  BY <1>0 DEF Decide, Tell, StoreOK, MissionState
<1>6. StoreOK'
  BY <1>0, <1>3, <1>4, <1>5, StoreFrame DEF StoreOK
<1> QED BY <1>0, <1>4, <1>6, RowsSame, CountOutside

LEMMA CancelMissionCount ==
  ASSUME CountInv, CancelMission
  PROVE  CountInv'
<1>1. StoreOK
  BY TypeParts DEF CountInv
<1>2. mission' \in MissionState
  BY DEF CancelMission, MissionState
<1>3. StoreOK'
  BY <1>1, <1>2, StoreFrame DEF CancelMission, StoreOK
<1> QED BY <1>3, RowsSame, CountOutside DEF CancelMission

LEMMA RecoverJobCount ==
  ASSUME CountInv, NEW j \in DOMAIN jobs, RecoverJob(j)
  PROVE  CountInv'
<1>1. StoreOK
  BY TypeParts DEF CountInv
<1>2. PICK status \in JobState : jobs' = [jobs EXCEPT ![j] = status]
  BY DEF RecoverJob, JobState
<1>3. JobsOK' /\ DOMAIN jobs' = DOMAIN jobs
  BY <1>1, <1>2, ChangedJob
<1>4. StoreOK'
  BY <1>1, <1>3, StoreFrame DEF RecoverJob, StoreOK
<1> QED BY <1>4, RowsSame, CountOutside DEF RecoverJob

LEMMA RefusedCount ==
  ASSUME CountInv, NEW key \in Keys, Refused(key)
  PROVE  CountInv'
<1>1. StoreOK
  BY TypeParts DEF CountInv
<1>2. UNCHANGED <<graph, snapshot, runs, handoffs, jobs, bound, approvals, mission, call, crashes>>
      /\ used' \subseteq Keys
  BY <1>1 DEF Refused, Insert, storeVars, StoreOK
<1>3. StoreOK'
  BY <1>1, <1>2, StoreFrame DEF StoreOK
<1> QED BY <1>2, <1>3, RowsSame, CountOutside

LEMMA CrashCount ==
  ASSUME CountInv, NEW d \in Drivers, Crash(d)
  PROVE  CountInv'
<1>1. StoreOK
  BY TypeParts DEF CountInv
<1>2. UNCHANGED <<graph, snapshot, runs, handoffs, jobs, bound, approvals, mission, used>>
      /\ crashes' \in 0 .. MaxCrashes
  BY <1>1, GraphAssumption DEF Crash, storeVars, StoreOK
<1>3. StoreOK'
  BY <1>1, <1>2, StoreFrame DEF StoreOK
<1> QED BY <1>2, <1>3, CountReturn DEF Crash

(* Interventions take handoffs and add synthetic ones.                      *)
Added(H, by) ==
  /\ handoffs' \in Seq(Handoff) /\ DOMAIN handoffs \subseteq DOMAIN handoffs'
  /\ \A h \in DOMAIN handoffs :
       /\ handoffs'[h].edge = handoffs[h].edge /\ handoffs'[h].source = handoffs[h].source
       /\ handoffs'[h].synthetic = handoffs[h].synthetic
  /\ \A h \in DOMAIN handoffs : h \notin H => handoffs'[h] = handoffs[h]
  /\ \A h \in DOMAIN handoffs : h \in H => handoffs'[h].status = "CONSUMED" /\ handoffs'[h].by = by
  /\ \A h \in DOMAIN handoffs' \ DOMAIN handoffs :
       handoffs'[h].synthetic /\ handoffs'[h].status = "PENDING" /\ handoffs'[h].by = 0

Extra(extra, m) ==
  /\ DOMAIN extra = 1 .. m /\ extra = [i \in 1 .. m |-> extra[i]]
  /\ \A i \in 1 .. m :
       /\ extra[i] \in Handoff /\ extra[i].synthetic = TRUE
       /\ extra[i].status = "PENDING" /\ extra[i].by = 0

LEMMA AddSynthetic ==
  ASSUME StoreOK, NEW H, NEW by \in Nat, NEW extra, NEW m \in Nat, Extra(extra, m),
         handoffs' = Taken(H, by) \o extra
  PROVE  Added(H, by)
<1>e. /\ DOMAIN extra = 1 .. m /\ extra = [i \in 1 .. m |-> extra[i]]
      /\ \A i \in 1 .. m :
           /\ extra[i] \in Handoff /\ extra[i].synthetic = TRUE
           /\ extra[i].status = "PENDING" /\ extra[i].by = 0
  BY DEF Extra
<1>0. PICK T : T = Taken(H, by)
  OBVIOUS
<1>1. /\ T \in Seq(Handoff) /\ DOMAIN T = DOMAIN handoffs /\ Len(T) = Len(handoffs)
      /\ \A h \in DOMAIN handoffs :
           /\ T[h].edge = handoffs[h].edge /\ T[h].source = handoffs[h].source
           /\ T[h].synthetic = handoffs[h].synthetic
      /\ \A h \in DOMAIN handoffs : h \notin H => T[h] = handoffs[h]
      /\ \A h \in DOMAIN handoffs : h \in H => T[h].status = "CONSUMED" /\ T[h].by = by
  BY <1>0, TakenFacts
<1>2. extra \in Seq(Handoff) /\ Len(extra) = m
  <2>1. extra \in [1 .. m -> Handoff]
    BY <1>e
  <2> QED BY <2>1
<1>3. Len(T) \in Nat /\ DOMAIN T = 1 .. Len(T)
  BY <1>1
<1>4. /\ T \o extra \in Seq(Handoff) /\ Len(T \o extra) = Len(T) + m
      /\ \A i \in 1 .. Len(T) : (T \o extra)[i] = T[i]
      /\ \A i \in (Len(T) + 1) .. (Len(T) + m) : (T \o extra)[i] = extra[i - Len(T)]
  BY <1>1, <1>2, <1>3, <1>e
<1>5. handoffs' = T \o extra
  BY <1>0
<1>6. DOMAIN handoffs' = 1 .. (Len(T) + m)
  BY <1>4, <1>5
<1>7. ASSUME NEW h \in DOMAIN handoffs' \ DOMAIN handoffs
      PROVE  handoffs'[h].synthetic /\ handoffs'[h].status = "PENDING" /\ handoffs'[h].by = 0
  <2>1. h \in (Len(T) + 1) .. (Len(T) + m)
    BY <1>1, <1>3, <1>6, <1>7
  <2>2. h - Len(T) \in 1 .. m
    BY <1>3, <2>1
  <2>3. handoffs'[h] = extra[h - Len(T)]
    BY <1>4, <1>5, <2>1
  <2> QED BY <1>e, <2>2, <2>3
<1>8. \A h \in DOMAIN handoffs : handoffs'[h] = T[h]
  BY <1>1, <1>3, <1>4, <1>5
<1>9. handoffs' \in Seq(Handoff) /\ DOMAIN handoffs \subseteq DOMAIN handoffs'
  <2>1. \A h \in 1 .. Len(T) : h \in 1 .. (Len(T) + m)
    BY <1>3
  <2>2. DOMAIN handoffs = 1 .. Len(T)
    BY <1>1, <1>3
  <2>3. DOMAIN handoffs \subseteq DOMAIN handoffs'
    BY <1>6, <2>1, <2>2
  <2>4. handoffs' \in Seq(Handoff)
    BY <1>4, <1>5
  <2> QED BY <2>3, <2>4
<1> QED BY <1>1, <1>7, <1>8, <1>9 DEF Added

LEMMA LatestFacts ==
  ASSUME StoreOK, NEW n, RunsOf(n) # {}
  PROVE  Latest(n) \in RunsOf(n) /\ Latest(n) \in DOMAIN runs /\ \A r \in RunsOf(n) : r <= Latest(n)
<1>1. RunsOf(n) \in SUBSET Nat /\ IsFiniteSet(RunsOf(n))
  BY RowFacts
<1>2. Max(RunsOf(n)) \in RunsOf(n) /\ \A r \in RunsOf(n) : r <= Max(RunsOf(n))
  BY <1>1, MinMax
<1> QED BY <1>2 DEF Latest, RunsOf

(* The edges over which retry-node hands the inputs to the node again.       *)
RetryHands(n, branch, extra) ==
  \E m \in Nat :
    /\ handoffs' = Taken(branch, 0) \o extra
    /\ DOMAIN extra = 1 .. m /\ extra = [i \in 1 .. m |-> extra[i]]
    /\ \A i \in 1 .. m :
         /\ extra[i] \in Handoff /\ extra[i].synthetic = TRUE
         /\ extra[i].status = "PENDING" /\ extra[i].by = 0
         /\ Edge[extra[i].edge].to = n

LEMMA RetryRows ==
  ASSUME StoreOK, NEW key, NEW n \in Nodes, RetryNode(key, n)
  PROVE  \E branch, extra :
           /\ RetryHands(n, branch, extra)
           /\ branch \subseteq Pending
           /\ \A h \in branch : h \in DOMAIN handoffs /\ handoffs[h].source = Latest(n)
           /\ runs[Latest(n)].status = "FAILED"
<1>0. PICK last, branch, given :
        /\ last = Latest(n)
        /\ branch = {h \in DOMAIN handoffs :
                      /\ handoffs[h].source = last
                      /\ Edge[handoffs[h].edge].on \in Failures \cup {runs[last].out}}
        /\ given = {h \in DOMAIN handoffs : handoffs[h].by = last}
  OBVIOUS
<1> DEFINE inputEdges == {handoffs[h].edge : h \in given} \cap Incoming(n)
           chosen == IF Node[n].join = "all" \/ Incoming(n) = {} THEN Incoming(n)
                     ELSE {Min(IF inputEdges # {} THEN inputEdges ELSE Incoming(n))}
           SourceOf(e) == IF \E h \in given : handoffs[h].edge = e
                            THEN handoffs[Min({h \in given : handoffs[h].edge = e})].source
                            ELSE last
           order == InOrder(chosen)
           extra == [i \in DOMAIN order |->
                       Synthetic(order[i], SourceOf(order[i]), runs[last].input)]
<1>1. /\ handoffs' = Taken(branch, 0) \o extra /\ runs[last].status = "FAILED"
      /\ branch \subseteq Pending /\ RunsOf(n) # {}
  BY ZenonT(40), <1>0 DEF RetryNode
<1>2. last \in DOMAIN runs /\ last \in Nat /\ runs[last] \in Run
  BY <1>0, <1>1, LatestFacts, RowFacts
<1>3. Edges \in SUBSET Nat /\ IsFiniteSet(Edges) /\ Incoming(n) \in SUBSET Edges
  BY TemplateFacts DEF StoreOK, Incoming
<1>4. IsFiniteSet(Incoming(n)) /\ inputEdges \in SUBSET Incoming(n) /\ IsFiniteSet(inputEdges)
  <2>1. IsFiniteSet(Incoming(n))
    BY <1>3, FS_Subset
  <2>2. inputEdges \in SUBSET Incoming(n)
    OBVIOUS
  <2> QED BY <2>1, <2>2, FS_Subset
<1> HIDE DEF inputEdges
<1>5. chosen \in SUBSET Incoming(n) /\ IsFiniteSet(chosen)
  <2>1. CASE Node[n].join = "all" \/ Incoming(n) = {}
    BY <1>4, <2>1
  <2>2. CASE ~(Node[n].join = "all" \/ Incoming(n) = {})
    <3>1. PICK S : S = (IF inputEdges # {} THEN inputEdges ELSE Incoming(n))
      OBVIOUS
    <3>2. S # {} /\ S \in SUBSET Incoming(n) /\ IsFiniteSet(S)
      BY <1>4, <2>2, <3>1
    <3>3. S \in SUBSET Nat
      BY <1>3, <3>2
    <3>4. Min(S) \in S
      BY <3>2, <3>3, MinMax
    <3>5. chosen = {Min(S)}
      BY <2>2, <3>1
    <3>6. IsFiniteSet({Min(S)})
      BY FS_Singleton
    <3> QED BY <3>2, <3>4, <3>5, <3>6
  <2> QED BY <2>1, <2>2
<1> HIDE DEF chosen
<1>6. chosen \in SUBSET Nat
  BY <1>3, <1>5
<1>7. PICK m \in Nat : /\ DOMAIN order = 1 .. m /\ \A i \in 1 .. m : order[i] \in chosen
  BY <1>5, <1>6, InOrderProps
<1> HIDE DEF order
<1>8. \A e : SourceOf(e) \in Nat
  <2> TAKE e
  <2>1. PICK S : S = {h \in given : handoffs[h].edge = e}
    OBVIOUS
  <2>2. CASE S # {}
    <3>1. S \in SUBSET DOMAIN handoffs
      BY <1>0, <2>1
    <3>2. S \in SUBSET Nat /\ IsFiniteSet(S)
      BY <3>1, RowFacts, FS_Subset
    <3>3. Min(S) \in S
      BY <2>2, <3>2, MinMax
    <3>4. handoffs[Min(S)] \in Handoff
      BY <3>1, <3>3, RowFacts
    <3>5. handoffs[Min(S)].source \in Nat
      BY <3>4 DEF Handoff
    <3> QED BY <1>2, <2>1, <3>5
  <2>3. CASE S = {}
    BY <1>2, <2>1, <2>3
  <2> QED BY <2>2, <2>3
<1> HIDE DEF SourceOf
<1>9. ASSUME NEW i \in 1 .. m
      PROVE  /\ extra[i] \in Handoff /\ extra[i].synthetic = TRUE
             /\ extra[i].status = "PENDING" /\ extra[i].by = 0
             /\ Edge[extra[i].edge].to = n
  <2>1. order[i] \in Edges /\ Edge[order[i]].to = n
    BY <1>5, <1>7 DEF Incoming
  <2>2. SourceOf(order[i]) \in Nat /\ runs[last].input \in Asked
    BY <1>2, <1>8 DEF Run
  <2>3. extra[i] = Synthetic(order[i], SourceOf(order[i]), runs[last].input)
    BY <1>7
  <2> HIDE DEF extra
  <2> QED BY <2>1, <2>2, <2>3 DEF Synthetic, Handoff
<1>10. DOMAIN extra = 1 .. m /\ extra = [i \in 1 .. m |-> extra[i]]
  BY <1>7
<1>12. PICK rows : rows = extra
  OBVIOUS
<1>13. /\ handoffs' = Taken(branch, 0) \o rows
       /\ DOMAIN rows = 1 .. m /\ rows = [i \in 1 .. m |-> rows[i]]
       /\ \A i \in 1 .. m :
            /\ rows[i] \in Handoff /\ rows[i].synthetic = TRUE
            /\ rows[i].status = "PENDING" /\ rows[i].by = 0
            /\ Edge[rows[i].edge].to = n
  BY <1>1, <1>9, <1>10, <1>12
<1>14. runs[Latest(n)].status = "FAILED" /\ branch \subseteq Pending
  BY <1>0, <1>1
<1> HIDE DEF extra
<1>11. \A h \in branch : h \in DOMAIN handoffs /\ handoffs[h].source = Latest(n)
  BY <1>0
<1>15. RetryHands(n, branch, rows)
  BY <1>13 DEF RetryHands
<1> QED BY <1>11, <1>14, <1>15, Zenon

LEMMA RetryTemplate ==
  ASSUME StoreOK, NEW key, NEW n \in Nodes, RetryNode(key, n)
  PROVE  /\ IsTemplate(snapshot)' /\ Nodes' = Nodes /\ Edge' = Edge /\ Edges' = Edges
         /\ MaxRounds' = MaxRounds
         /\ \A m \in Nodes : /\ Node[m].maxRuns <= Node'[m].maxRuns /\ Node'[m].kind = Node[m].kind
                             /\ Node'[m].join = Node[m].join
<1>0. PICK most : most = Max({Node[n].maxRuns, Cardinality(RunsOf(n)) + 1})
  OBVIOUS
<1>1. Node[n].maxRuns \in Nat \ {0} /\ Cardinality(RunsOf(n)) + 1 \in Nat \ {0}
  BY TemplateFacts, RowFacts DEF StoreOK, NodeType
<1>2. most \in Nat \ {0} /\ Node[n].maxRuns <= most
  <2>1. PICK S : S = {Node[n].maxRuns, Cardinality(RunsOf(n)) + 1}
    OBVIOUS
  <2>2. IsFiniteSet(S) /\ S \in SUBSET Nat /\ S # {}
    <3>0. S = {Node[n].maxRuns} \cup {Cardinality(RunsOf(n)) + 1}
      BY <2>1
    <3>a. IsFiniteSet({Node[n].maxRuns})
      BY FS_Singleton
    <3>1. IsFiniteSet({Node[n].maxRuns} \cup {Cardinality(RunsOf(n)) + 1})
      BY <3>a, FS_AddElement
    <3> QED BY <1>1, <2>1, <3>0, <3>1
  <2>3. Max(S) \in S /\ \A y \in S : y <= Max(S)
    BY <2>2, MinMax
  <2> QED BY <1>0, <1>1, <2>1, <2>3
<1>3. PICK t, u : t = snapshot /\ u = snapshot'
  OBVIOUS
<1>4. PICK row : row = [t.nodes[n] EXCEPT !.maxRuns = most]
  OBVIOUS
<1>5. /\ t \in [nodes : Seq(NodeType(DOMAIN t.nodes)), edges : Seq(EdgeType(DOMAIN t.nodes)), rounds : Nat]
      /\ n \in DOMAIN t.nodes
  BY <1>3 DEF StoreOK, IsTemplate, Nodes, Node
<1>6. u = [t EXCEPT !.nodes = [t.nodes EXCEPT ![n] = row]]
  <2>1. snapshot' = [snapshot EXCEPT !.nodes[n].maxRuns = Max({@, Cardinality(RunsOf(n)) + 1})]
    BY DEF RetryNode
  <2> QED BY <1>0, <1>3, <1>4, <1>5, <2>1 DEF Node
<1>7. t.nodes[n] \in NodeType(DOMAIN t.nodes)
  BY <1>5
<1>8. row \in NodeType(DOMAIN t.nodes) /\ row.kind = t.nodes[n].kind /\ row.join = t.nodes[n].join
      /\ row.maxRuns = most
  BY <1>2, <1>4, <1>7 DEF NodeType
<1>9. PICK nodes : nodes = [t.nodes EXCEPT ![n] = row]
  OBVIOUS
<1>10. nodes \in Seq(NodeType(DOMAIN t.nodes)) /\ DOMAIN nodes = DOMAIN t.nodes
       /\ nodes[n] = row /\ \A m \in DOMAIN t.nodes : m # n => nodes[m] = t.nodes[m]
  BY <1>5, <1>8, <1>9
<1>11. u = [t EXCEPT !.nodes = nodes]
  BY <1>6, <1>9
<1>12. u.nodes = nodes /\ u.edges = t.edges /\ u.rounds = t.rounds
       /\ u \in [nodes : Seq(NodeType(DOMAIN t.nodes)), edges : Seq(EdgeType(DOMAIN t.nodes)), rounds : Nat]
  BY <1>5, <1>10, <1>11
<1>13. IsTemplate(u)
  BY <1>10, <1>12 DEF IsTemplate
<1>14. /\ Nodes' = Nodes /\ Edge' = Edge /\ Edges' = Edges /\ MaxRounds' = MaxRounds
  BY <1>3, <1>10, <1>12 DEF Nodes, Node, Edge, Edges, MaxRounds
<1>15. Node = t.nodes /\ Node' = nodes /\ Nodes = DOMAIN t.nodes
  BY <1>3, <1>12 DEF Node, Nodes
<1>16. ASSUME NEW m \in Nodes
       PROVE  /\ Node[m].maxRuns <= Node'[m].maxRuns /\ Node'[m].kind = Node[m].kind
              /\ Node'[m].join = Node[m].join
  <2>1. Node[m].maxRuns \in Nat
    BY TemplateFacts DEF StoreOK, NodeType
  <2> QED BY <1>2, <1>8, <1>10, <1>15, <2>1
<1> QED BY <1>3, <1>13, <1>14, <1>16

LEMMA RetryNodeCount ==
  ASSUME CountInv, NEW key \in Keys, NEW n \in Nodes, RetryNode(key, n)
  PROVE  CountInv'
<1>0. /\ StoreOK /\ used' \subseteq Keys
      /\ UNCHANGED <<graph, runs, jobs, bound, approvals, mission, call, crashes>>
  BY TypeParts DEF CountInv, RetryNode, Insert, StoreOK
<1>a. PICK branch, extra : RetryHands(n, branch, extra)
  BY <1>0, RetryRows, Zenon
<1>1. PICK z \in Nat : handoffs' = Taken(branch, 0) \o extra /\ Extra(extra, z)
  BY <1>a DEF RetryHands, Extra
<1>2. /\ handoffs' \in Seq(Handoff) /\ DOMAIN handoffs \subseteq DOMAIN handoffs'
      /\ \A h \in DOMAIN handoffs : handoffs'[h].edge = handoffs[h].edge
                                    /\ handoffs'[h].synthetic = handoffs[h].synthetic
      /\ \A h \in DOMAIN handoffs' \ DOMAIN handoffs : handoffs'[h].synthetic
  BY <1>0, <1>1, AddSynthetic DEF Added
<1>3. /\ IsTemplate(snapshot)' /\ Nodes' = Nodes /\ Edge' = Edge /\ Edges' = Edges
      /\ \A m \in Nodes : Node[m].maxRuns <= Node'[m].maxRuns
  BY <1>0, RetryTemplate
<1>4. StoreOK'
  <2>1. Run' = Run /\ Handoff' = Handoff
    BY <1>0, <1>3 DEF Run, Handoff, Asked
  <2> QED BY <1>0, <1>2, <1>3, <2>1 DEF StoreOK, GraphOK, JobsOK, BoundOK
<1>5. \A m : RunsOf(m)' = RunsOf(m)
  BY <1>0 DEF RunsOf
<1>6. LimitsGrow /\ RunsGrow
  BY <1>0, <1>3, <1>5 DEF LimitsGrow, RunsGrow
<1>7. NodesWithin'
  <2>2. ASSUME NEW m \in Nodes
        PROVE  Cardinality(RunsOf(m)') <= Node'[m].maxRuns
    <3>1. Cardinality(RunsOf(m)) <= Node[m].maxRuns /\ Node[m].maxRuns <= Node'[m].maxRuns
      BY <1>3 DEF CountInv, NodesWithin
    <3>2. Cardinality(RunsOf(m)) \in Nat /\ Node[m].maxRuns \in Nat
      BY <1>0, RowFacts, TemplateFacts DEF StoreOK, NodeType
    <3>3. Node'[m].maxRuns \in Nat
      BY <1>3, TemplateNext DEF NodeType
    <3>4. RunsOf(m)' = RunsOf(m)
      BY <1>5
    <3> QED BY <3>1, <3>2, <3>3, <3>4
  <2> QED BY <1>3, <2>2 DEF NodesWithin
<1> QED BY <1>0, <1>2, <1>4, <1>6, <1>7, CountOutside

LEMMA SkipRows ==
  ASSUME StoreOK, NEW key, NEW n \in Nodes, CancelBranch(key, n)
  PROVE  /\ runs' = Append(runs, Skipped(n)) /\ Skipped(n) \in Run
         /\ RunsOf(n) = {}
         /\ \E extra : \E m \in Nat :
              /\ handoffs' = Taken(PendingTo(n), Len(runs) + 1) \o extra
              /\ DOMAIN extra = 1 .. m /\ extra = [i \in 1 .. m |-> extra[i]]
              /\ \A i \in 1 .. m :
                   /\ extra[i] \in Handoff /\ extra[i].synthetic = TRUE
                   /\ extra[i].status = "PENDING" /\ extra[i].by = 0
<1> DEFINE order == InOrder(Outgoing(n, "canceled"))
           extra == [i \in DOMAIN order |->
                       Synthetic(order[i], Len(runs) + 1, Merged(PendingTo(n)))]
<1>1. /\ runs' = Append(runs, Skipped(n)) /\ RunsOf(n) = {}
      /\ handoffs' = Taken(PendingTo(n), Len(runs) + 1) \o extra
  BY DEF CancelBranch
<1>2. Merged(PendingTo(n)) \in Asked
  <2>1. PendingTo(n) \in SUBSET DOMAIN handoffs
    BY DEF PendingTo, Pending
  <2> QED BY <2>1, MergedType
<1>3. Skipped(n) \in Run
  BY <1>2 DEF Skipped, Run, TerminalRun, Outcome, Failures
<1>4. /\ Outgoing(n, "canceled") \in SUBSET Nat /\ IsFiniteSet(Outgoing(n, "canceled"))
      /\ Outgoing(n, "canceled") \in SUBSET Edges
  <2>1. Outgoing(n, "canceled") \in SUBSET Edges
    BY DEF Outgoing
  <2>2. Edges \in SUBSET Nat /\ IsFiniteSet(Edges)
    BY TemplateFacts DEF StoreOK
  <2> QED BY <2>1, <2>2, FS_Subset
<1>5. PICK m \in Nat : DOMAIN order = 1 .. m /\ \A i \in 1 .. m : order[i] \in Outgoing(n, "canceled")
  BY <1>4, InOrderProps
<1>6. Len(runs) + 1 \in Nat
  BY RowFacts
<1> HIDE DEF order
<1>7. ASSUME NEW i \in 1 .. m
      PROVE  /\ extra[i] \in Handoff /\ extra[i].synthetic = TRUE
             /\ extra[i].status = "PENDING" /\ extra[i].by = 0
  <2>1. extra[i] = Synthetic(order[i], Len(runs) + 1, Merged(PendingTo(n))) /\ order[i] \in Edges
    BY <1>4, <1>5
  <2> HIDE DEF extra
  <2> QED BY <1>2, <1>6, <2>1 DEF Synthetic, Handoff
<1>8. PICK rows : rows = extra
  OBVIOUS
<1>9. /\ DOMAIN rows = 1 .. m /\ rows = [i \in 1 .. m |-> rows[i]]
      /\ handoffs' = Taken(PendingTo(n), Len(runs) + 1) \o rows
      /\ \A i \in 1 .. m :
           /\ rows[i] \in Handoff /\ rows[i].synthetic = TRUE
           /\ rows[i].status = "PENDING" /\ rows[i].by = 0
  BY <1>1, <1>5, <1>7, <1>8
<1> HIDE DEF extra
<1> QED BY <1>1, <1>3, <1>9, Zenon

LEMMA CancelBranchCount ==
  ASSUME CountInv, NEW key \in Keys, NEW n \in Nodes, CancelBranch(key, n)
  PROVE  CountInv'
<1>0. /\ StoreOK /\ used' \subseteq Keys
      /\ UNCHANGED <<graph, snapshot, jobs, bound, approvals, mission, call, crashes>>
  BY TypeParts DEF CountInv, CancelBranch, Insert, StoreOK
<1>1. PICK extra : \E m \in Nat :
        /\ handoffs' = Taken(PendingTo(n), Len(runs) + 1) \o extra
        /\ DOMAIN extra = 1 .. m /\ extra = [i \in 1 .. m |-> extra[i]]
        /\ \A i \in 1 .. m :
             /\ extra[i] \in Handoff /\ extra[i].synthetic = TRUE
             /\ extra[i].status = "PENDING" /\ extra[i].by = 0
  BY <1>0, SkipRows, Zenon
<1>a. Len(runs) + 1 \in Nat
  BY <1>0, RowFacts
<1>2. PICK z \in Nat, by \in Nat :
        handoffs' = Taken(PendingTo(n), by) \o extra /\ Extra(extra, z)
  BY <1>1, <1>a DEF Extra
<1>3. /\ handoffs' \in Seq(Handoff) /\ DOMAIN handoffs \subseteq DOMAIN handoffs'
      /\ \A h \in DOMAIN handoffs : handoffs'[h].edge = handoffs[h].edge
                                    /\ handoffs'[h].synthetic = handoffs[h].synthetic
      /\ \A h \in DOMAIN handoffs' \ DOMAIN handoffs : handoffs'[h].synthetic
  BY <1>0, <1>2, AddSynthetic DEF Added
<1>4. runs' = Append(runs, Skipped(n)) /\ Skipped(n) \in Run /\ RunsOf(n) = {}
  BY <1>0, SkipRows
<1>5. Skipped(n).node = n
  BY DEF Skipped
<1>6. /\ runs' \in Seq(Run) /\ Len(runs') = Len(runs) + 1
      /\ \A m : m # n => RunsOf(m)' = RunsOf(m)
      /\ Cardinality(RunsOf(n)') = Cardinality(RunsOf(n)) + 1
  BY <1>0, <1>4, <1>5, AppendRun
<1>7. StoreOK'
  <2>1. Run' = Run /\ Handoff' = Handoff
    BY <1>0 DEF Run, Handoff, Asked, Nodes, Node, Edges, Edge
  <2> QED BY <1>0, <1>3, <1>6, <2>1 DEF StoreOK, GraphOK, JobsOK, BoundOK
<1>8. /\ Nodes' = Nodes /\ Node' = Node /\ Edge' = Edge /\ Edges' = Edges
  BY <1>0 DEF Nodes, Node, Edges, Edge
<1>9. \A m \in Nodes : Node[m].maxRuns \in Nat /\ Node[m].maxRuns >= 1
  BY <1>0, TemplateFacts DEF StoreOK, NodeType
<1>10. LimitsGrow /\ RunsGrow
  BY <1>6, <1>8, <1>9 DEF LimitsGrow, RunsGrow
<1>11. NodesWithin'
  <2>2. ASSUME NEW m \in Nodes
        PROVE  Cardinality(RunsOf(m)') <= Node[m].maxRuns
    <3>1. CASE m = n
      <4>1. Cardinality(RunsOf(n)) = 0
        BY <1>4, FS_EmptySet
      <4> QED BY <1>6, <1>9, <3>1, <4>1
    <3>2. CASE m # n
      <4>1. RunsOf(m)' = RunsOf(m)
        BY <1>6, <3>2
      <4> QED BY <4>1 DEF CountInv, NodesWithin
    <3> QED BY <3>1, <3>2
  <2> QED BY <1>8, <2>2 DEF NodesWithin
<1> QED BY <1>0, <1>3, <1>7, <1>10, <1>11, CountOutside

-----------------------------------------------------------------------------
(* What the items of a wave know *)

RowsStay ==
  \A r \in DOMAIN runs :
    r \in DOMAIN runs' /\ runs'[r].node = runs[r].node /\ IndexOf(r)' = IndexOf(r)
JobsStay == DOMAIN jobs \subseteq DOMAIN jobs'

LEMMA StillRows == ASSUME UNCHANGED runs PROVE RowsStay
BY DEF RowsStay, IndexOf, RunsOf

LEMMA KnownKept ==
  ASSUME RowsStay, JobsStay, NEW c, KnownIn(c)
  PROVE  KnownIn(c)'
<1>1. BegunIn(c)' = BegunIn(c) /\ BegunIn(c) \subseteq DOMAIN c.wave
  BY DEF BegunIn
<1>2. ASSUME NEW k \in BegunIn(c)
      PROVE  /\ c.wave[k].run \in DOMAIN runs'
             /\ runs'[c.wave[k].run].node = c.wave[k].node
             /\ IndexOf(c.wave[k].run)' = c.wave[k].index
  <2>1. PICK r : r = c.wave[k].run
    OBVIOUS
  <2>2. r \in DOMAIN runs /\ runs[r].node = c.wave[k].node /\ IndexOf(r) = c.wave[k].index
    BY <2>1 DEF KnownIn
  <2>3. r \in DOMAIN runs' /\ runs'[r].node = runs[r].node /\ IndexOf(r)' = IndexOf(r)
    BY <2>2 DEF RowsStay
  <2>4. r \in DOMAIN runs' /\ runs'[r].node = c.wave[k].node /\ IndexOf(r)' = c.wave[k].index
    BY <2>2, <2>3
  <2> QED BY <2>1, <2>4
<1> QED BY <1>1, <1>2 DEF KnownIn, JobsStay

(* The wave is as it was but for the answers.                               *)
Alike(c, b) ==
  /\ DOMAIN c.wave = DOMAIN b.wave
  /\ \A k \in DOMAIN b.wave :
       /\ c.wave[k].node = b.wave[k].node /\ c.wave[k].run = b.wave[k].run
       /\ c.wave[k].index = b.wave[k].index
Later(c, b) ==
  \/ c.pc \notin Waving
  \/ c.pc \in Waving \ {"create", "mark"} /\ b.pc \in Waving \ {"create", "mark"}

LEMMA KnownMoved ==
  ASSUME CountInv, \A e \in Drivers : KnownIn(call[e]), RowsStay, JobsStay,
         NEW d \in Drivers, NEW c, Go(d, c), KnownIn(c)'
  PROVE  \A e \in Drivers : KnownIn(call[e])'
<1>1. /\ call'[d] = c
      /\ \A e \in Drivers : e # d => call'[e] = call[e]
  BY Known, GoFacts
<1>2. ASSUME NEW e \in Drivers, e # d
      PROVE  KnownIn(call[e])'
  <2>1. PICK b : b = call[e]
    OBVIOUS
  <2>2. KnownIn(b)'
    BY <2>1, KnownKept
  <2>3. b = call'[e]
    BY <1>1, <1>2, <2>1
  <2> QED BY <2>2, <2>3
<1>3. KnownIn(call[d])'
  BY <1>1
<1> QED BY <1>2, <1>3

LEMMA KnownAlike ==
  ASSUME CountInv, \A e \in Drivers : KnownIn(call[e]), RowsStay, JobsStay,
         NEW d \in Drivers, NEW c, Go(d, c), Alike(c, call[d]), Later(c, call[d]),
         \A k \in DOMAIN c.wave : c.wave[k].at = "bind" => c.wave[k].job \in DOMAIN jobs'
  PROVE  \A e \in Drivers : KnownIn(call[e])'
<1>1. PICK b : b = call[d]
  OBVIOUS
<1>2. KnownIn(b)'
  BY <1>1, KnownKept
<1>3. BegunIn(c)' \subseteq BegunIn(b)' /\ BegunIn(b)' \subseteq DOMAIN b.wave
  BY <1>1 DEF BegunIn, Alike, Later
<1>4. KnownIn(c)'
  BY <1>1, <1>2, <1>3 DEF KnownIn, Alike
<1> QED BY <1>4, KnownMoved

LEMMA KnownControl ==
  ASSUME CountInv, \A e \in Drivers : KnownIn(call[e]), RowsStay, JobsStay,
         NEW d \in Drivers, NEW c, Go(d, c), c.wave = call[d].wave, Later(c, call[d])
  PROVE  \A e \in Drivers : KnownIn(call[e])'
<1>1. Alike(c, call[d])
  BY DEF Alike
<1>2. \A k \in DOMAIN c.wave : c.wave[k].at = "bind" => c.wave[k].job \in DOMAIN jobs'
  BY DEF KnownIn, JobsStay
<1> QED BY <1>1, <1>2, KnownAlike

LEMMA KnownReturn ==
  ASSUME CountInv, \A e \in Drivers : KnownIn(call[e]), RowsStay, JobsStay,
         NEW d \in Drivers, Return(d)
  PROVE  \A e \in Drivers : KnownIn(call[e])'
<1>1. Go(d, NoCall)
  BY Known, ReturnFacts
<1>2. KnownIn(NoCall)'
  BY DEF KnownIn, NoCall, BegunIn, Waving
<1> QED BY <1>1, <1>2, KnownMoved

LEMMA KnownSet ==
  ASSUME CountInv, \A e \in Drivers : KnownIn(call[e]), RowsStay, JobsStay,
         NEW d \in Drivers, NEW k \in DOMAIN call[d].wave, NEW item, Set(d, k, item),
         call[d].pc \in {"execute", "again"},
         item.node = call[d].wave[k].node, item.run = call[d].wave[k].run,
         item.index = call[d].wave[k].index,
         item.at = "bind" => item.job \in DOMAIN jobs'
  PROVE  \A e \in Drivers : KnownIn(call[e])'
<1> DEFINE c == [call[d] EXCEPT !.wave = [call[d].wave EXCEPT ![k] = item]]
<1>1. /\ Go(d, c) /\ c.pc = call[d].pc
      /\ DOMAIN c.wave = DOMAIN call[d].wave /\ c.wave[k] = item
      /\ \A j \in DOMAIN call[d].wave : j # k => c.wave[j] = call[d].wave[j]
  BY Known, SetFacts
<1> HIDE DEF c
<1>2. Alike(c, call[d]) /\ Later(c, call[d])
  BY <1>1 DEF Alike, Later, Waving
<1>3. \A j \in DOMAIN c.wave : c.wave[j].at = "bind" => c.wave[j].job \in DOMAIN jobs'
  BY <1>1 DEF KnownIn, JobsStay
<1> QED BY <1>1, <1>2, <1>3, KnownAlike

LEMMA KnownThread ==
  ASSUME CountInv, \A e \in Drivers : KnownIn(call[e]), NEW d \in Drivers,
         NEW k \in DOMAIN call[d].wave, Thread(d, k) \/ TooLate(d, k)
  PROVE  \A e \in Drivers : KnownIn(call[e])'
<1>0. PICK item : item = call[d].wave[k]
  OBVIOUS
<1>1. RowsStay
  BY StillRows DEF Thread, TooLate, RunProgram, RunGate, Choose, Bind, StartJob, Lease, Work, Report,
     storeVars
<1>2. item \in ItemType /\ call[d].pc \in {"execute", "again"}
  BY <1>0, Known, ItemFacts, ExecutingAt
     DEF Thread, TooLate, RunProgram, RunGate, Choose, Bind, StartJob, Lease, Work, Report, At
<1>3. ASSUME NEW next, Set(d, k, next), JobsStay,
             next.node = item.node, next.run = item.run, next.index = item.index,
             next.at = "bind" => next.job \in DOMAIN jobs'
      PROVE  \A e \in Drivers : KnownIn(call[e])'
  BY <1>0, <1>1, <1>2, <1>3, KnownSet
<1>4. ASSUME NEW out, Answers(d, k, out), JobsStay
      PROVE  \A e \in Drivers : KnownIn(call[e])'
  <2>1. PICK next : next = [item EXCEPT !.at = "done", !.out = out]
    OBVIOUS
  <2>2. next.node = item.node /\ next.run = item.run /\ next.index = item.index /\ next.at = "done"
    BY <1>2, <2>1 DEF ItemType
  <2> QED BY <1>0, <1>3, <1>4, <2>1, <2>2 DEF Answers
<1>5. ASSUME NEW at, Moves(d, k, at), at # "bind", JobsStay
      PROVE  \A e \in Drivers : KnownIn(call[e])'
  <2>1. PICK next : next = [item EXCEPT !.at = at]
    OBVIOUS
  <2>2. next.node = item.node /\ next.run = item.run /\ next.index = item.index /\ next.at = at
    BY <1>2, <2>1 DEF ItemType
  <2> QED BY <1>0, <1>3, <1>5, <2>1, <2>2 DEF Moves
<1>6. ASSUME Refuse(d, k), JobsStay
      PROVE  \A e \in Drivers : KnownIn(call[e])'
  <2>1. CASE Return(d)
    BY <1>1, <1>6, <2>1, KnownReturn
  <2>2. CASE Answers(d, k, "failed")
    BY <1>4, <1>6, <2>2
  <2> QED BY <1>6, <2>1, <2>2 DEF Refuse
<1>7. CASE RunProgram(d, k)
  <2>1. JobsStay
    BY <1>7 DEF RunProgram, JobsStay, storeVars
  <2> QED BY <1>4, <1>7, <2>1 DEF RunProgram
<1>8. CASE RunGate(d, k)
  <2>1. JobsStay
    BY <1>8 DEF RunGate, JobsStay
  <2>2. PICK next : next = [item EXCEPT !.at = "done", !.out = "waiting", !.approval = Len(approvals) + 1]
    OBVIOUS
  <2>3. next.node = item.node /\ next.run = item.run /\ next.index = item.index /\ next.at = "done"
    BY <1>2, <2>2 DEF ItemType
  <2>4. (\E out : Answers(d, k, out)) \/ Set(d, k, next)
    BY <1>0, <1>8, <2>2 DEF RunGate
  <2> QED BY <1>3, <1>4, <2>1, <2>3, <2>4
<1>9. CASE Choose(d, k)
  <2>0. StoreOK /\ <<item.node, item.index, 0>> \in Key
    BY <1>2, Known, TemplateFacts DEF ItemType, Key, StoreOK
  <2>1. JobsStay
    <3>1. UNCHANGED jobs \/ jobs' = Created(<<item.node, item.index, 0>>)
      BY <1>0, <1>9 DEF Choose
    <3> QED BY <2>0, <3>1, CreatedType DEF JobsStay
  <2>2. PICK at, key : /\ Set(d, k, [item EXCEPT !.at = at, !.job = key])
                       /\ at = "bind" => key \in DOMAIN jobs'
    <3>1. CASE <<item.node, item.index>> \in DOMAIN bound
      <4>1. PICK at, key : at = "start" /\ key = bound[<<item.node, item.index>>]
        OBVIOUS
      <4>2. Set(d, k, [item EXCEPT !.at = at, !.job = key]) /\ at # "bind"
        BY <1>0, <1>9, <3>1, <4>1 DEF Choose
      <4> QED BY <4>2
    <3>2. CASE \E j \in Adoptable(item.node) : Set(d, k, [item EXCEPT !.at = "bind", !.job = j])
      BY <2>1, <3>2 DEF Adoptable, JobsStay
    <3>3. CASE /\ Set(d, k, [item EXCEPT !.at = "bind", !.job = <<item.node, item.index, 0>>])
               /\ jobs' = Created(<<item.node, item.index, 0>>)
      BY <2>0, <3>3, CreatedType
    <3> QED BY <1>0, <1>9, <3>1, <3>2, <3>3 DEF Choose
  <2>3. PICK next : next = [item EXCEPT !.at = at, !.job = key]
    OBVIOUS
  <2>4. next.node = item.node /\ next.run = item.run /\ next.index = item.index
        /\ next.at = at /\ next.job = key
    BY <1>2, <2>3 DEF ItemType
  <2> QED BY <1>3, <2>1, <2>2, <2>3, <2>4
<1>10. CASE Bind(d, k)
  <2>1. JobsStay
    BY <1>10 DEF Bind, JobsStay
  <2> QED BY <1>5, <1>6, <1>10, <2>1 DEF Bind
<1>11. CASE StartJob(d, k)
  <2>1. JobsStay
    BY <1>11 DEF StartJob, JobsStay
  <2> QED BY <1>5, <1>6, <1>11, <2>1 DEF StartJob
<1>12. CASE Lease(d, k)
  <2>1. JobsStay
    BY <1>12 DEF Lease, JobsStay
  <2> QED BY <1>5, <1>6, <1>12, <2>1 DEF Lease
<1>13. CASE Work(d, k)
  <2>1. JobsStay
    BY <1>13 DEF Work, JobsStay
  <2>2. (\E out : Answers(d, k, out)) \/ \E out : Set(d, k, [item EXCEPT !.at = "report", !.out = out])
    BY <1>0, <1>13 DEF Work
  <2>3. ASSUME NEW out, Set(d, k, [item EXCEPT !.at = "report", !.out = out])
        PROVE  \A e \in Drivers : KnownIn(call[e])'
    <3>1. PICK next : next = [item EXCEPT !.at = "report", !.out = out]
      OBVIOUS
    <3>2. next.node = item.node /\ next.run = item.run /\ next.index = item.index /\ next.at = "report"
      BY <1>2, <3>1 DEF ItemType
    <3> QED BY <1>3, <2>1, <2>3, <3>1, <3>2
  <2> QED BY <1>4, <2>1, <2>2, <2>3
<1>14. CASE Report(d, k)
  <2>1. JobsStay
    BY <1>14 DEF Report, JobsStay
  <2> QED BY <1>5, <1>6, <1>14, <2>1 DEF Report
<1>15. CASE TooLate(d, k)
  <2>1. JobsStay
    BY <1>15 DEF TooLate, JobsStay, storeVars
  <2>2. PICK next : next = [item EXCEPT !.out = "failed"]
    OBVIOUS
  <2>3. next.node = item.node /\ next.run = item.run /\ next.index = item.index /\ next.at = item.at
    BY <1>2, <2>2 DEF ItemType
  <2>4. Set(d, k, next) /\ item.at = "done"
    BY <1>0, <1>15, <2>2 DEF TooLate
  <2> QED BY <1>3, <2>1, <2>3, <2>4
<1> QED BY <1>7, <1>8, <1>9, <1>10, <1>11, <1>12, <1>13, <1>14, <1>15 DEF Thread

LEMMA KnownCreate ==
  ASSUME CountInv, \A e \in Drivers : KnownIn(call[e]), NEW d \in Drivers, CreateRun(d)
  PROVE  \A e \in Drivers : KnownIn(call[e])'
<1>0. /\ StoreOK /\ call[d] \in Call /\ RunsCounted(d) /\ TypeOK /\ InCall(d)
      /\ call[d].pc = "create" /\ call[d].cur \in DOMAIN call[d].wave /\ call[d].cur \in Nat
      /\ Item(d) \in ItemType /\ Item(d).node \in Nodes /\ call[d].wave \in Seq(ItemType)
  BY Known, CurrentItem DEF CountInv, CreateRun, At, Waving, Call
<1>1. JobsStay
  BY DEF CreateRun, JobsStay
<1>2. CASE Len(runs) + 1 # call[d].base + call[d].cur
  <2>1. Return(d) /\ UNCHANGED runs
    BY <1>2 DEF CreateRun
  <2> QED BY <1>1, <2>1, StillRows, KnownReturn
<1>3. CASE Len(runs) + 1 = call[d].base + call[d].cur
  <2>0. PICK run, W, k, new :
          /\ run = [node |-> Item(d).node, status |-> "CREATED", out |-> "none",
                    input |-> Item(d).approval, approval |-> 0]
          /\ W = call[d].wave /\ k = call[d].cur /\ new = Len(runs) + 1
    OBVIOUS
  <2>b. PICK V : V = [W EXCEPT ![k].run = new]
    OBVIOUS
  <2>c. PICK c : c = [call[d] EXCEPT !.pc = "mark", !.wave = V]
    OBVIOUS
  <2>1. runs' = Append(runs, run) /\ Go(d, c)
    BY <1>3, <2>0, <2>b, <2>c DEF CreateRun
  <2>2. run \in Run /\ run.node = W[k].node
    <3>1. 0 \in Asked /\ Item(d).approval \in Asked
      BY <1>0, RowFacts DEF Asked, ItemType
    <3> QED BY <1>0, <2>0, <3>1 DEF Run, Outcome, ActiveRun, Item
  <2>3. /\ DOMAIN runs' = DOMAIN runs \cup {new} /\ new \notin DOMAIN runs
        /\ \A r \in DOMAIN runs : runs'[r] = runs[r]
        /\ runs'[new] = run
        /\ \A r \in DOMAIN runs : IndexOf(r)' = IndexOf(r)
        /\ IndexOf(new)' = Cardinality(RunsOf(run.node)) + 1
    BY <1>0, <2>0, <2>1, <2>2, AppendRun
  <2>4. RowsStay
    BY <2>3 DEF RowsStay
  <2>5. DOMAIN V = DOMAIN W /\ V[k] = [W[k] EXCEPT !.run = new]
        /\ \A j \in DOMAIN W : j # k => V[j] = W[j]
    BY <1>0, <2>0, <2>b
  <2>6. c.pc = "mark" /\ c.cur = k /\ c.wave = V
    BY <1>0, <2>0, <2>c DEF Call
  <2>7. W[k].index = Cardinality(RunsOf(run.node)) + 1
    <3>1. NoRunSince(d) /\ k \in Unborn(d)
      BY <1>0, <1>3, <2>0 DEF NoRunSince, Unborn
    <3> QED BY <1>0, <2>0, <2>2, <3>1 DEF RunsCounted
  <2>8. V[k].run = new /\ V[k].node = W[k].node /\ V[k].index = W[k].index
        /\ V[k].at = W[k].at /\ V[k].job = W[k].job
    BY <1>0, <2>0, <2>5 DEF ItemType, Item
  <2>9. BegunIn(c)' = BegunIn(call[d]) \cup {k} /\ k \notin BegunIn(call[d])
        /\ BegunIn(call[d]) \subseteq DOMAIN W
    <3>1. BegunIn(call[d]) = {j \in DOMAIN W : j < k}
      BY <1>0, <2>0 DEF BegunIn, Waving
    <3>2. BegunIn(c)' = {j \in DOMAIN W : j <= k}
      BY <2>5, <2>6 DEF BegunIn, Waving
    <3>3. \A j \in DOMAIN W : j \in Nat
      BY <1>0, <2>0
    <3> QED BY <1>0, <2>0, <3>1, <3>2, <3>3
  <2>11. ASSUME NEW j \in BegunIn(call[d])
         PROVE  /\ V[j].run \in DOMAIN runs /\ V[j].run # new
                /\ runs'[V[j].run].node = V[j].node /\ IndexOf(V[j].run)' = V[j].index
    <3>1. PICK r : r = W[j].run
      OBVIOUS
    <3>2. r \in DOMAIN runs /\ runs[r].node = W[j].node /\ IndexOf(r) = W[j].index
      BY <2>0, <3>1 DEF KnownIn
    <3>3. V[j] = W[j]
      BY <2>5, <2>9
    <3>4. runs'[r].node = W[j].node /\ IndexOf(r)' = W[j].index /\ r # new
      BY <2>3, <3>2
    <3> QED BY <3>1, <3>2, <3>3, <3>4
  <2>12. /\ V[k].run \in DOMAIN runs' /\ V[k].run = new
         /\ runs'[V[k].run].node = V[k].node /\ IndexOf(V[k].run)' = V[k].index
    BY <2>2, <2>3, <2>7, <2>8
  <2>13. \A i, j \in BegunIn(c)' : V[i].run = V[j].run => i = j
    <3>1. \A i, j \in BegunIn(call[d]) : V[i].run = V[j].run => i = j
      <4>1. \A i \in BegunIn(call[d]) : V[i] = W[i]
        BY <2>5, <2>9
      <4> QED BY <2>0, <4>1 DEF KnownIn
    <3> QED BY <2>9, <2>11, <2>12, <3>1
  <2>14. \A i \in DOMAIN V : V[i].at = "bind" => V[i].job \in DOMAIN jobs'
    <3>1. \A i \in DOMAIN W : W[i].at = "bind" => W[i].job \in DOMAIN jobs
      BY <2>0 DEF KnownIn
    <3>2. \A i \in DOMAIN W : V[i].at = W[i].at /\ V[i].job = W[i].job
      BY <2>5, <2>8
    <3> QED BY <1>1, <2>5, <3>1, <3>2 DEF JobsStay
  <2>15. \A j \in BegunIn(c)' :
           /\ V[j].run \in DOMAIN runs'
           /\ runs'[V[j].run].node = V[j].node /\ IndexOf(V[j].run)' = V[j].index
    BY <2>3, <2>9, <2>11, <2>12
  <2>16. KnownIn(c)'
    BY <2>6, <2>13, <2>14, <2>15 DEF KnownIn
  <2> QED BY <1>1, <2>1, <2>4, <2>16, KnownMoved
<1> QED BY <1>2, <1>3

LEMMA KnownMark ==
  ASSUME CountInv, \A e \in Drivers : KnownIn(call[e]), NEW d \in Drivers, MarkRunning(d)
  PROVE  \A e \in Drivers : KnownIn(call[e])'
<1>0. /\ StoreOK /\ call[d] \in Call /\ TypeOK /\ InCall(d)
      /\ call[d].pc = "mark" /\ call[d].cur \in DOMAIN call[d].wave /\ call[d].cur \in Nat
      /\ call[d].wave \in Seq(ItemType)
  BY Known, CurrentItem DEF CountInv, MarkRunning, At, Waving, Call
<1>1. PICK r, run : /\ r = Item(d).run /\ run = [runs[r] EXCEPT !.status = "RUNNING"]
  OBVIOUS
<1>2. runs' = [runs EXCEPT ![r] = run] /\ UNCHANGED jobs
  BY <1>1 DEF MarkRunning
<1>3. r \in DOMAIN runs => run \in Run /\ run.node = runs[r].node
  <2>1. r \in DOMAIN runs => runs[r] \in Run
    BY <1>0, RowFacts
  <2> QED BY <1>1, <2>1 DEF Run, ActiveRun
<1>4. /\ DOMAIN runs' = DOMAIN runs
      /\ \A q \in DOMAIN runs : runs'[q].node = runs[q].node /\ IndexOf(q)' = IndexOf(q)
  BY <1>0, <1>2, <1>3, ChangeRun
<1>5. RowsStay /\ JobsStay
  BY <1>2, <1>4 DEF RowsStay, JobsStay
<1>6. PICK b, cur : b = call[d] /\ cur = call[d].cur
  OBVIOUS
<1>7. KnownIn(b)'
  BY <1>5, <1>6, KnownKept
<1>8. PICK c : /\ c \in {[call[d] EXCEPT !.pc = "create", !.cur = cur + 1], [call[d] EXCEPT !.pc = "prepare"]}
               /\ Go(d, c)
               /\ c.pc = "prepare" => ~(cur < Len(b.wave))
  <2>1. CASE cur < Len(b.wave)
    <3>1. Go(d, [call[d] EXCEPT !.pc = "create", !.cur = cur + 1])
      BY <1>6, <2>1 DEF MarkRunning
    <3>2. [call[d] EXCEPT !.pc = "create", !.cur = cur + 1].pc = "create"
      BY <1>0 DEF Call
    <3> QED BY <3>1, <3>2
  <2>2. CASE ~(cur < Len(b.wave))
    <3>1. Go(d, [call[d] EXCEPT !.pc = "prepare"])
      BY <1>6, <2>2, Known DEF MarkRunning
    <3> QED BY <2>2, <3>1
  <2> QED BY <2>1, <2>2
<1>9. c.wave = b.wave /\ ((c.pc = "create" /\ c.cur = cur + 1) \/ c.pc = "prepare")
  BY <1>0, <1>6, <1>8 DEF Call
<1>10. BegunIn(c)' \subseteq BegunIn(b)'
  <2>1. BegunIn(b)' = {k \in DOMAIN b.wave : k <= cur}
    BY <1>0, <1>6 DEF BegunIn, Waving
  <2>2. \A k \in DOMAIN b.wave : k \in Nat /\ k <= Len(b.wave) /\ Len(b.wave) \in Nat
    BY <1>0, <1>6
  <2>3. CASE c.pc = "create" /\ c.cur = cur + 1
    <3>1. BegunIn(c)' = {k \in DOMAIN b.wave : k < cur + 1}
      BY <1>9, <2>3 DEF BegunIn, Waving
    <3> QED BY <1>0, <1>6, <2>1, <2>2, <3>1
  <2>4. CASE c.pc = "prepare"
    <3>1. BegunIn(c)' \subseteq DOMAIN b.wave /\ ~(cur < Len(b.wave))
      BY <1>8, <1>9, <2>4 DEF BegunIn
    <3>2. \A k \in DOMAIN b.wave : k <= cur
      BY <1>0, <1>6, <2>2, <3>1
    <3> QED BY <2>1, <3>1, <3>2
  <2> QED BY <1>9, <2>3, <2>4
<1>11. KnownIn(c)'
  BY <1>7, <1>9, <1>10 DEF KnownIn
<1> QED BY <1>5, <1>8, <1>11, KnownMoved

LEMMA KnownRuns ==
  ASSUME StoreOK, NEW S, S \in SUBSET DOMAIN runs, NEW c,
         DOMAIN c.wave = DOMAIN InOrder(S),
         \A i \in DOMAIN InOrder(S) :
           /\ c.wave[i].run = InOrder(S)[i] /\ c.wave[i].node = runs[InOrder(S)[i]].node
           /\ c.wave[i].index = IndexOf(InOrder(S)[i]) /\ c.wave[i].at # "bind"
  PROVE  KnownIn(c)
<1>1. S \in SUBSET Nat /\ IsFiniteSet(S)
  BY RowFacts, FS_Subset
<1>2. /\ \A i \in DOMAIN InOrder(S) : InOrder(S)[i] \in S
      /\ \A i, j \in DOMAIN InOrder(S) : InOrder(S)[i] = InOrder(S)[j] => i = j
  BY <1>1, InOrderProps
<1>3. BegunIn(c) \subseteq DOMAIN c.wave
  BY DEF BegunIn
<1>4. ASSUME NEW k \in BegunIn(c)
      PROVE  /\ c.wave[k].run \in DOMAIN runs
             /\ runs[c.wave[k].run].node = c.wave[k].node /\ IndexOf(c.wave[k].run) = c.wave[k].index
  <2>1. PICK r : r = InOrder(S)[k]
    OBVIOUS
  <2>2. k \in DOMAIN InOrder(S) /\ r \in DOMAIN runs
    BY <1>2, <1>3, <2>1
  <2>3. c.wave[k].run = r /\ c.wave[k].node = runs[r].node /\ c.wave[k].index = IndexOf(r)
    BY <2>1, <2>2
  <2> QED BY <2>2, <2>3
<1>5. \A j, k \in BegunIn(c) : c.wave[j].run = c.wave[k].run => j = k
  BY <1>2, <1>3
<1> QED BY <1>3, <1>4, <1>5 DEF KnownIn

LEMMA KnownScan ==
  ASSUME CountInv, \A e \in Drivers : KnownIn(call[e]), NEW d \in Drivers, Scan(d)
  PROVE  \A e \in Drivers : KnownIn(call[e])'
<1>0. StoreOK /\ call[d] \in Call /\ RowsStay /\ JobsStay
  BY Known, StillRows DEF Scan, storeVars, JobsStay
<1>1. CASE RunsIn({"WAITING_APPROVAL"}) # {}
  <2>1. PICK S : S = RunsIn({"WAITING_APPROVAL"})
    OBVIOUS
  <2>2. PICK W : W = [i \in DOMAIN InOrder(S) |->
                        WaveItem(runs[InOrder(S)[i]].node, InOrder(S)[i], IndexOf(InOrder(S)[i]), {},
                                 runs[InOrder(S)[i]].approval, "done", "none")]
    OBVIOUS
  <2>3. PICK c : c = [call[d] EXCEPT !.pc = "gate", !.mode = "gates", !.cur = 1, !.wave = W]
    OBVIOUS
  <2>4. Go(d, c)
    BY <1>1, <2>1, <2>2, <2>3 DEF Scan
  <2>5. c.wave = W
    BY <1>0, <2>3 DEF Call
  <2>6. S \in SUBSET DOMAIN runs
    BY <2>1 DEF RunsIn
  <2>7. DOMAIN W = DOMAIN InOrder(S)
    BY <2>2
  <2>8. \A i \in DOMAIN InOrder(S) :
          /\ W[i].run = InOrder(S)[i] /\ W[i].node = runs[InOrder(S)[i]].node
          /\ W[i].index = IndexOf(InOrder(S)[i]) /\ W[i].at # "bind"
    BY <2>2 DEF WaveItem
  <2>9. KnownIn(c)
    BY <1>0, <2>5, <2>6, <2>7, <2>8, KnownRuns
  <2>10. KnownIn(c)'
    BY <1>0, <2>9, KnownKept
  <2> QED BY <1>0, <2>4, <2>10, KnownMoved
<1>2. CASE RunsIn({"WAITING_APPROVAL"}) = {}
  <2>1. PICK c : Go(d, c) /\ c.wave = call[d].wave /\ c.pc \notin Waving
    <3>1. ASSUME NEW label, Goto(d, label), label \in {"resume", "rounds", "plan"}
          PROVE  \E c : Go(d, c) /\ c.wave = call[d].wave /\ c.pc \notin Waving
      <4>1. PICK c : c = [call[d] EXCEPT !.pc = label]
        OBVIOUS
      <4>2. c.wave = call[d].wave /\ c.pc = label
        BY <1>0, <4>1 DEF Call
      <4>3. Go(d, c)
        BY <3>1, <4>1 DEF Goto
      <4> QED BY <3>1, <4>2, <4>3 DEF Waving
    <3>2. ASSUME Go(d, [call[d] EXCEPT !.pc = "finish", !.goal = "graph_step_limit"])
          PROVE  \E c : Go(d, c) /\ c.wave = call[d].wave /\ c.pc \notin Waving
      <4>1. PICK c : c = [call[d] EXCEPT !.pc = "finish", !.goal = "graph_step_limit"]
        OBVIOUS
      <4>2. c.wave = call[d].wave /\ c.pc = "finish"
        BY <1>0, <4>1 DEF Call
      <4> QED BY <3>2, <4>1, <4>2 DEF Waving
    <3> QED BY <1>2, <3>1, <3>2 DEF Scan
  <2>2. Later(c, call[d])
    BY <2>1 DEF Later
  <2> QED BY <1>0, <2>1, <2>2, KnownControl
<1> QED BY <1>1, <1>2

LEMMA KnownResume ==
  ASSUME CountInv, \A e \in Drivers : KnownIn(call[e]), NEW d \in Drivers, Resume(d)
  PROVE  \A e \in Drivers : KnownIn(call[e])'
<1>0. StoreOK /\ call[d] \in Call /\ RowsStay /\ JobsStay
  BY Known, StillRows DEF Resume, JobsStay
<1>1. CASE Resumable # {}
  <2>1. PICK S : S = Resumable
    OBVIOUS
  <2> DEFINE Repeat(r) == WaveItem(runs[r].node, r, IndexOf(r), PendingTo(runs[r].node), 0,
                                   "todo", "none")
             Again(r) == IF jobs[JobOf(r)] = "queued" THEN Repeat(r)
                         ELSE Persisted(Repeat(r), jobs[JobOf(r)])
  <2>2. PICK W : W = [i \in DOMAIN InOrder(S) |-> Again(InOrder(S)[i])]
    OBVIOUS
  <2>3. PICK c : c = [call[d] EXCEPT !.pc = "execute", !.mode = "resumed", !.cur = 1, !.wave = W]
    OBVIOUS
  <2>4. Go(d, c)
    BY <1>1, <2>1, <2>2, <2>3 DEF Resume
  <2>5. c.wave = W
    BY <1>0, <2>3 DEF Call
  <2>6. S \in SUBSET DOMAIN runs
    BY <2>1 DEF Resumable, Held, RunsIn
  <2>7. DOMAIN W = DOMAIN InOrder(S)
    BY <2>2
  <2>8. \A r : /\ Again(r).run = r /\ Again(r).node = runs[r].node
               /\ Again(r).index = IndexOf(r) /\ Again(r).at # "bind"
    BY DEF WaveItem, Persisted
  <2> HIDE DEF Again
  <2>9. \A i \in DOMAIN InOrder(S) :
          /\ W[i].run = InOrder(S)[i] /\ W[i].node = runs[InOrder(S)[i]].node
          /\ W[i].index = IndexOf(InOrder(S)[i]) /\ W[i].at # "bind"
    BY <2>2, <2>8
  <2>10. KnownIn(c)
    BY <1>0, <2>5, <2>6, <2>7, <2>9, KnownRuns
  <2>11. KnownIn(c)'
    BY <1>0, <2>10, KnownKept
  <2> QED BY <1>0, <2>4, <2>11, KnownMoved
<1>2. CASE Resumable = {}
  <2>1. PICK c : c = [call[d] EXCEPT !.pc = "finish", !.goal = "active"]
    OBVIOUS
  <2>2. Go(d, c)
    BY <1>2, <2>1 DEF Resume
  <2>3. c.wave = call[d].wave /\ Later(c, call[d])
    BY <1>0, <2>1 DEF Call, Later, Waving
  <2> QED BY <1>0, <2>2, <2>3, KnownControl
<1> QED BY <1>1, <1>2

LEMMA KnownPlan ==
  ASSUME CountInv, \A e \in Drivers : KnownIn(call[e]), NEW d \in Drivers, Plan(d)
  PROVE  \A e \in Drivers : KnownIn(call[e])'
<1>0. StoreOK /\ call[d] \in Call /\ RowsStay /\ JobsStay
  BY Known, StillRows DEF Plan, storeVars, JobsStay
<1>1. PICK L, order : L = call[d].limits /\ order = InOrder(ReadyNodes(L))
  OBVIOUS
<1>2. PICK W : W = [i \in DOMAIN order |->
                      WaveItem(order[i], 0, Cardinality(RunsOf(order[i])) + 1, PendingTo(order[i]),
                               Merged(PendingTo(order[i])), "todo", "none")]
  OBVIOUS
<1>3. CASE order = <<>>
  <2>1. PICK c : c = [call[d] EXCEPT !.pc = "finish", !.goal = Settled(L)]
    OBVIOUS
  <2>2. Go(d, c)
    BY <1>1, <1>3, <2>1 DEF Plan
  <2>3. c.wave = call[d].wave /\ Later(c, call[d])
    BY <1>0, <2>1 DEF Call, Later, Waving
  <2> QED BY <1>0, <2>2, <2>3, KnownControl
<1>4. CASE order # <<>>
  <2>1. PICK c : c = [call[d] EXCEPT !.pc = "create", !.mode = "wave", !.base = Len(runs),
                                     !.cur = 1, !.wave = W]
    OBVIOUS
  <2>2. Go(d, c)
    BY <1>1, <1>2, <1>4, <2>1 DEF Plan
  <2>3. c.wave = W /\ c.pc = "create" /\ c.cur = 1
    BY <1>0, <2>1 DEF Call
  <2>4. \A i \in DOMAIN W : W[i].at = "todo" /\ i \in Nat /\ i >= 1
    <3>1. DOMAIN W = DOMAIN order /\ \A i \in DOMAIN W : W[i].at = "todo"
      BY <1>2 DEF WaveItem
    <3>2. ReadyNodes(L) \in SUBSET Nodes
      BY DEF ReadyNodes
    <3>3. ReadyNodes(L) \in SUBSET Nat /\ IsFiniteSet(ReadyNodes(L))
      BY <1>0, <3>2, TemplateFacts, FS_Subset DEF StoreOK
    <3>4. DOMAIN order = 1 .. Cardinality(ReadyNodes(L)) /\ Cardinality(ReadyNodes(L)) \in Nat
      BY <1>1, <3>3, InOrderProps
    <3> QED BY <3>1, <3>4
  <2>5. BegunIn(c)' = {}
    BY <2>3, <2>4 DEF BegunIn, Waving
  <2>6. KnownIn(c)'
    BY <2>3, <2>4, <2>5 DEF KnownIn
  <2> QED BY <1>0, <2>2, <2>6, KnownMoved
<1> QED BY <1>3, <1>4

(* A driver that writes a set of its calls, whatever it was doing.           *)
LEMMA KnownApply ==
  ASSUME CountInv, \A e \in Drivers : KnownIn(call[e]), NEW d \in Drivers,
         ApplyWaiting(d) \/ ApplySuccess(d) \/ ApplyFailure(d) \/ ResumeGate(d)
  PROVE  \A e \in Drivers : KnownIn(call[e])'
<1>0. /\ StoreOK /\ call[d] \in Call /\ call[d].pc \in {"apply", "gate"} /\ JobsStay
      /\ call[d].cur \in DOMAIN call[d].wave /\ Item(d) \in ItemType
  BY Known, CurrentItem DEF ApplyWaiting, ApplySuccess, ApplyFailure, ResumeGate, At, Waving, JobsStay
<1>1. Item(d).run \in DOMAIN runs
  <2>1. call[d].cur \in BegunIn(call[d])
    BY <1>0 DEF BegunIn, Waving
  <2> QED BY <2>1 DEF KnownIn, Item
<1>2. PICK r, row : UNCHANGED runs \/ (r \in DOMAIN runs /\ runs' = [runs EXCEPT ![r] = row] /\ row.node = runs[r].node)
  <2>0. runs[Item(d).run] \in Run
    BY <1>0, <1>1, RowFacts
  <2>1. ASSUME NEW status, NEW out, NEW approval, Complete(Item(d).run, status, out, approval)
        PROVE  \E r, row : r \in DOMAIN runs /\ runs' = [runs EXCEPT ![r] = row] /\ row.node = runs[r].node
    <3>1. PICK r, row : /\ r = Item(d).run
                        /\ row = [runs[r] EXCEPT !.status = status, !.out = out, !.approval = approval]
      OBVIOUS
    <3>2. row.node = runs[r].node
      BY <2>0, <3>1 DEF Run
    <3> QED BY <1>1, <2>1, <3>1, <3>2 DEF Complete
  <2>2. \/ UNCHANGED runs
        \/ \E status, out, approval : Complete(Item(d).run, status, out, approval)
    BY DEF ApplyWaiting, ApplySuccess, ApplyFailure, ResumeGate
  <2> QED BY <2>1, <2>2
<1>3. RowsStay
  <2>1. CASE UNCHANGED runs
    BY <2>1, StillRows
  <2>2. CASE r \in DOMAIN runs /\ runs' = [runs EXCEPT ![r] = row] /\ row.node = runs[r].node
    <3>1. DOMAIN runs' = DOMAIN runs /\ \A q \in DOMAIN runs : runs'[q].node = runs[q].node
      BY <2>2
    <3>2. \A n : RunsOf(n)' = RunsOf(n)
      BY <3>1 DEF RunsOf
    <3>3. ASSUME NEW q \in DOMAIN runs
          PROVE  IndexOf(q)' = IndexOf(q)
      <4>0. PICK n : n = runs[q].node
        OBVIOUS
      <4>1. runs'[q].node = n /\ RunsOf(n)' = RunsOf(n)
        BY <3>1, <3>2, <4>0
      <4> QED BY <4>0, <4>1 DEF IndexOf
    <3> QED BY <3>1, <3>3 DEF RowsStay
  <2> QED BY <1>2, <2>1, <2>2
<1>4. PICK c : Go(d, c) /\ c.wave = call[d].wave /\ c.pc \in {"consume", "route", "finish"}
  <2>2. PICK b1, b2, b3, b4, b5 :
          /\ b1 = [call[d] EXCEPT !.pc = "consume"]
          /\ b2 = [call[d] EXCEPT !.pc = "route", !.via = 1]
          /\ b3 = [call[d] EXCEPT !.pc = "consume", !.goal = "unhandled_node_outcome"]
          /\ b4 = [call[d] EXCEPT !.pc = "finish", !.goal = "waiting"]
          /\ b5 = [call[d] EXCEPT !.pc = "finish", !.goal = "unhandled_node_outcome"]
    OBVIOUS
  <2>3. Go(d, b1) \/ Go(d, b2) \/ Go(d, b3) \/ Go(d, b4) \/ Go(d, b5)
    <3>1. CASE ApplyWaiting(d)
      BY <2>2, <3>1 DEF ApplyWaiting, Goto
    <3>2. CASE ApplySuccess(d)
      BY <2>2, <3>2 DEF ApplySuccess
    <3>3. CASE ApplyFailure(d)
      BY <2>2, <3>3 DEF ApplyFailure
    <3>4. CASE ResumeGate(d)
      BY <2>2, <3>4 DEF ResumeGate
    <3> QED BY <3>1, <3>2, <3>3, <3>4
  <2>4. /\ b1.wave = call[d].wave /\ b1.pc = "consume"
        /\ b2.wave = call[d].wave /\ b2.pc = "route"
        /\ b3.wave = call[d].wave /\ b3.pc = "consume"
    BY <1>0, <2>2 DEF Call
  <2>5. /\ b4.wave = call[d].wave /\ b4.pc = "finish"
        /\ b5.wave = call[d].wave /\ b5.pc = "finish"
    BY <1>0, <2>2 DEF Call
  <2> QED BY <2>3, <2>4, <2>5
<1>5. Later(c, call[d])
  BY <1>0, <1>4 DEF Later, Waving
<1> QED BY <1>0, <1>3, <1>4, <1>5, KnownControl

LEMMA KnownPlain ==
  ASSUME CountInv, \A e \in Drivers : KnownIn(call[e]), UNCHANGED <<runs, jobs>>,
         NEW d \in Drivers, NEW c, Go(d, c), c.wave = call[d].wave, c.pc \notin {"create", "mark"},
         c.pc \in Waving => call[d].pc \in Waving \ {"create", "mark"}
  PROVE  \A e \in Drivers : KnownIn(call[e])'
<1>1. RowsStay /\ JobsStay
  BY StillRows DEF JobsStay
<1>2. Later(c, call[d])
  BY DEF Later
<1> QED BY <1>1, <1>2, KnownControl

LEMMA KnownGoto ==
  ASSUME CountInv, \A e \in Drivers : KnownIn(call[e]), UNCHANGED <<runs, jobs>>,
         NEW d \in Drivers, NEW label, Goto(d, label), label \notin {"create", "mark"},
         label \in Waving => call[d].pc \in Waving \ {"create", "mark"}
  PROVE  \A e \in Drivers : KnownIn(call[e])'
<1>1. PICK c : c = [call[d] EXCEPT !.pc = label]
  OBVIOUS
<1>2. c.wave = call[d].wave /\ c.pc = label
  BY <1>1, Known DEF Call
<1>3. Go(d, c)
  BY <1>1 DEF Goto
<1> QED BY <1>2, <1>3, KnownPlain

LEMMA KnownLeave ==
  ASSUME CountInv, \A e \in Drivers : KnownIn(call[e]), UNCHANGED <<runs, jobs>>,
         NEW d \in Drivers, Return(d)
  PROVE  \A e \in Drivers : KnownIn(call[e])'
<1>1. RowsStay /\ JobsStay
  BY StillRows DEF JobsStay
<1> QED BY <1>1, KnownReturn

LEMMA KnownCalls ==
  ASSUME CountInv, \A e \in Drivers : KnownIn(call[e]), NEW d \in Drivers,
         \/ Start(d) \/ Wake(d) \/ Look(d) \/ Rounds(d) \/ Settle(d) \/ Finish(d)
         \/ CompleteMission(d) \/ FailMission(d) \/ Prepare(d) \/ Repeated(d) \/ Reopen(d)
         \/ Consume(d) \/ Crash(d)
  PROVE  \A e \in Drivers : KnownIn(call[e])'
<1>0. UNCHANGED <<runs, jobs>>
  BY DEF Start, Wake, Look, Rounds, Settle, Finish, CompleteMission, FailMission, Prepare, Repeated,
         Reopen, Consume, Crash, storeVars
<1>1. ASSUME Return(d)
      PROVE  \A e \in Drivers : KnownIn(call[e])'
  BY <1>0, <1>1, KnownLeave
<1>2. ASSUME NEW label, Goto(d, label), label \in {"look", "wake", "complete", "fail", "settle"}
      PROVE  \A e \in Drivers : KnownIn(call[e])'
  BY <1>0, <1>2, KnownGoto DEF Waving
<1>3. ASSUME NEW label, Goto(d, label), label \in {"execute", "apply", "next"},
             call[d].pc \in {"prepare", "again", "consume"}
      PROVE  \A e \in Drivers : KnownIn(call[e])'
  BY <1>0, <1>3, KnownGoto DEF Waving
<1>4. CASE Start(d) \/ Wake(d) \/ Rounds(d) \/ Finish(d) \/ CompleteMission(d) \/ FailMission(d)
           \/ Reopen(d) \/ Crash(d)
  BY <1>1, <1>2, <1>4 DEF Start, Wake, Rounds, Finish, CompleteMission, FailMission, Reopen, Crash
<1>5. CASE Prepare(d) \/ Repeated(d) \/ Consume(d)
  BY <1>1, <1>3, <1>5 DEF Prepare, Repeated, Consume, At
<1>6. CASE Look(d)
  <2>1. PICK c : c = [call[d] EXCEPT !.pc = "scan", !.step = graph.step,
                                     !.limits = [n \in Nodes |-> Node[n].maxRuns]]
    OBVIOUS
  <2>2. Return(d) \/ Go(d, c)
    BY <1>6, <2>1 DEF Look
  <2>3. c.wave = call[d].wave /\ c.pc = "scan"
    BY <2>1, Known DEF Call
  <2> QED BY <1>0, <1>1, <2>2, <2>3, KnownPlain DEF Waving
<1>7. CASE Settle(d)
  <2>1. PICK c : c = [call[d] EXCEPT !.pc = "finish", !.goal = Settled(call[d].limits)]
    OBVIOUS
  <2>2. Go(d, c)
    BY <1>7, <2>1 DEF Settle
  <2>3. c.wave = call[d].wave /\ c.pc = "finish"
    BY <2>1, Known DEF Call
  <2> QED BY <1>0, <2>2, <2>3, KnownPlain DEF Waving
<1> QED BY <1>4, <1>5, <1>6, <1>7

LEMMA KnownSteps ==
  ASSUME CountInv, \A e \in Drivers : KnownIn(call[e]), NEW d \in Drivers,
         Collect(d) \/ Route(d) \/ HandOver(d) \/ NextItem(d) \/ CountStep(d)
  PROVE  \A e \in Drivers : KnownIn(call[e])'
<1>0. /\ UNCHANGED <<runs, jobs>> /\ call[d] \in Call
      /\ call[d].pc \in {"execute", "route", "next", "count"}
  BY Known DEF Collect, Route, HandOver, NextItem, CountStep, storeVars, At
<1>1. ASSUME NEW c, Go(d, c), c.wave = call[d].wave,
             c.pc \in {"apply", "next", "consume", "route", "gate", "finish", "reopen", "count", "settle"}
      PROVE  \A e \in Drivers : KnownIn(call[e])'
  BY <1>0, <1>1, KnownPlain DEF Waving
<1>2. ASSUME NEW via, NEW room, Go(d, [call[d] EXCEPT !.via = via, !.room = room])
      PROVE  \A e \in Drivers : KnownIn(call[e])'
  <2>0. PICK c : c = [call[d] EXCEPT !.via = via, !.room = room]
    OBVIOUS
  <2>1. c.wave = call[d].wave /\ c.pc = call[d].pc
    BY <1>0, <2>0 DEF Call
  <2> QED BY <1>0, <1>2, <2>0, <2>1, KnownPlain DEF Waving
<1>3. CASE Collect(d)
  <2>1. PICK c : c = [call[d] EXCEPT !.pc = "apply", !.cur = 1]
    OBVIOUS
  <2>2. Go(d, c)
    BY <1>3, <2>1 DEF Collect
  <2>3. c.wave = call[d].wave /\ c.pc = "apply"
    BY <1>0, <2>1 DEF Call
  <2> QED BY <1>1, <2>2, <2>3
<1>4. CASE Route(d)
  <2>1. ASSUME NEW goal, Routed(d, goal)
        PROVE  \A e \in Drivers : KnownIn(call[e])'
    <3>1. PICK label : label = IF call[d].mode = "gates" THEN "next" ELSE "consume"
      OBVIOUS
    <3>2. PICK c : c = [call[d] EXCEPT !.pc = label, !.goal = goal]
      OBVIOUS
    <3>3. Go(d, c)
      BY <2>1, <3>1, <3>2 DEF Routed
    <3>4. c.wave = call[d].wave /\ c.pc = label
      BY <1>0, <3>2 DEF Call
    <3> QED BY <1>1, <3>1, <3>3, <3>4
  <2>2. \/ \E goal : Routed(d, goal)
        \/ \E via : Go(d, [call[d] EXCEPT !.via = via])
        \/ \E e : Counted(d, e)
    BY <1>4 DEF Route
  <2>3. ASSUME NEW via, Go(d, [call[d] EXCEPT !.via = via])
        PROVE  \A e \in Drivers : KnownIn(call[e])'
    <3>1. [call[d] EXCEPT !.via = via] = [call[d] EXCEPT !.via = via, !.room = call[d].room]
      BY <1>0 DEF Call
    <3> QED BY <1>2, <2>3, <3>1
  <2>4. ASSUME NEW e, Counted(d, e)
        PROVE  \A f \in Drivers : KnownIn(call[f])'
    BY <1>2, <2>4 DEF Counted
  <2> QED BY <2>1, <2>2, <2>3, <2>4
<1>7. CASE HandOver(d)
  <2>1. PICK via : via = call[d].via + 1
    OBVIOUS
  <2> QED BY <1>2, <1>7, <2>1 DEF HandOver
<1>5. CASE NextItem(d)
  <2>1. PICK cur, gates, label : /\ cur = call[d].cur + 1 /\ gates = (call[d].mode = "gates")
                                 /\ label = IF gates THEN "gate" ELSE "apply"
    OBVIOUS
  <2>2. \/ Goto(d, "finish") \/ Goto(d, "reopen") \/ Goto(d, "count")
        \/ Go(d, [call[d] EXCEPT !.pc = label, !.cur = cur, !.tries = 0])
    BY <1>5, <2>1 DEF NextItem
  <2>3. label \in {"gate", "apply"}
    BY <2>1
  <2>4. ASSUME NEW to, to \in {"finish", "reopen", "count"}, Goto(d, to)
        PROVE  \A e \in Drivers : KnownIn(call[e])'
    BY <1>0, <2>4, KnownGoto DEF Waving
  <2>5. PICK c : c = [call[d] EXCEPT !.pc = label, !.cur = cur, !.tries = 0]
    OBVIOUS
  <2>6. c.wave = call[d].wave /\ c.pc = label
    BY <1>0, <2>5 DEF Call
  <2> QED BY <1>1, <2>2, <2>3, <2>4, <2>5, <2>6
<1>6. CASE CountStep(d)
  <2>1. Goto(d, "settle") \/ Go(d, [call[d] EXCEPT !.pc = "finish", !.goal = "waiting"])
    BY <1>6 DEF CountStep
  <2>2. PICK c : c = [call[d] EXCEPT !.pc = "finish", !.goal = "waiting"]
    OBVIOUS
  <2>3. c.wave = call[d].wave /\ c.pc = "finish"
    BY <1>0, <2>2 DEF Call
  <2>4. CASE Goto(d, "settle")
    BY <1>0, <2>4, KnownGoto DEF Waving
  <2> QED BY <1>1, <2>1, <2>2, <2>3, <2>4
<1> QED BY <1>3, <1>4, <1>5, <1>6, <1>7

LEMMA KnownRepeat ==
  ASSUME CountInv, \A e \in Drivers : KnownIn(call[e]), NEW d \in Drivers, ApplyRetry(d) \/ Fresh(d)
  PROVE  \A e \in Drivers : KnownIn(call[e])'
<1>0. /\ StoreOK /\ call[d] \in Call /\ call[d].pc \in {"apply", "fresh"} /\ RowsStay
      /\ call[d].cur \in DOMAIN call[d].wave /\ Item(d) \in ItemType /\ call[d].wave \in Seq(ItemType)
  BY Known, CurrentItem, StillRows DEF ApplyRetry, Fresh, At, Waving, Call
<1>1. PICK W, k, key : /\ W = call[d].wave /\ k = call[d].cur
                       /\ key = <<Item(d).node, Item(d).index, call[d].tries>>
  OBVIOUS
<1>2. PICK V1, V2 : /\ V1 = [W EXCEPT ![k].at = "todo"]
                    /\ V2 = [W EXCEPT ![k].at = "bind", ![k].job = key]
  OBVIOUS
<1>3. W[k] \in ItemType /\ k \in DOMAIN W
  BY <1>0, <1>1 DEF Item
<1>4. ASSUME NEW V \in {V1, V2}
      PROVE  /\ DOMAIN V = DOMAIN W
             /\ \A j \in DOMAIN W : V[j].node = W[j].node /\ V[j].run = W[j].run /\ V[j].index = W[j].index
             /\ \A j \in DOMAIN W : j # k => V[j] = W[j]
             /\ V = V1 => V[k].at = "todo"
             /\ V = V2 => V[k].job = key
  <2>4. V1[k].at = "todo" /\ V2[k].job = key
    <3>1. PICK i1, i2 : /\ i1 = [W[k] EXCEPT !.at = "todo"]
                        /\ i2 = [W[k] EXCEPT !.at = "bind", !.job = key]
      OBVIOUS
    <3>2. i1.at = "todo" /\ i2.job = key
      BY <1>3, <3>1 DEF ItemType
    <3>3. V1 = [W EXCEPT ![k] = i1] /\ V2 = [W EXCEPT ![k] = i2]
      BY <1>2, <3>1
    <3> QED BY <1>3, <3>2, <3>3
  <2>1. CASE V = V1
    <3>1. PICK item : item = [W[k] EXCEPT !.at = "todo"]
      OBVIOUS
    <3>2. V = [W EXCEPT ![k] = item]
      BY <1>2, <2>1, <3>1
    <3>3. /\ item.node = W[k].node /\ item.run = W[k].run /\ item.index = W[k].index
          /\ item.at = "todo" /\ item.job = W[k].job
      BY <1>3, <3>1 DEF ItemType
    <3> QED BY <1>3, <2>1, <2>4, <3>2, <3>3
  <2>2. CASE V = V2
    <3>1. PICK item : item = [W[k] EXCEPT !.at = "bind", !.job = key]
      OBVIOUS
    <3>2. V = [W EXCEPT ![k] = item]
      BY <1>2, <2>2, <3>1
    <3>3. /\ item.node = W[k].node /\ item.run = W[k].run /\ item.index = W[k].index
          /\ item.at = "bind" /\ item.job = key
      BY <1>3, <3>1 DEF ItemType
    <3> QED BY <1>3, <2>2, <2>4, <3>2, <3>3
  <2> QED BY <2>1, <2>2
<1>5. CASE ApplyRetry(d)
  <2>1. PICK label, tries : /\ label = IF IsWorker(Item(d)) THEN "fresh" ELSE "again"
                            /\ tries = call[d].tries + 1
    OBVIOUS
  <2>2. PICK c : c = [call[d] EXCEPT !.pc = label, !.tries = tries, !.wave = V1]
    OBVIOUS
  <2>3. Go(d, c) /\ UNCHANGED jobs
    BY <1>1, <1>2, <1>5, <2>1, <2>2 DEF ApplyRetry
  <2>4. c.wave = V1 /\ c.pc \in {"fresh", "again"}
    BY <1>0, <2>1, <2>2 DEF Call
  <2>5. \A j \in DOMAIN c.wave : c.wave[j].at = "bind" => c.wave[j].job \in DOMAIN jobs'
    BY <1>1, <1>4, <2>3, <2>4 DEF KnownIn
  <2>6. Alike(c, call[d]) /\ Later(c, call[d]) /\ JobsStay
    BY <1>0, <1>1, <1>4, <2>3, <2>4 DEF Alike, Later, Waving, JobsStay
  <2> QED BY <1>0, <2>3, <2>5, <2>6, KnownAlike
<1>6. CASE Fresh(d)
  <2>2. PICK c : c = [call[d] EXCEPT !.pc = "again", !.wave = V2]
    OBVIOUS
  <2>3. Go(d, c) /\ jobs' = Created(key)
    BY <1>1, <1>2, <1>6, <2>2 DEF Fresh
  <2>4. c.wave = V2 /\ c.pc = "again"
    BY <1>0, <2>2 DEF Call
  <2>5. key \in Key
    BY <1>0, <1>1, TemplateFacts DEF Key, ItemType, StoreOK, Call
  <2>6. key \in DOMAIN jobs' /\ JobsStay
    BY <1>0, <2>3, <2>5, CreatedType DEF JobsStay
  <2>7. \A j \in DOMAIN c.wave : c.wave[j].at = "bind" => c.wave[j].job \in DOMAIN jobs'
    BY <1>1, <1>4, <2>4, <2>6 DEF KnownIn, JobsStay
  <2>8. Alike(c, call[d]) /\ Later(c, call[d])
    BY <1>0, <1>1, <1>4, <2>4 DEF Alike, Later, Waving
  <2> QED BY <1>0, <2>3, <2>6, <2>7, <2>8, KnownAlike
<1> QED BY <1>5, <1>6

LEMMA KnownOutside ==
  ASSUME CountInv, \A e \in Drivers : KnownIn(call[e]), UNCHANGED call, RowsStay, JobsStay
  PROVE  \A e \in Drivers : KnownIn(call[e])'
<1> SUFFICES ASSUME NEW e \in Drivers PROVE KnownIn(call[e])'
  OBVIOUS
<1>1. PICK b : b = call[e]
  OBVIOUS
<1>2. KnownIn(b)'
  BY <1>1, KnownKept
<1>3. call'[e] = b
  BY <1>1
<1> QED BY <1>2, <1>3

LEMMA KnownOthers ==
  ASSUME CountInv, \A e \in Drivers : KnownIn(call[e]), Reviewer \/ Recovery \/ CancelMission \/ Intervention
  PROVE  \A e \in Drivers : KnownIn(call[e])'
<1>0. StoreOK
  BY TypeParts DEF CountInv
<1>1. CASE Reviewer \/ CancelMission
  <2>1. UNCHANGED <<call, runs, jobs>>
    BY <1>1 DEF Reviewer, CancelMission, Decide, Tell
  <2> QED BY <2>1, StillRows, KnownOutside DEF JobsStay
<1>2. CASE Recovery
  <2>1. PICK j, status : jobs' = [jobs EXCEPT ![j] = status] /\ UNCHANGED <<call, runs>>
    BY <1>2 DEF Recovery, RecoverJob
  <2>2. JobsStay
    BY <2>1 DEF JobsStay
  <2> QED BY <2>1, <2>2, StillRows, KnownOutside
<1>3. CASE Intervention
  <2>1. PICK key \in Keys : Refused(key) \/ \E n \in Nodes : RetryNode(key, n) \/ CancelBranch(key, n)
    BY <1>3 DEF Intervention
  <2>2. CASE Refused(key)
    BY <2>2, StillRows, KnownOutside DEF Refused, storeVars, JobsStay
  <2>3. ASSUME NEW n \in Nodes, RetryNode(key, n)
        PROVE  \A e \in Drivers : KnownIn(call[e])'
    BY <2>3, StillRows, KnownOutside DEF RetryNode, JobsStay
  <2>4. ASSUME NEW n \in Nodes, CancelBranch(key, n)
        PROVE  \A e \in Drivers : KnownIn(call[e])'
    <3>0. PICK run : run = Skipped(n)
      OBVIOUS
    <3>1. runs' = Append(runs, run) /\ run \in Run
      BY <1>0, <2>4, <3>0, SkipRows
    <3>2. /\ DOMAIN runs' = DOMAIN runs \cup {Len(runs) + 1}
          /\ \A r \in DOMAIN runs : runs'[r] = runs[r] /\ IndexOf(r)' = IndexOf(r)
      BY <1>0, <3>1, AppendRun
    <3>3. RowsStay
      BY <3>2 DEF RowsStay
    <3> QED BY <2>4, <3>3, KnownOutside DEF CancelBranch, JobsStay
  <2> QED BY <2>1, <2>2, <2>3, <2>4
<1> QED BY <1>1, <1>2, <1>3

LEMMA KnownNext ==
  ASSUME CountInv, \A e \in Drivers : KnownIn(call[e]), Next
  PROVE  \A e \in Drivers : KnownIn(call[e])'
<1>1. ASSUME NEW d \in Drivers, Driver(d)
      PROVE  \A e \in Drivers : KnownIn(call[e])'
  BY <1>1, KnownCalls, KnownSteps, KnownRepeat, KnownScan, KnownResume, KnownPlan, KnownApply,
     KnownCreate, KnownMark, KnownThread DEF Driver
<1> QED BY <1>1, KnownCalls, KnownThread, KnownOthers DEF Next

-----------------------------------------------------------------------------
(* The base of the invariant *)

LEMMA CountDriver ==
  ASSUME BaseInv, NEW d \in Drivers, Driver(d)
  PROVE  CountInv'
<1>1. CountInv /\ KnownIn(call[d])
  BY DEF BaseInv
<1>2. CASE \E k \in DOMAIN call[d].wave : Thread(d, k)
  BY <1>1, <1>2, RunProgramCount, RunGateCount, ChooseCount, BindCount, StartJobCount, LeaseCount,
     WorkCount, ReportCount DEF Thread
<1>3. CASE ~ \E k \in DOMAIN call[d].wave : Thread(d, k)
  BY <1>1, <1>3, StartCount, WakeCount, LookCount, ScanCount, RoundsCount, PlanCount, SettleCount,
     FinishCount, EndCount, CreateRunCount, MarkRunningCount, PrepareCount, ResumeCount, CollectCount,
     ApplyWaitingCount, ApplySuccessCount, ApplyFailureCount, ApplyRetryCount, FreshCount,
     RepeatedCount, RouteCount, HandOverCount, ConsumeCount, NextItemCount, CountStepCount, ResumeGateCount,
     ReopenCount DEF Driver
<1> QED BY <1>2, <1>3

LEMMA CountOthers ==
  ASSUME CountInv, Reviewer \/ Recovery \/ CancelMission \/ Intervention
  PROVE  CountInv'
BY DecideCount, RecoverJobCount, CancelMissionCount, RefusedCount, RetryNodeCount, CancelBranchCount
   DEF Reviewer, Recovery, Intervention

LEMMA BaseStutter ==
  ASSUME BaseInv, UNCHANGED vars
  PROVE  BaseInv'
<1>1. CountInv /\ StoreOK /\ \A e \in Drivers : KnownIn(call[e])
  BY TypeParts DEF BaseInv, CountInv
<1>2. UNCHANGED <<storeVars, call, used, crashes>>
  BY DEF vars
<1>3. CountInv'
  BY <1>1, <1>2, StoreSame, RowsSame, CountOutside DEF storeVars
<1>4. RowsStay /\ JobsStay
  BY <1>2, StillRows DEF JobsStay, storeVars
<1> QED BY <1>1, <1>2, <1>3, <1>4, KnownOutside DEF BaseInv

LEMMA BaseNext ==
  ASSUME BaseInv, [Next]_vars
  PROVE  BaseInv'
<1>1. CASE Next
  <2>1. CountInv'
    <3>1. ASSUME NEW d \in Drivers, NEW k \in DOMAIN call[d].wave, TooLate(d, k)
          PROVE  CountInv'
      BY <3>1, TooLateCount DEF BaseInv
    <3>2. ASSUME NEW d \in Drivers, Crash(d)
          PROVE  CountInv'
      BY <3>2, CrashCount DEF BaseInv
    <3> QED BY <1>1, <3>1, <3>2, CountDriver, CountOthers DEF Next, BaseInv
  <2> QED BY <1>1, <2>1, KnownNext DEF BaseInv
<1>2. CASE UNCHANGED vars
  BY <1>2, BaseStutter
<1> QED BY <1>1, <1>2

LEMMA BaseInit ==
  ASSUME Init
  PROVE  BaseInv
<1>1. IsTemplate(snapshot)
  BY GraphAssumption DEF Init
<1>2. runs = <<>> /\ handoffs = <<>> /\ approvals = <<>> /\ bound = <<>>
  BY DEF Init
<1>3. GraphOK
  BY DEF Init, NewGraph, GraphOK, Goal
<1>4. JobsOK
  <2>1. PICK K : K = {<<0, c, 0>> : c \in Early}
    OBVIOUS
  <2>2. jobs = [k \in K |-> "queued"]
    BY <2>1 DEF Init
  <2>3. K \subseteq Key
    BY <2>1, GraphAssumption DEF Key
  <2> QED BY <2>2, <2>3 DEF JobsOK, JobState
<1>5. BoundOK
  BY <1>2 DEF BoundOK
<1>6. StoreOK
  BY <1>1, <1>2, <1>3, <1>4, <1>5, GraphAssumption DEF Init, StoreOK, MissionState
<1>7. \A d \in Drivers : call[d] = NoCall
  BY DEF Init
<1>8. CallsOK
  BY NoCallType DEF Init, CallsOK
<1>9. TypeOK
  BY <1>6, <1>8, TypeParts
<1>10. ASSUME NEW d \in Drivers
       PROVE  InCall(d) /\ RunsCounted(d) /\ KnownIn(call[d])
  BY <1>7 DEF InCall, RunsCounted, NoRunSince, KnownIn, BegunIn, NoCall, Waving, Limiting
<1>11. NodesWithin
  <2>1. \A n : RunsOf(n) = {}
    BY <1>2 DEF RunsOf
  <2>3. Cardinality({}) = 0
    BY FS_EmptySet
  <2>4. \A n \in Nodes : Node[n].maxRuns \in Nat
    BY <1>1, TemplateFacts DEF NodeType
  <2>6. \A n : Cardinality(RunsOf(n)) = 0
    BY <2>1, <2>3
  <2>8. \A x, y : x = 0 /\ y \in Nat => x <= y
    OBVIOUS
  <2>9. \A n \in Nodes : Cardinality(RunsOf(n)) <= Node[n].maxRuns
    BY <2>4, <2>6, <2>8
  <2> QED BY <2>9 DEF NodesWithin
<1> QED BY <1>9, <1>10, <1>11 DEF BaseInv, CountInv

LEMMA BaseHolds == Spec => []BaseInv
<1>1. Init => BaseInv
  BY BaseInit
<1>2. BaseInv /\ [Next]_vars => BaseInv'
  BY BaseNext
<1> QED BY <1>1, <1>2, PTL DEF Spec

(* Every variable keeps its type: every row refers to rows that exist and a  *)
(* waiting run knows its approval, whichever transactions of drivers,        *)
(* operators and recovery interleave and wherever drivers die.              *)
THEOREM TypeCorrect == Spec => []TypeOK
<1>1. BaseInv => TypeOK
  BY DEF BaseInv, CountInv
<1> QED BY <1>1, BaseHolds, PTL

(* No node has more runs than max_runs, though two drivers may plan from the *)
(* same rows and operators raise the bound between them: the driver that     *)
(* comes second loses the sequence number and raises (ready_nodes,           *)
(* create_graph_node_run).                                                  *)
THEOREM NodeLimitsHold == Spec => []NodesWithin
<1>1. BaseInv => NodesWithin
  BY DEF BaseInv, CountInv
<1> QED BY <1>1, BaseHolds, PTL

-----------------------------------------------------------------------------
(* What is behind the other invariants, while one driver at a time is at     *)
(* work.                                                                    *)
OneDriver == \A d, e \in Drivers : d = e

(* Nobody but the driver writes the status and the step of the graph.        *)
StatusRight(c) ==
  /\ c.pc = "wake" => graph.status = "WAITING_APPROVAL"
  /\ c.pc \in Limiting \cup {"finish"} => graph.status \notin Ended
  /\ c.pc = "complete" => graph.status = "SUCCEEDED"
  /\ c.pc = "fail" => graph.status = "FAILED"
  /\ c.goal = "succeeded" => c.pc \in {"finish", "complete"}
  /\ c.pc = "finish" /\ c.goal = "succeeded" =>
       RunsIn(ActiveRun) = {} /\ \A h \in Pending : handoffs[h].synthetic
  /\ c.pc = "rounds" => RunsIn(ActiveRun) = {} /\ RoundsUsed
  /\ c.pc \in {"scan", "plan", "create", "mark"} => c.step = graph.step
  /\ c.pc \in {"plan", "create", "mark"} => graph.step < graph.max

StatusInv ==
  BaseInv /\ SucceededMeansSettled /\ \A d \in Drivers : StatusRight(call[d])


-----------------------------------------------------------------------------
(* StatusInv *)

LEMMA OnlyCall ==
  ASSUME OneDriver, BaseInv, NEW d \in Drivers, NEW c, Go(d, c)
  PROVE  call'[d] = c /\ \A e \in Drivers : call'[e] = c
<1>1. call'[d] = c
  BY Known, GoFacts DEF BaseInv
<1>2. \A e \in Drivers : e = d
  BY DEF OneDriver
<1> QED BY <1>1, <1>2

LEMMA StatusStep ==
  ASSUME OneDriver, StatusInv, BaseInv', NEW d \in Drivers, NEW c, Go(d, c),
         StatusRight(c)', SucceededMeansSettled'
  PROVE  StatusInv'
<1>1. call'[d] = c /\ \A e \in Drivers : call'[e] = c
  BY OnlyCall DEF StatusInv
<1>2. ASSUME NEW e \in Drivers
      PROVE  StatusRight(call[e])'
  BY <1>1
<1> QED BY <1>2 DEF StatusInv

(* The mission is not completed while the graph is open.                     *)
LEMMA OpenGraph ==
  ASSUME StatusInv, graph.status # "SUCCEEDED"
  PROVE  mission # "COMPLETED"
BY DEF StatusInv, SucceededMeansSettled

(* A step inside a call that leaves the graph as it is.                      *)
LEMMA StatusWithin ==
  ASSUME OneDriver, StatusInv, BaseInv', NEW d \in Drivers, NEW c, Go(d, c),
         call[d].pc \in Limiting \cup {"finish"}, UNCHANGED graph,
         mission' = mission \/ mission' # "COMPLETED",
         c.pc \in {"idle", "finish"} \cup (Limiting \ {"rounds", "scan", "plan"}),
         c.goal # "succeeded",
         c.pc \in {"create", "mark"} => call[d].pc \in {"plan", "create", "mark"} /\ c.step = call[d].step
  PROVE  StatusInv'
<1>1. StatusRight(call[d]) /\ graph.status \notin Ended
  BY DEF StatusInv, StatusRight
<1>2. mission # "COMPLETED"
  BY <1>1, OpenGraph DEF Ended
<1>3. SucceededMeansSettled'
  BY <1>1, <1>2 DEF SucceededMeansSettled, Ended
<1>4. StatusRight(c)'
  BY <1>1 DEF StatusRight, Limiting, Waving, Ended
<1> QED BY <1>3, <1>4, StatusStep

LEMMA StatusLeave ==
  ASSUME OneDriver, StatusInv, BaseInv', NEW d \in Drivers, Return(d), SucceededMeansSettled'
  PROVE  StatusInv'
<1>1. Go(d, NoCall)
  BY Known, ReturnFacts DEF StatusInv, BaseInv
<1>2. StatusRight(NoCall)'
  BY DEF StatusRight, NoCall, Limiting, Waving
<1> QED BY <1>1, <1>2, StatusStep

(* What the rows say of a graph that succeeded stays while they do.          *)
LEMMA SettledStays ==
  ASSUME SucceededMeansSettled, UNCHANGED <<graph, snapshot, runs, handoffs>>,
         mission' = mission \/ mission' # "COMPLETED" \/ graph.status = "SUCCEEDED"
  PROVE  SucceededMeansSettled'
BY DEF SucceededMeansSettled, RunsIn, Pending, RoundsUsed, Visited, MaxRounds

LEMMA SettledSucceeded ==
  ASSUME NEW limits, Settled(limits) = "succeeded"
  PROVE  RunsIn(ActiveRun) = {} /\ Pending = {}
<1>1. RunsIn({"WAITING_APPROVAL"}) \subseteq RunsIn(ActiveRun)
  BY DEF RunsIn, ActiveRun
<1>2. RunsIn({"WAITING_APPROVAL"}) = {} /\ RunsIn(ActiveRun) = {}
  BY DEF Settled
<1> QED BY <1>2 DEF Settled

LEMMA StatusCalls ==
  ASSUME OneDriver, StatusInv, BaseInv', NEW d \in Drivers,
         Start(d) \/ Wake(d) \/ Look(d) \/ Scan(d) \/ Rounds(d)
  PROVE  StatusInv'
<1>0. /\ call[d] \in Call /\ StoreOK /\ StatusRight(call[d]) /\ SucceededMeansSettled
      /\ \A label : Goto(d, label) => Go(d, [call[d] EXCEPT !.pc = label])
  BY Known DEF StatusInv, BaseInv
<1>1. CASE Start(d)
  <2>1. PICK b1, b2 : b1 = [call[d] EXCEPT !.pc = "look"] /\ b2 = [call[d] EXCEPT !.pc = "wake"]
    OBVIOUS
  <2>2. /\ b1.pc = "look" /\ b1.goal = call[d].goal /\ b2.pc = "wake" /\ b2.goal = call[d].goal
        /\ call[d].goal # "succeeded"
    BY <1>0, <1>1, <2>1 DEF Call, StatusRight, Start, At
  <2>3. UNCHANGED <<graph, snapshot, runs, handoffs, mission>>
    BY <1>1 DEF Start, storeVars
  <2>4. SucceededMeansSettled'
    BY <1>0, <2>3, SettledStays
  <2>5. CASE Goto(d, "look")
    <3>1. Go(d, b1)
      BY <1>0, <2>1, <2>5
    <3>2. StatusRight(b1)'
      BY <2>2 DEF StatusRight, Limiting, Waving
    <3> QED BY <2>4, <3>1, <3>2, StatusStep
  <2>6. CASE graph.status = "WAITING_APPROVAL" /\ Goto(d, "wake")
    <3>1. Go(d, b2)
      BY <1>0, <2>1, <2>6
    <3>2. StatusRight(b2)'
      BY <2>2, <2>3, <2>6 DEF StatusRight, Limiting, Waving
    <3> QED BY <2>4, <3>1, <3>2, StatusStep
  <2> QED BY <1>1, <2>5, <2>6 DEF Start
<1>2. CASE Wake(d)
  <2>1. PICK c : c = [call[d] EXCEPT !.pc = "look"]
    OBVIOUS
  <2>2. c.pc = "look" /\ c.goal # "succeeded" /\ graph.status = "WAITING_APPROVAL"
    BY <1>0, <1>2, <2>1 DEF Call, StatusRight, Wake, At
  <2>3. StatusRight(c)'
    BY <2>2 DEF StatusRight, Limiting, Waving
  <2>4. graph'.status = "RUNNING" /\ mission' = mission /\ mission # "COMPLETED"
    BY <1>0, <1>2, <2>2, OpenGraph DEF Wake, StoreOK, GraphOK
  <2>5. SucceededMeansSettled'
    BY <2>4 DEF SucceededMeansSettled
  <2> QED BY <1>0, <1>2, <2>1, <2>3, <2>5, StatusStep DEF Wake
<1>3. CASE Look(d)
  <2>1. UNCHANGED <<graph, snapshot, runs, handoffs, mission>>
    BY <1>3 DEF Look, storeVars
  <2>2. SucceededMeansSettled'
    BY <1>0, <2>1, SettledStays
  <2>3. CASE Return(d)
    BY <2>2, <2>3, StatusLeave
  <2>4. CASE graph.status \notin Ended
    <3>1. PICK c : c = [call[d] EXCEPT !.pc = "scan", !.step = graph.step,
                                       !.limits = [n \in Nodes |-> Node[n].maxRuns]]
      OBVIOUS
    <3>2. Go(d, c)
      BY <1>3, <2>4, <3>1 DEF Look
    <3>3. c.pc = "scan" /\ c.step = graph.step /\ c.goal = call[d].goal
      BY <1>0, <3>1 DEF Call
    <3>4. c.goal # "succeeded"
      BY <1>0, <1>3, <3>3 DEF StatusRight, Look, At
    <3>5. StatusRight(c)'
      BY <2>1, <2>4, <3>3, <3>4 DEF StatusRight, Limiting, Waving, Ended
    <3> QED BY <2>2, <3>2, <3>5, StatusStep
  <2> QED BY <1>3, <2>3, <2>4 DEF Look
<1>4. CASE Scan(d)
  <2>0. UNCHANGED <<graph, snapshot, runs, handoffs, mission>>
    BY <1>4 DEF Scan, storeVars
  <2>1. /\ call[d].pc = "scan" /\ call[d].goal # "succeeded" /\ call[d].step = graph.step
        /\ graph.status \notin Ended
    BY <1>0, <1>4 DEF Scan, At, StatusRight, Limiting
  <2>2. SucceededMeansSettled'
    BY <1>0, <2>0, SettledStays
  <2>3. ASSUME NEW c, Go(d, c), c.goal # "succeeded", c.pc \in {"gate", "resume", "finish"}
        PROVE  StatusInv'
    BY <2>0, <2>1, <2>3, StatusWithin DEF Limiting, Waving
  <2>4. CASE RunsIn({"WAITING_APPROVAL"}) # {}
    <3>1. PICK W : Go(d, [call[d] EXCEPT !.pc = "gate", !.mode = "gates", !.cur = 1, !.wave = W])
      BY <1>4, <2>4 DEF Scan
    <3>2. PICK c : c = [call[d] EXCEPT !.pc = "gate", !.mode = "gates", !.cur = 1, !.wave = W]
      OBVIOUS
    <3>3. c.pc = "gate" /\ c.goal = call[d].goal
      BY <1>0, <3>2 DEF Call
    <3> QED BY <2>1, <2>3, <3>1, <3>2, <3>3
  <2>5. CASE RunsIn({"WAITING_APPROVAL"}) = {} /\ RunsIn({"CREATED", "RUNNING"}) # {}
    <3>1. Goto(d, "resume")
      BY <1>4, <2>5 DEF Scan
    <3>2. PICK c : c = [call[d] EXCEPT !.pc = "resume"]
      OBVIOUS
    <3>3. c.pc = "resume" /\ c.goal = call[d].goal
      BY <1>0, <3>2 DEF Call
    <3> QED BY <1>0, <2>1, <2>3, <3>1, <3>2, <3>3
  <2>6. CASE RunsIn({"WAITING_APPROVAL"}) = {} /\ RunsIn({"CREATED", "RUNNING"}) = {} /\ StepsUsed(d)
    <3>1. Go(d, [call[d] EXCEPT !.pc = "finish", !.goal = "graph_step_limit"])
      BY <1>4, <2>6 DEF Scan
    <3>2. PICK c : c = [call[d] EXCEPT !.pc = "finish", !.goal = "graph_step_limit"]
      OBVIOUS
    <3>3. c.pc = "finish" /\ c.goal = "graph_step_limit"
      BY <1>0, <3>2 DEF Call
    <3> QED BY <2>3, <3>1, <3>2, <3>3
  <2>7. CASE RunsIn({"WAITING_APPROVAL"}) = {} /\ RunsIn({"CREATED", "RUNNING"}) = {} /\ ~StepsUsed(d)
    <3>1. IF MaxRounds > 0 /\ CompletedCycles >= MaxRounds THEN Goto(d, "rounds") ELSE Goto(d, "plan")
      BY <1>4, <2>7 DEF Scan
    <3>2. PICK c1, c2 : c1 = [call[d] EXCEPT !.pc = "rounds"] /\ c2 = [call[d] EXCEPT !.pc = "plan"]
      OBVIOUS
    <3>3. /\ c1.pc = "rounds" /\ c1.goal = call[d].goal /\ c1.step = call[d].step
          /\ c2.pc = "plan" /\ c2.goal = call[d].goal /\ c2.step = call[d].step
      BY <1>0, <3>2 DEF Call
    <3>4. RunsIn(ActiveRun) = {}
      BY <2>7 DEF RunsIn, ActiveRun
    <3>5. graph.step < graph.max
      <4>1. ~(graph.step >= graph.max)
        BY <2>1, <2>7 DEF StepsUsed
      <4>2. graph.step \in Nat /\ graph.max \in Nat
        BY <1>0, GraphAssumption DEF StoreOK, GraphOK
      <4> QED BY <4>1, <4>2
    <3>6. CASE MaxRounds > 0 /\ CompletedCycles >= MaxRounds
      <4>1. RoundsUsed
        <5>1. Len(runs) \in 0 .. Len(runs)
          BY <1>0, RowFacts
        <5> QED BY <3>6, <5>1 DEF RoundsUsed, CompletedCycles
      <4>2. StatusRight(c1)
        BY <2>1, <3>3, <3>4, <4>1 DEF StatusRight, Limiting, Waving
      <4>3. StatusRight(c1)'
        BY <2>0, <4>2 DEF StatusRight, RunsIn, Pending, RoundsUsed, Visited, MaxRounds
      <4>4. Go(d, c1)
        BY <1>0, <3>1, <3>2, <3>6
      <4> QED BY <2>2, <4>3, <4>4, StatusStep
    <3>7. CASE ~(MaxRounds > 0 /\ CompletedCycles >= MaxRounds)
      <4>1. StatusRight(c2)
        BY <2>1, <3>3, <3>5 DEF StatusRight, Limiting, Waving
      <4>2. StatusRight(c2)'
        BY <2>0, <4>1 DEF StatusRight, RunsIn, Pending, RoundsUsed, Visited, MaxRounds
      <4>3. Go(d, c2)
        BY <1>0, <3>1, <3>2, <3>7
      <4> QED BY <2>2, <4>2, <4>3, StatusStep
    <3> QED BY <3>6, <3>7
  <2> QED BY <2>4, <2>5, <2>6, <2>7
<1>5. CASE Rounds(d)
  <2>1. RunsIn(ActiveRun) = {} /\ RoundsUsed
    BY <1>0, <1>5 DEF Rounds, At, StatusRight
  <2>2. UNCHANGED <<snapshot, runs, handoffs, mission>> /\ graph'.status = "SUCCEEDED" /\ Return(d)
    BY <1>0, <1>5 DEF Rounds, StoreOK, GraphOK
  <2>3. SucceededMeansSettled'
    BY <2>1, <2>2 DEF SucceededMeansSettled, RunsIn, Pending, RoundsUsed, Visited, MaxRounds
  <2> QED BY <2>2, <2>3, StatusLeave
<1> QED BY <1>1, <1>2, <1>3, <1>4, <1>5

LEMMA StatusEnds ==
  ASSUME OneDriver, StatusInv, BaseInv', NEW d \in Drivers,
         Settle(d) \/ Plan(d) \/ Finish(d) \/ CompleteMission(d) \/ FailMission(d) \/ Crash(d)
  PROVE  StatusInv'
<1>0. /\ call[d] \in Call /\ StoreOK /\ StatusRight(call[d]) /\ SucceededMeansSettled
      /\ \A label : Goto(d, label) => Go(d, [call[d] EXCEPT !.pc = label])
  BY Known DEF StatusInv, BaseInv
<1>1. ASSUME NEW limits, Go(d, [call[d] EXCEPT !.pc = "finish", !.goal = Settled(limits)]),
             call[d].pc \in Limiting, UNCHANGED <<graph, snapshot, runs, handoffs, mission>>
      PROVE  StatusInv'
  <2>1. PICK goal : goal = Settled(limits)
    OBVIOUS
  <2>2. PICK c : c = [call[d] EXCEPT !.pc = "finish", !.goal = goal]
    OBVIOUS
  <2>3. c.pc = "finish" /\ c.goal = goal
    BY <1>0, <2>2 DEF Call
  <2>4. Go(d, c)
    BY <1>1, <2>1, <2>2
  <2>5. c.goal = "succeeded" => RunsIn(ActiveRun) = {} /\ Pending = {}
    BY <2>1, <2>3, SettledSucceeded
  <2>6. graph.status \notin Ended
    BY <1>0, <1>1 DEF StatusRight
  <2>7. StatusRight(c)
    BY <2>3, <2>5, <2>6 DEF StatusRight, Limiting, Waving
  <2>8. StatusRight(c)'
    BY <1>1, <2>7 DEF StatusRight, RunsIn, Pending, RoundsUsed, Visited, MaxRounds
  <2>9. SucceededMeansSettled'
    BY <1>0, <1>1, SettledStays
  <2> QED BY <2>4, <2>8, <2>9, StatusStep
<1>2. CASE Settle(d)
  BY <1>1, <1>2 DEF Settle, storeVars, At, Limiting
<1>3. CASE Plan(d)
  <2>1. PICK limits, W, n :
          /\ limits = call[d].limits
          /\ \/ Go(d, [call[d] EXCEPT !.pc = "finish", !.goal = Settled(limits)])
             \/ Go(d, [call[d] EXCEPT !.pc = "create", !.mode = "wave", !.base = n, !.cur = 1, !.wave = W])
    BY <1>3 DEF Plan
  <2>2. UNCHANGED <<graph, snapshot, runs, handoffs, mission>> /\ call[d].pc = "plan"
    BY <1>3 DEF Plan, storeVars, At
  <2>3. PICK c : c = [call[d] EXCEPT !.pc = "create", !.mode = "wave", !.base = n, !.cur = 1, !.wave = W]
    OBVIOUS
  <2>4. c.pc = "create" /\ c.goal = call[d].goal /\ c.step = call[d].step
    BY <1>0, <2>3 DEF Call
  <2>5. c.goal # "succeeded"
    BY <1>0, <2>2, <2>4 DEF StatusRight
  <2>6. CASE Go(d, c)
    BY <2>2, <2>4, <2>5, <2>6, StatusWithin DEF Limiting, Waving
  <2> QED BY <1>1, <2>1, <2>2, <2>3, <2>6 DEF Limiting
<1>4. CASE Finish(d)
  <2>1. /\ call[d].pc = "finish" /\ graph.status \notin Ended /\ mission # "COMPLETED" /\ mission' = mission
        /\ UNCHANGED <<snapshot, runs, handoffs>>
    BY <1>0, <1>4, OpenGraph DEF Finish, At, StatusRight, Ended
  <2>2. CASE Return(d) /\ graph'.status # "SUCCEEDED"
    <3>1. SucceededMeansSettled'
      BY <2>1, <2>2 DEF SucceededMeansSettled
    <3> QED BY <2>2, <3>1, StatusLeave
  <2>3. CASE call[d].goal = "succeeded" /\ graph'.status = "SUCCEEDED" /\ Goto(d, "complete")
    <3>1. RunsIn(ActiveRun) = {} /\ \A h \in Pending : handoffs[h].synthetic
      BY <1>0, <2>1, <2>3 DEF StatusRight
    <3>2. SucceededMeansSettled'
      BY <2>1, <2>3, <3>1 DEF SucceededMeansSettled, RunsIn, Pending
    <3>3. PICK c : c = [call[d] EXCEPT !.pc = "complete"]
      OBVIOUS
    <3>4. c.pc = "complete"
      BY <1>0, <3>3 DEF Call
    <3>5. StatusRight(c)'
      BY <2>3, <3>4 DEF StatusRight, Limiting, Waving
    <3> QED BY <1>0, <2>3, <3>2, <3>3, <3>5, StatusStep
  <2>4. CASE call[d].goal # "succeeded" /\ graph'.status = "FAILED" /\ Goto(d, "fail")
    <3>1. PICK c : c = [call[d] EXCEPT !.pc = "fail"]
      OBVIOUS
    <3>2. c.pc = "fail" /\ c.goal = call[d].goal
      BY <1>0, <3>1 DEF Call
    <3>3. StatusRight(c)'
      BY <2>4, <3>2 DEF StatusRight, Limiting, Waving
    <3>4. SucceededMeansSettled'
      BY <2>1, <2>4 DEF SucceededMeansSettled
    <3> QED BY <1>0, <2>4, <3>1, <3>3, <3>4, StatusStep
  <2>5. ASSUME NEW status, NEW code, graph' = [graph EXCEPT !.status = status, !.code = code]
        PROVE  graph'.status = status
    BY <1>0, <2>5 DEF StoreOK, GraphOK
  <2>6. PICK goal : goal = call[d].goal
    OBVIOUS
  <2>7. \/ goal = "waiting" /\ graph'.status = "WAITING_APPROVAL" /\ Return(d)
        \/ goal \in {"active", "ready"} /\ graph'.status = "RUNNING" /\ Return(d)
        \/ goal = "succeeded" /\ graph'.status = "SUCCEEDED" /\ Goto(d, "complete")
        \/ goal # "succeeded" /\ graph'.status = "FAILED" /\ Goto(d, "fail")
    BY <1>4, <2>5, <2>6 DEF Finish
  <2> QED BY <2>2, <2>3, <2>4, <2>6, <2>7
<1>5. CASE CompleteMission(d)
  <2>1. graph.status = "SUCCEEDED" /\ UNCHANGED <<graph, snapshot, runs, handoffs>> /\ Return(d)
    BY <1>0, <1>5 DEF CompleteMission, At, StatusRight
  <2>2. SucceededMeansSettled'
    BY <1>0, <2>1, SettledStays
  <2> QED BY <2>1, <2>2, StatusLeave
<1>6. CASE FailMission(d)
  <2>1. /\ mission' = mission \/ mission' # "COMPLETED"
        /\ UNCHANGED <<graph, snapshot, runs, handoffs>> /\ Return(d)
    BY <1>6 DEF FailMission
  <2>2. SucceededMeansSettled'
    BY <1>0, <2>1, SettledStays
  <2> QED BY <2>1, <2>2, StatusLeave
<1>7. CASE Crash(d)
  <2>1. UNCHANGED <<graph, snapshot, runs, handoffs, mission>> /\ Return(d)
    BY <1>7 DEF Crash, storeVars
  <2>2. SucceededMeansSettled'
    BY <1>0, <2>1, SettledStays
  <2> QED BY <2>1, <2>2, StatusLeave
<1> QED BY <1>2, <1>3, <1>4, <1>5, <1>6, <1>7

(* The steps of a call that neither look at the status of the graph nor      *)
(* write it: where they lead.                                                *)
LEMMA WaveLeads ==
  ASSUME BaseInv, NEW d \in Drivers,
         \/ CreateRun(d) \/ MarkRunning(d) \/ Prepare(d) \/ Resume(d) \/ Collect(d)
         \/ ApplyWaiting(d) \/ ApplySuccess(d) \/ ApplyFailure(d) \/ ApplyRetry(d) \/ Fresh(d)
         \/ Repeated(d) \/ Route(d) \/ HandOver(d) \/ Consume(d) \/ NextItem(d) \/ ResumeGate(d)
  PROVE  \/ Return(d)
         \/ \E c : /\ Go(d, c) /\ c.step = call[d].step
                   /\ c.goal \in {call[d].goal, "active", "waiting", "unhandled_node_outcome",
                                  "edge_traversal_limit"}
                   /\ c.pc \in {"finish", "reopen"} \cup Waving
                   /\ c.pc \in {"create", "mark"} => call[d].pc \in {"create", "mark"}
<1>0. call[d] \in Call /\ \A label : Goto(d, label) => Go(d, [call[d] EXCEPT !.pc = label])
  BY Known DEF BaseInv
<1> DEFINE Leads ==
      \E c : /\ Go(d, c) /\ c.step = call[d].step
             /\ c.goal \in {call[d].goal, "active", "waiting", "unhandled_node_outcome",
                            "edge_traversal_limit"}
             /\ c.pc \in {"finish", "reopen"} \cup Waving
             /\ c.pc \in {"create", "mark"} => call[d].pc \in {"create", "mark"}
<1>1. ASSUME NEW label \in {"finish", "reopen"} \cup Waving, Goto(d, label),
             label \in {"create", "mark"} => call[d].pc \in {"create", "mark"}
      PROVE  Leads
  <2>1. PICK c : c = [call[d] EXCEPT !.pc = label]
    OBVIOUS
  <2>2. c.pc = label /\ c.goal = call[d].goal /\ c.step = call[d].step
    BY <1>0, <2>1 DEF Call
  <2> QED BY <1>0, <1>1, <2>1, <2>2
<1>2. ASSUME NEW label \in {"finish", "reopen"} \cup Waving,
             label \in {"create", "mark"} => call[d].pc \in {"create", "mark"},
             NEW goal \in {"active", "waiting", "unhandled_node_outcome", "edge_traversal_limit"},
             NEW mode, NEW wave, NEW cur, NEW via, NEW tries,
             \/ Go(d, [call[d] EXCEPT !.pc = label, !.goal = goal])
             \/ Go(d, [call[d] EXCEPT !.pc = label, !.wave = wave])
             \/ Go(d, [call[d] EXCEPT !.pc = label, !.cur = cur])
             \/ Go(d, [call[d] EXCEPT !.pc = label, !.via = via])
             \/ Go(d, [call[d] EXCEPT !.pc = label, !.cur = cur, !.tries = tries])
             \/ Go(d, [call[d] EXCEPT !.pc = label, !.tries = tries, !.wave = wave])
             \/ Go(d, [call[d] EXCEPT !.pc = label, !.mode = mode, !.cur = cur, !.wave = wave])
      PROVE  Leads
  <2>1. PICK c1, c2, c3, c4, c5, c6, c7 :
          /\ c1 = [call[d] EXCEPT !.pc = label, !.goal = goal]
          /\ c2 = [call[d] EXCEPT !.pc = label, !.wave = wave]
          /\ c3 = [call[d] EXCEPT !.pc = label, !.cur = cur]
          /\ c4 = [call[d] EXCEPT !.pc = label, !.via = via]
          /\ c5 = [call[d] EXCEPT !.pc = label, !.cur = cur, !.tries = tries]
          /\ c6 = [call[d] EXCEPT !.pc = label, !.tries = tries, !.wave = wave]
          /\ c7 = [call[d] EXCEPT !.pc = label, !.mode = mode, !.cur = cur, !.wave = wave]
    OBVIOUS
  <2>2. \A c \in {c1, c2, c3, c4, c5, c6, c7} :
          c.pc = label /\ c.goal \in {call[d].goal, goal} /\ c.step = call[d].step
    BY <1>0, <2>1 DEF Call
  <2>3. Go(d, c1) \/ Go(d, c2) \/ Go(d, c3) \/ Go(d, c4) \/ Go(d, c5) \/ Go(d, c6) \/ Go(d, c7)
    BY <1>2, <2>1
  <2> QED BY <1>2, <2>2, <2>3
<1> HIDE DEF Leads
<1>3. CASE CreateRun(d)
  <2>1. Return(d) \/ \E wave : Go(d, [call[d] EXCEPT !.pc = "mark", !.wave = wave])
    BY <1>3 DEF CreateRun
  <2>2. call[d].pc = "create"
    BY <1>3 DEF CreateRun, At
  <2> QED BY <1>2, <2>1, <2>2 DEF Waving, Leads
<1>4. CASE MarkRunning(d)
  <2>1. Goto(d, "prepare") \/ \E cur : Go(d, [call[d] EXCEPT !.pc = "create", !.cur = cur])
    BY <1>4 DEF MarkRunning
  <2>2. call[d].pc = "mark"
    BY <1>4 DEF MarkRunning, At
  <2> QED BY <1>1, <1>2, <2>1, <2>2 DEF Waving, Leads
<1>5. CASE Prepare(d) \/ Repeated(d) \/ Consume(d) \/ ApplyWaiting(d)
  <2>1. Return(d) \/ Goto(d, "execute") \/ Goto(d, "apply") \/ Goto(d, "next") \/ Goto(d, "consume")
    BY <1>5 DEF Prepare, Repeated, Consume, ApplyWaiting
  <2> QED BY <1>1, <2>1 DEF Waving, Leads
<1>6. CASE Resume(d)
  <2>1. \/ Go(d, [call[d] EXCEPT !.pc = "finish", !.goal = "active"])
        \/ \E wave : Go(d, [call[d] EXCEPT !.pc = "execute", !.mode = "resumed", !.cur = 1, !.wave = wave])
    BY <1>6 DEF Resume
  <2> QED BY <1>2, <2>1 DEF Waving, Leads
<1>7. CASE Collect(d)
  <2>1. Go(d, [call[d] EXCEPT !.pc = "apply", !.cur = 1])
    BY <1>7 DEF Collect
  <2> QED BY <1>2, <2>1 DEF Waving, Leads
<1>8. CASE ApplySuccess(d) \/ ApplyFailure(d) \/ ResumeGate(d)
  <2>1. \/ Go(d, [call[d] EXCEPT !.pc = "route", !.via = 1])
        \/ Go(d, [call[d] EXCEPT !.pc = "consume", !.goal = "unhandled_node_outcome"])
        \/ Go(d, [call[d] EXCEPT !.pc = "finish", !.goal = "unhandled_node_outcome"])
        \/ Go(d, [call[d] EXCEPT !.pc = "finish", !.goal = "waiting"])
    BY <1>8 DEF ApplySuccess, ApplyFailure, ResumeGate
  <2> QED BY <1>2, <2>1 DEF Waving, Leads
<1>9. CASE ApplyRetry(d)
  <2>1. \E label \in {"fresh", "again"} : \E tries, wave :
          Go(d, [call[d] EXCEPT !.pc = label, !.tries = tries, !.wave = wave])
    BY <1>9 DEF ApplyRetry
  <2> QED BY <1>2, <2>1 DEF Waving, Leads
<1>10. CASE Fresh(d)
  <2>1. \E wave : Go(d, [call[d] EXCEPT !.pc = "again", !.wave = wave])
    BY <1>10 DEF Fresh
  <2> QED BY <1>2, <2>1 DEF Waving, Leads
<1>11. CASE Route(d) \/ HandOver(d)
  <2>0. call[d].pc = "route"
    BY <1>11 DEF Route, HandOver, At
  <2>a. ASSUME NEW c, c.pc = "route", c.goal = call[d].goal, c.step = call[d].step, Go(d, c)
        PROVE  Leads
    BY <2>0, <2>a DEF Leads, Waving
  <2>1. ASSUME NEW via, NEW room, \/ Go(d, [call[d] EXCEPT !.via = via])
                                \/ Go(d, [call[d] EXCEPT !.via = via, !.room = room])
        PROVE  Leads
    <3>1. PICK c1, c2 : /\ c1 = [call[d] EXCEPT !.via = via]
                        /\ c2 = [call[d] EXCEPT !.via = via, !.room = room]
      OBVIOUS
    <3>2. /\ c1.pc = "route" /\ c1.goal = call[d].goal /\ c1.step = call[d].step
          /\ c2.pc = "route" /\ c2.goal = call[d].goal /\ c2.step = call[d].step
      BY <1>0, <2>0, <3>1 DEF Call
    <3>3. Go(d, c1) \/ Go(d, c2)
      BY <2>1, <3>1
    <3> QED BY <2>a, <3>2, <3>3
  <2>2. ASSUME NEW goal \in {call[d].goal, "edge_traversal_limit"}, Routed(d, goal)
        PROVE  Leads
    <3>1. PICK label \in {"next", "consume"} : Go(d, [call[d] EXCEPT !.pc = label, !.goal = goal])
      BY <2>2 DEF Routed
    <3>2. PICK c : c = [call[d] EXCEPT !.pc = label, !.goal = goal]
      OBVIOUS
    <3>3. c.pc = label /\ c.goal = goal /\ c.step = call[d].step
      BY <1>0, <3>2 DEF Call
    <3> QED BY <2>2, <3>1, <3>2, <3>3 DEF Leads, Waving
  <2>3. \/ \E via : Go(d, [call[d] EXCEPT !.via = via])
        \/ \E via, room : Go(d, [call[d] EXCEPT !.via = via, !.room = room])
        \/ \E goal \in {call[d].goal, "edge_traversal_limit"} : Routed(d, goal)
    BY <1>11 DEF Route, HandOver, Counted
  <2> QED BY <2>1, <2>2, <2>3 DEF Leads
<1>12. CASE NextItem(d)
  <2>1. PICK gates, to, next, cur :
          /\ gates = (call[d].mode = "gates") /\ cur = call[d].cur + 1
          /\ to = IF gates THEN "gate" ELSE "apply"
          /\ next = IF gates THEN "reopen" ELSE "count"
    OBVIOUS
  <2>2. \/ Goto(d, "finish") \/ Goto(d, next)
        \/ Go(d, [call[d] EXCEPT !.pc = to, !.cur = cur, !.tries = 0])
    BY <1>12, <2>1 DEF NextItem
  <2>3. to \in {"gate", "apply"} /\ next \in {"reopen", "count"}
    BY <2>1
  <2> QED BY <1>1, <1>2, <2>2, <2>3 DEF Waving, Leads
<1> QED BY <1>3, <1>4, <1>5, <1>6, <1>7, <1>8, <1>9, <1>10, <1>11, <1>12 DEF Leads

LEMMA StatusReturn ==
  ASSUME OneDriver, StatusInv, BaseInv', NEW d \in Drivers, Return(d),
         call[d].pc \in Limiting, UNCHANGED graph, mission' = mission \/ mission' # "COMPLETED"
  PROVE  StatusInv'
<1>1. Go(d, NoCall)
  BY Known, ReturnFacts DEF StatusInv, BaseInv
<1>2. NoCall.pc = "idle" /\ NoCall.goal # "succeeded"
  BY DEF NoCall
<1> QED BY <1>1, <1>2, StatusWithin

LEMMA StatusWave ==
  ASSUME OneDriver, StatusInv, BaseInv', NEW d \in Drivers,
         \/ CreateRun(d) \/ MarkRunning(d) \/ Prepare(d) \/ Resume(d) \/ Collect(d)
         \/ ApplyWaiting(d) \/ ApplySuccess(d) \/ ApplyFailure(d) \/ ApplyRetry(d) \/ Fresh(d)
         \/ Repeated(d) \/ Route(d) \/ HandOver(d) \/ Consume(d) \/ NextItem(d) \/ ResumeGate(d)
  PROVE  StatusInv'
<1>0. BaseInv /\ StatusRight(call[d])
  BY DEF StatusInv
<1>1. UNCHANGED graph /\ (mission' = mission \/ mission' # "COMPLETED")
  BY DEF CreateRun, MarkRunning, Prepare, Resume, Collect, ApplyWaiting, ApplySuccess, ApplyFailure,
     ApplyRetry, Fresh, Repeated, Route, HandOver, Consume, NextItem, ResumeGate, storeVars, ToWorker
<1>2. call[d].pc \in Limiting
  BY DEF CreateRun, MarkRunning, Prepare, Resume, Collect, ApplyWaiting, ApplySuccess, ApplyFailure,
     ApplyRetry, Fresh, Repeated, Route, HandOver, Consume, NextItem, ResumeGate, At, Limiting, Waving
<1>3. call[d].goal # "succeeded"
  BY <1>0, <1>2 DEF StatusRight, Limiting, Waving
<1>4. CASE Return(d)
  BY <1>1, <1>2, <1>4, StatusReturn
<1>5. CASE \E c : /\ Go(d, c) /\ c.step = call[d].step
                  /\ c.goal \in {call[d].goal, "active", "waiting", "unhandled_node_outcome",
                                 "edge_traversal_limit"}
                  /\ c.pc \in {"finish", "reopen"} \cup Waving
                  /\ c.pc \in {"create", "mark"} => call[d].pc \in {"create", "mark"}
  <2>1. PICK c : /\ Go(d, c) /\ c.step = call[d].step
                 /\ c.goal \in {call[d].goal, "active", "waiting", "unhandled_node_outcome",
                                "edge_traversal_limit"}
                 /\ c.pc \in {"finish", "reopen"} \cup Waving
                 /\ c.pc \in {"create", "mark"} => call[d].pc \in {"create", "mark"}
    BY <1>5
  <2>2. c.goal # "succeeded"
    BY <1>3, <2>1
  <2>3. c.pc \in {"idle", "finish"} \cup (Limiting \ {"rounds", "scan", "plan"})
    BY <2>1 DEF Limiting, Waving
  <2> QED BY <1>1, <1>2, <2>1, <2>2, <2>3, StatusWithin
<1> QED BY <1>0, <1>4, <1>5, WaveLeads

LEMMA StatusThread ==
  ASSUME OneDriver, StatusInv, BaseInv', NEW d \in Drivers, NEW k \in DOMAIN call[d].wave,
         Thread(d, k) \/ TooLate(d, k)
  PROVE  StatusInv'
<1>0. BaseInv /\ StatusRight(call[d]) /\ TypeOK
  BY Known DEF StatusInv, BaseInv
<1>1. UNCHANGED graph /\ (mission' = mission \/ mission' # "COMPLETED")
  BY DEF Thread, TooLate, RunProgram, RunGate, Choose, Bind, StartJob, Lease, Work, Report, storeVars,
     ToWorker
<1>2. call[d].pc \in {"execute", "again"}
  BY ExecutingAt
     DEF Thread, TooLate, RunProgram, RunGate, Choose, Bind, StartJob, Lease, Work, Report, At
<1>3. call[d].goal # "succeeded"
  BY <1>0, <1>2 DEF StatusRight
<1>4. Return(d) \/ \E item : Set(d, k, item)
  BY DEF Thread, TooLate, RunProgram, RunGate, Choose, Bind, StartJob, Lease, Work, Report, Refuse,
     Answers, Moves
<1>5. CASE Return(d)
  BY <1>1, <1>2, <1>5, StatusReturn DEF Limiting, Waving
<1>6. ASSUME NEW item, Set(d, k, item)
      PROVE  StatusInv'
  <2>1. PICK c : Go(d, c) /\ c.pc = call[d].pc /\ c.goal = call[d].goal
    BY <1>0, <1>6, SetFacts
  <2> QED BY <1>1, <1>2, <1>3, <2>1, StatusWithin DEF Limiting, Waving
<1> QED BY <1>4, <1>5, <1>6

LEMMA StatusCounts ==
  ASSUME OneDriver, StatusInv, BaseInv', NEW d \in Drivers, CountStep(d) \/ Reopen(d)
  PROVE  StatusInv'
<1>0. /\ call[d] \in Call /\ StoreOK /\ StatusRight(call[d])
      /\ \A label : Goto(d, label) => Go(d, [call[d] EXCEPT !.pc = label])
  BY Known DEF StatusInv, BaseInv
<1>1. /\ call[d].pc \in {"count", "reopen"} /\ graph.status \notin Ended /\ call[d].goal # "succeeded"
      /\ mission' = mission
  BY <1>0 DEF CountStep, Reopen, At, StatusRight, Limiting, Waving
<1>2. graph'.status \notin Ended
  BY <1>0, <1>1 DEF CountStep, Reopen, StoreOK, GraphOK, Ended
<1>3. SucceededMeansSettled'
  BY <1>1, <1>2, OpenGraph DEF SucceededMeansSettled, Ended
<1>4. PICK c1, c2 : /\ c1 = [call[d] EXCEPT !.pc = "finish", !.goal = "waiting"]
                    /\ c2 = [call[d] EXCEPT !.pc = "settle"]
  OBVIOUS
<1>5. /\ c1.pc = "finish" /\ c1.goal = "waiting" /\ c2.pc = "settle" /\ c2.goal = call[d].goal
  BY <1>0, <1>4 DEF Call
<1>6. StatusRight(c1)' /\ StatusRight(c2)'
  BY <1>1, <1>2, <1>5 DEF StatusRight, Limiting, Waving
<1>7. Go(d, c1) \/ Go(d, c2)
  BY <1>0, <1>4 DEF CountStep, Reopen
<1> QED BY <1>3, <1>6, <1>7, StatusStep

LEMMA StatusDriver ==
  ASSUME OneDriver, StatusInv, BaseInv', NEW d \in Drivers, Driver(d)
  PROVE  StatusInv'
BY StatusCalls, StatusEnds, StatusWave, StatusThread, StatusCounts DEF Driver

LEMMA BaseStore == BaseInv => StoreOK
BY TypeParts DEF BaseInv, CountInv

LEMMA BaseStoreNext == BaseInv' => StoreOK'
BY BaseStore, PTL

(* The steps of others while a driver is at work.                            *)
LEMMA StatusOutside ==
  ASSUME StatusInv, BaseInv', UNCHANGED <<graph, call>>, MaxRounds' = MaxRounds, RowsStay,
         mission' = mission \/ mission' # "COMPLETED",
         DOMAIN runs \subseteq DOMAIN runs', Len(runs') >= Len(runs),
         RunsIn(ActiveRun)' = RunsIn(ActiveRun),
         (\A h \in Pending : handoffs[h].synthetic) => \A h \in Pending' : handoffs'[h].synthetic
  PROVE  StatusInv'
<1>0. Len(runs) \in Nat /\ Len(runs') \in Nat /\ DOMAIN runs = 1 .. Len(runs)
  <2>1. StoreOK
    BY TypeParts DEF StatusInv, BaseInv, CountInv
  <2>2. StoreOK'
    BY BaseStoreNext
  <2>3. runs' \in Seq(Run')
    BY <2>2 DEF StoreOK
  <2> QED BY <2>1, <2>3, RowFacts
<1>1. RoundsUsed => RoundsUsed'
  <2>1. ASSUME NEW k \in 0 .. Len(runs)
        PROVE  Visited(k)' = Visited(k)
    <3>1. \A r \in 1 .. k : r \in DOMAIN runs
      BY <1>0
    <3>2. \A r \in 1 .. k : runs'[r].node = runs[r].node
      BY <3>1 DEF RowsStay
    <3> QED BY <3>2 DEF Visited
  <2>2. \A k \in 0 .. Len(runs) : k \in 0 .. Len(runs')
    BY <1>0
  <2>3. ASSUME NEW k \in 0 .. Len(runs), Cycles(Visited(k)) >= MaxRounds
        PROVE  k \in 0 .. Len(runs') /\ Cycles(Visited(k)') >= MaxRounds'
    BY <2>1, <2>2, <2>3
  <2> QED BY <2>3 DEF RoundsUsed
<1>2. SucceededMeansSettled'
  BY <1>1 DEF SucceededMeansSettled, StatusInv
<1>3. \A e \in Drivers : StatusRight(call[e])'
  BY <1>1 DEF StatusRight, StatusInv
<1> QED BY <1>2, <1>3 DEF StatusInv

(* What the interventions do to the rows.                                    *)
Rehanded(n, branch) ==
  /\ branch \subseteq Pending /\ runs[Latest(n)].status = "FAILED"
  /\ \A h \in branch : h \in DOMAIN handoffs /\ handoffs[h].source = Latest(n)
  /\ Added(branch, 0)

LEMMA RetryEffect ==
  ASSUME StoreOK, NEW key, NEW n \in Nodes, RetryNode(key, n)
  PROVE  \E branch : Rehanded(n, branch)
<1>1. PICK branch, extra :
        /\ RetryHands(n, branch, extra)
        /\ branch \subseteq Pending
        /\ \A h \in branch : h \in DOMAIN handoffs /\ handoffs[h].source = Latest(n)
        /\ runs[Latest(n)].status = "FAILED"
  BY RetryRows, Zenon
<1>2. PICK m \in Nat : handoffs' = Taken(branch, 0) \o extra /\ Extra(extra, m)
  BY <1>1 DEF RetryHands, Extra
<1>3. Added(branch, 0)
  BY <1>2, AddSynthetic
<1>4. Rehanded(n, branch)
  BY <1>1, <1>3 DEF Rehanded
<1> QED BY <1>4

Passed(n) ==
  /\ runs' = Append(runs, Skipped(n)) /\ Skipped(n) \in Run /\ RunsOf(n) = {}
  /\ Len(runs') = Len(runs) + 1 /\ DOMAIN runs' = DOMAIN runs \cup {Len(runs) + 1}
  /\ runs'[Len(runs) + 1] = Skipped(n) /\ Len(runs) + 1 \notin DOMAIN runs
  /\ \A r \in DOMAIN runs : runs'[r] = runs[r] /\ IndexOf(r)' = IndexOf(r)
  /\ RowsStay
  /\ Added(PendingTo(n), Len(runs) + 1)

LEMMA SkipEffect ==
  ASSUME StoreOK, NEW key, NEW n \in Nodes, CancelBranch(key, n)
  PROVE  Passed(n)
<1>0. PICK run : run = Skipped(n)
  OBVIOUS
<1>1. runs' = Append(runs, run) /\ run \in Run /\ RunsOf(n) = {}
  BY <1>0, SkipRows, Zenon
<1>a. Len(runs) \in Nat /\ DOMAIN runs = 1 .. Len(runs)
  BY RowFacts
<1>2. PICK extra : \E m \in Nat :
        /\ handoffs' = Taken(PendingTo(n), Len(runs) + 1) \o extra
        /\ DOMAIN extra = 1 .. m /\ extra = [i \in 1 .. m |-> extra[i]]
        /\ \A i \in 1 .. m :
             /\ extra[i] \in Handoff /\ extra[i].synthetic = TRUE
             /\ extra[i].status = "PENDING" /\ extra[i].by = 0
  BY SkipRows, Zenon
<1>3. PICK m \in Nat, by \in Nat :
        /\ by = Len(runs) + 1 /\ handoffs' = Taken(PendingTo(n), by) \o extra
        /\ Extra(extra, m)
  BY <1>2, <1>a DEF Extra
<1>4. Added(PendingTo(n), by)
  BY <1>3, AddSynthetic
<1>6. /\ Len(runs') = Len(runs) + 1 /\ DOMAIN runs' = DOMAIN runs \cup {Len(runs) + 1}
      /\ runs'[Len(runs) + 1] = run /\ Len(runs) + 1 \notin DOMAIN runs
      /\ \A r \in DOMAIN runs : runs'[r] = runs[r] /\ IndexOf(r)' = IndexOf(r)
  BY <1>1, <1>a, AppendRun
<1>7. RowsStay
  BY <1>6 DEF RowsStay
<1> QED BY <1>0, <1>1, <1>3, <1>4, <1>6, <1>7 DEF Passed

LEMMA StatusOthers ==
  ASSUME OneDriver, StatusInv, BaseInv', Reviewer \/ Recovery \/ CancelMission \/ Intervention
  PROVE  StatusInv'
<1>0. StoreOK /\ Len(runs) \in Nat /\ BaseInv
  BY BaseStore, RowFacts DEF StatusInv
<1>1. ASSUME UNCHANGED <<graph, snapshot, runs, handoffs, call>>,
             mission' = mission \/ mission' # "COMPLETED"
      PROVE  StatusInv'
  <2>1. RowsStay
    BY <1>1, StillRows
  <2>2. /\ MaxRounds' = MaxRounds /\ DOMAIN runs \subseteq DOMAIN runs' /\ Len(runs') >= Len(runs)
        /\ RunsIn(ActiveRun)' = RunsIn(ActiveRun)
        /\ (\A h \in Pending : handoffs[h].synthetic) => \A h \in Pending' : handoffs'[h].synthetic
    BY <1>0, <1>1 DEF MaxRounds, RunsIn, Pending
  <2> QED BY <1>1, <2>1, <2>2, StatusOutside
<1>2. CASE Reviewer \/ Recovery \/ CancelMission
  <2>1. UNCHANGED <<graph, snapshot, runs, handoffs, call>>
    BY <1>2 DEF Reviewer, Recovery, CancelMission, Decide, Tell, RecoverJob
  <2>2. mission' = mission \/ mission' # "COMPLETED"
    BY <1>2 DEF Reviewer, Recovery, CancelMission, Decide, Tell, RecoverJob
  <2> QED BY <1>1, <2>1, <2>2
<1>3. ASSUME NEW key \in Keys, Refused(key)
      PROVE  StatusInv'
  BY <1>1, <1>3 DEF Refused, storeVars
<1>4. ASSUME NEW key \in Keys, NEW n \in Nodes, RetryNode(key, n)
      PROVE  StatusInv'
  <2>1. UNCHANGED <<graph, runs, mission, call>>
    BY <1>4 DEF RetryNode
  <2>2. MaxRounds' = MaxRounds /\ RowsStay
    BY <1>0, <1>4, <2>1, RetryTemplate, StillRows
  <2>3. RunsIn(ActiveRun)' = RunsIn(ActiveRun) /\ Len(runs') >= Len(runs)
    BY <1>0, <2>1 DEF RunsIn
  <2>4. PICK branch : Rehanded(n, branch)
    BY <1>0, <1>4, RetryEffect
  <2>5. \A h \in Pending' : h \in Pending \/ handoffs'[h].synthetic
    BY <2>4 DEF Rehanded, Added, Pending
  <2>6. \A h \in Pending : handoffs'[h].synthetic = handoffs[h].synthetic
    BY <2>4 DEF Rehanded, Added, Pending
  <2> QED BY <2>1, <2>2, <2>3, <2>5, <2>6, StatusOutside
<1>5. ASSUME NEW key \in Keys, NEW n \in Nodes, CancelBranch(key, n)
      PROVE  StatusInv'
  <2>1. UNCHANGED <<graph, snapshot, mission, call>>
    BY <1>5 DEF CancelBranch
  <2>2. Passed(n)
    BY <1>0, <1>5, SkipEffect
  <2>3. /\ RowsStay /\ DOMAIN runs \subseteq DOMAIN runs' /\ Len(runs') >= Len(runs)
    BY <1>0, <2>2 DEF Passed
  <2>4. Skipped(n).status = "SKIPPED"
    BY DEF Skipped
  <2>5. RunsIn(ActiveRun)' = RunsIn(ActiveRun)
    BY <2>2, <2>4 DEF Passed, RunsIn, ActiveRun
  <2>6. \A h \in Pending' : h \in Pending \/ handoffs'[h].synthetic
    BY <2>2 DEF Passed, Added, Pending
  <2>7. \A h \in Pending : handoffs'[h].synthetic = handoffs[h].synthetic
    BY <2>2 DEF Passed, Added, Pending
  <2>8. MaxRounds' = MaxRounds
    BY <2>1 DEF MaxRounds
  <2> QED BY <2>1, <2>3, <2>5, <2>6, <2>7, <2>8, StatusOutside
<1> QED BY <1>2, <1>3, <1>4, <1>5 DEF Intervention

LEMMA StatusNext ==
  ASSUME OneDriver, StatusInv, [Next]_vars
  PROVE  StatusInv'
<1>0. BaseInv'
  BY BaseNext DEF StatusInv
<1>1. CASE Next
  BY <1>0, <1>1, StatusDriver, StatusEnds, StatusThread, StatusOthers DEF Next
<1>2. CASE UNCHANGED vars
  BY <1>0, <1>2 DEF vars, storeVars, StatusInv, SucceededMeansSettled, StatusRight, RunsIn, Pending,
     RoundsUsed, Visited, MaxRounds
<1> QED BY <1>1, <1>2

LEMMA StatusInit ==
  ASSUME Init
  PROVE  StatusInv
<1>1. BaseInv
  BY BaseInit
<1>2. graph.status = "RUNNING" /\ mission = "CREATED" /\ \A d \in Drivers : call[d] = NoCall
  BY DEF Init, NewGraph
<1>3. SucceededMeansSettled
  BY <1>2 DEF SucceededMeansSettled
<1>4. \A d \in Drivers : StatusRight(call[d])
  BY <1>2 DEF StatusRight, NoCall, Limiting, Waving
<1> QED BY <1>1, <1>3, <1>4 DEF StatusInv

LEMMA StatusHolds == ASSUME OneDriver PROVE Spec => []StatusInv
<1>1. Init => StatusInv
  BY StatusInit
<1>2. StatusInv /\ [Next]_vars => StatusInv'
  BY StatusNext
<1> QED BY <1>1, <1>2, PTL DEF Spec

(* A graph is only ever declared a success when nothing is left to do: no    *)
(* node run is active and no handoff waits but those an intervention has     *)
(* left, unless the rounds were used up; and a mission is completed only     *)
(* behind such a graph, though the two are written in two transactions, the  *)
(* driver may die between them and operators intervene in between            *)
(* (_settle_graph, _complete_mission, intervene_graph).                      *)
THEOREM SuccessIsSettled == ASSUME OneDriver PROVE Spec => []SucceededMeansSettled
<1>1. StatusInv => SucceededMeansSettled
  BY DEF StatusInv
<1> QED BY <1>1, StatusHolds, PTL

NoRunBegins ==
  graph.step >= graph.max /\ runs' # runs =>
    \/ DOMAIN runs' = DOMAIN runs
    \/ runs'[Len(runs')].status = "SKIPPED"

LEMMA OnlyCreated ==
  ASSUME BaseInv, Next,
         ~ \E d \in Drivers : CreateRun(d),
         ~ \E key \in Keys : \E n \in Nodes : CancelBranch(key, n)
  PROVE  DOMAIN runs' = DOMAIN runs
<1>1. ASSUME NEW d \in Drivers, Driver(d)
      PROVE  DOMAIN runs' = DOMAIN runs
  <2>1. CASE \/ MarkRunning(d) \/ ApplyWaiting(d) \/ ApplySuccess(d) \/ ApplyFailure(d) \/ ResumeGate(d)
    BY <2>1 DEF MarkRunning, ApplyWaiting, ApplySuccess, ApplyFailure, ResumeGate, Complete
  <2>2. CASE ~(MarkRunning(d) \/ ApplyWaiting(d) \/ ApplySuccess(d) \/ ApplyFailure(d) \/ ResumeGate(d))
    BY <1>1, <2>2 DEF Driver, Start, Wake, Look, Scan, Rounds, Plan, Settle, Finish, CompleteMission,
       FailMission, Prepare, Resume, Collect, ApplyRetry, Fresh, Repeated, Route, HandOver, Consume, NextItem,
       CountStep, Reopen, Thread, RunProgram, RunGate, Choose, Bind, StartJob, Lease, Work, Report,
       storeVars
  <2> QED BY <2>1, <2>2
<1>2. CASE \E d \in Drivers : Crash(d) \/ \E k \in DOMAIN call[d].wave : TooLate(d, k)
  BY <1>2 DEF Crash, TooLate, storeVars
<1>3. CASE Reviewer \/ Recovery \/ CancelMission
  BY <1>3 DEF Reviewer, Recovery, CancelMission, Decide, Tell, RecoverJob
<1>4. CASE Intervention
  BY <1>4 DEF Intervention, Refused, RetryNode, storeVars
<1> QED BY <1>1, <1>2, <1>3, <1>4 DEF Next

LEMMA StepLimit ==
  ASSUME StatusInv, Next
  PROVE  NoRunBegins
<1>0. StoreOK /\ BaseInv
  BY BaseStore DEF StatusInv
<1>1. CASE \E d \in Drivers : CreateRun(d)
  <2>1. PICK d \in Drivers : call[d].pc = "create"
    BY <1>1 DEF CreateRun, At
  <2>2. graph.step < graph.max
    BY <2>1 DEF StatusInv, StatusRight
  <2>3. graph.step \in Nat /\ graph.max \in Nat
    BY <1>0, GraphAssumption DEF StoreOK, GraphOK
  <2> QED BY <2>2, <2>3 DEF NoRunBegins
<1>2. CASE \E key \in Keys : \E n \in Nodes : CancelBranch(key, n)
  <2>1. PICK key \in Keys, n \in Nodes : CancelBranch(key, n)
    BY <1>2
  <2>2. runs'[Len(runs')] = Skipped(n)
    BY <1>0, <2>1, SkipEffect DEF Passed
  <2> QED BY <2>2 DEF NoRunBegins, Skipped
<1>3. CASE /\ ~ \E d \in Drivers : CreateRun(d)
           /\ ~ \E key \in Keys : \E n \in Nodes : CancelBranch(key, n)
  BY <1>0, <1>3, OnlyCreated DEF NoRunBegins
<1> QED BY <1>1, <1>2, <1>3

(* Once max_steps waves are counted no node run begins any more: the limit   *)
(* is looked at when a wave is planned, its runs are created one by one and   *)
(* only later is the wave counted, a wave resumed in parts more than once;    *)
(* the driver is the only one that counts (advance_graph).                    *)
THEOREM StepsAreBounded == ASSUME OneDriver PROVE Spec => NoStepBeyond
<1>1. StatusInv /\ [Next]_vars => [NoRunBegins]_vars
  BY StepLimit
<1>2. Spec => []StatusInv
  BY StatusHolds
<1>3. StatusInv /\ [Next]_vars =>
        [graph.step >= graph.max /\ runs' # runs =>
           \/ DOMAIN runs' = DOMAIN runs
           \/ runs'[Len(runs')].status = "SKIPPED"]_vars
  BY <1>1 DEF NoRunBegins
<1> QED BY <1>2, <1>3, PTL DEF Spec, NoStepBeyond

(* The items of a call that are still to be applied, whose runs nobody else  *)
(* ends, and those that have no run yet; as long as no run was created       *)
(* behind the driver's back, nothing has become of what it has read.        *)
Ahead(c) ==
  {k \in BegunIn(c) : \/ c.pc \in {"create", "mark", "prepare", "execute"}
                      \/ c.pc \in {"apply", "again", "fresh", "gate"} /\ k >= c.cur
                      \/ k > c.cur}
Unmade(c) ==
  IF c.pc \in {"create", "mark"}
    THEN {k \in DOMAIN c.wave : k > c.cur \/ (c.pc = "create" /\ k = c.cur)} ELSE {}
Unseen(c) ==
  \/ c.pc = "create" /\ Len(runs) + 1 = c.base + c.cur
  \/ c.pc = "mark" /\ Len(runs) = c.base + c.cur
Current(c) == c.wave[c.cur]
Undone == {"CREATED", "RUNNING"}

(* A run is ended once, by the call that has it ahead; who sends handoffs has *)
(* ended, and goes over its edges in their order.                            *)
ItemsRight(c) ==
  /\ \A k \in Ahead(c) :
       runs[c.wave[k].run].status \in IF c.mode = "gates" THEN {"WAITING_APPROVAL"} ELSE Undone
  /\ c.pc \in {"route", "consume"} => runs[Current(c).run].status \notin Undone
  /\ c.pc = "route" =>
       /\ runs[Current(c).run].status \in TerminalRun
       /\ \A h \in DOMAIN handoffs :
            ~handoffs[h].synthetic /\ handoffs[h].source = Current(c).run => handoffs[h].edge < c.via
SentRight ==
  \A h \in DOMAIN handoffs : ~handoffs[h].synthetic =>
    handoffs[h].source \in DOMAIN runs /\ runs[handoffs[h].source].status \in TerminalRun

RouteInv ==
  BaseInv /\ SentRight /\ RoutedOnce /\ \A d \in Drivers : ItemsRight(call[d])


-----------------------------------------------------------------------------
(* What a step of a driver does to the runs and the handoffs: its call is b   *)
(* before the step and c after it.                                          *)

Still == UNCHANGED <<snapshot, runs, handoffs>>
SameItems(c, b) ==
  /\ Alike(c, b) /\ c.mode = b.mode
  /\ \A k \in DOMAIN b.wave : c.wave[k].inputs = b.wave[k].inputs

(* The call ends or is between two waves.                                    *)
Calm(d, c) == Go(d, c) /\ Still /\ c.pc \notin Waving

(* It goes on inside a wave whose runs are there.                            *)
Inside(d, b, c) ==
  /\ Go(d, c) /\ Still /\ SameItems(c, b)
  /\ b.pc \in Waving \ {"create", "mark"} /\ c.pc \in Waving \ {"create", "mark"}
  /\ Ahead(c) \subseteq Ahead(b)
  /\ c.pc \in {"route", "consume"} => b.pc = "route" /\ c.cur = b.cur /\ c.via >= b.via

(* It starts on the gates that wait, on new runs, or on runs that were left.  *)
Gates(d, c) ==
  /\ Go(d, c) /\ Still /\ c.pc = "gate" /\ c.mode = "gates"
  /\ \A k \in DOMAIN c.wave : LET r == c.wave[k].run IN
       /\ r \in RunsIn({"WAITING_APPROVAL"})
       /\ c.wave[k] = WaveItem(runs[r].node, r, IndexOf(r), {}, runs[r].approval, "done", "none")
Begins(d, c) ==
  /\ Go(d, c) /\ Still /\ c.pc = "create" /\ c.mode = "wave" /\ c.cur = 1 /\ c.base = Len(runs)
  /\ \A k \in DOMAIN c.wave : LET item == c.wave[k] IN
       /\ item.node \in ReadyNodes(c.limits) /\ item.inputs = PendingTo(item.node)
       /\ item.at = "todo" /\ item.out = "none"
Left(r) ==
  WaveItem(runs[r].node, r, IndexOf(r), PendingTo(runs[r].node), 0, "todo", "none")
Resumes(d, c) ==
  /\ Go(d, c) /\ Still /\ c.pc = "execute" /\ c.mode = "resumed"
  /\ \A k \in DOMAIN c.wave : \E r \in Resumable :
       c.wave[k] = IF jobs[JobOf(r)] = "queued" THEN Left(r) ELSE Persisted(Left(r), jobs[JobOf(r)])

(* The rows of the runs are written one by one.                              *)
SameButRun(c, b) ==
  /\ c.mode = b.mode /\ c.base = b.base /\ c.cur = b.cur /\ DOMAIN c.wave = DOMAIN b.wave
  /\ \A k \in DOMAIN b.wave : k # b.cur => c.wave[k] = b.wave[k]
  /\ c.wave[b.cur] = [Current(b) EXCEPT !.run = Len(runs) + 1]
Creates(d, b, c) ==
  /\ Go(d, c) /\ UNCHANGED <<snapshot, handoffs>> /\ b.pc = "create" /\ c.pc = "mark"
  /\ Len(runs) + 1 = b.base + b.cur
  /\ runs' = Append(runs, [node |-> Current(b).node, status |-> "CREATED", out |-> "none",
                           input |-> Current(b).approval, approval |-> 0])
  /\ SameButRun(c, b)
Marks(d, b, c) ==
  /\ Go(d, c) /\ UNCHANGED <<snapshot, handoffs>> /\ b.pc = "mark"
  /\ runs' = [runs EXCEPT ![Current(b).run].status = "RUNNING"]
  /\ c.wave = b.wave /\ c.mode = b.mode /\ c.base = b.base
  /\ \/ c.pc = "create" /\ c.cur = b.cur + 1
     \/ c.pc = "prepare" /\ b.cur >= Len(b.wave)

(* A run is ended, its handoffs are sent one by one, its inputs are taken.    *)
Judged(b, status, out, approval) ==
  LET item == Current(b) IN
  \/ /\ b.pc = "apply" /\ item.out = "waiting"
     /\ status = "WAITING_APPROVAL" /\ out = "waiting" /\ approval = item.approval
  \/ /\ b.pc = "apply" /\ item.out \in Successes
     /\ status = "SUCCEEDED" /\ out = item.out /\ approval = Kept(item)
  \/ /\ b.pc = "apply" /\ item.out \in Failures
     /\ status \in {"SKIPPED", "FAILED"} /\ out \in {"skipped", "failed", item.out}
     /\ approval = Given(item)
  \/ /\ b.pc = "gate" /\ out = Answer(item.approval) /\ out # "waiting"
     /\ status \in {"SUCCEEDED", "FAILED"} /\ approval = item.approval
Ends(d, b, c, status, out, approval) ==
  /\ Go(d, c) /\ UNCHANGED <<snapshot, handoffs>> /\ Judged(b, status, out, approval)
  /\ Complete(Current(b).run, status, out, approval)
  /\ c.wave = b.wave /\ c.mode = b.mode /\ c.cur = b.cur /\ ~c.room
  /\ \/ status \in TerminalRun /\ c.pc = "route" /\ c.via = 1
     \/ c.pc = "consume" /\ b.pc = "apply"
     \/ c.pc = "finish"
Sends(d, b, c) ==
  /\ Go(d, c) /\ UNCHANGED <<snapshot, runs>> /\ b.pc = "route" /\ c.pc = "route"
  /\ c.wave = b.wave /\ c.mode = b.mode /\ c.cur = b.cur
  /\ \E row \in Handoff :
       /\ handoffs' = Append(handoffs, row)
       /\ row.source = Current(b).run /\ row.edge >= b.via /\ c.via = row.edge + 1
       /\ row.status = "PENDING" /\ row.by = 0 /\ row.synthetic = FALSE
Takes(d, b, c) ==
  /\ Go(d, c) /\ UNCHANGED <<snapshot, runs>> /\ b.pc = "consume" /\ c.pc = "next"
  /\ c.wave = b.wave /\ c.mode = b.mode /\ c.cur = b.cur
  /\ Current(b).inputs \subseteq Pending
  /\ handoffs' = Taken(Current(b).inputs, Current(b).run)

Shape(d, b, c) ==
  \/ Calm(d, c) \/ Inside(d, b, c) \/ Gates(d, c) \/ Begins(d, c) \/ Resumes(d, c)
  \/ Creates(d, b, c) \/ Marks(d, b, c) \/ Sends(d, b, c) \/ Takes(d, b, c)
  \/ \E status \in TerminalRun \cup {"WAITING_APPROVAL"}, out \in Outcome \cup {"skipped"},
        approval \in Asked :
       /\ status = "WAITING_APPROVAL" => approval # 0
       /\ Ends(d, b, c, status, out, approval)

LEMMA CalmReturn ==
  ASSUME BaseInv, NEW d \in Drivers, Return(d), Still
  PROVE  Calm(d, NoCall)
<1>1. Go(d, NoCall)
  BY Known, ReturnFacts DEF BaseInv
<1> QED BY <1>1 DEF Calm, NoCall, Waving

LEMMA CalmGoto ==
  ASSUME BaseInv, NEW d \in Drivers, NEW label, Goto(d, label), Still, label \notin Waving
  PROVE  \E c : Calm(d, c)
<1>1. PICK c : c = [call[d] EXCEPT !.pc = label]
  OBVIOUS
<1>2. Go(d, c) /\ c.pc = label
  BY <1>1, Known DEF BaseInv, Call, Goto
<1> QED BY <1>2 DEF Calm

LEMMA InsideSet ==
  ASSUME BaseInv, NEW d \in Drivers, NEW k \in DOMAIN call[d].wave, NEW b, b = call[d],
         NEW item, Set(d, k, item), Still, b.pc \in {"execute", "again"},
         item.node = b.wave[k].node, item.run = b.wave[k].run, item.index = b.wave[k].index,
         item.inputs = b.wave[k].inputs
  PROVE  \E c : Inside(d, b, c)
<1> DEFINE c == [call[d] EXCEPT !.wave = [call[d].wave EXCEPT ![k] = item]]
<1>1. TypeOK
  BY Known DEF BaseInv
<1>2. /\ Go(d, c) /\ c.pc = b.pc /\ c.mode = b.mode /\ c.cur = b.cur
      /\ DOMAIN c.wave = DOMAIN b.wave /\ c.wave[k] = item
      /\ \A j \in DOMAIN b.wave : j # k => c.wave[j] = b.wave[j]
  BY <1>1, SetFacts
<1> HIDE DEF c
<1>3. SameItems(c, b)
  BY <1>2 DEF SameItems, Alike
<1>4. Ahead(c) \subseteq Ahead(b)
  BY <1>2 DEF Ahead, BegunIn, Waving
<1> QED BY <1>2, <1>3, <1>4 DEF Inside, Waving

LEMMA ThreadShape ==
  ASSUME BaseInv, NEW d \in Drivers, NEW k \in DOMAIN call[d].wave, NEW b, b = call[d],
         Thread(d, k) \/ TooLate(d, k)
  PROVE  \E c : Shape(d, b, c)
<1>0. PICK item : item = call[d].wave[k]
  OBVIOUS
<1>1. Still
  BY DEF Thread, TooLate, RunProgram, RunGate, Choose, Bind, StartJob, Lease, Work, Report, storeVars, Still
<1>2. item \in ItemType /\ b.pc \in {"execute", "again"}
  BY <1>0, Known, ItemFacts, ExecutingAt
     DEF Thread, TooLate, RunProgram, RunGate, Choose, Bind, StartJob, Lease, Work, Report, At, BaseInv
<1>3. ASSUME NEW next, Set(d, k, next), next.inputs = item.inputs,
             next.node = item.node, next.run = item.run, next.index = item.index
      PROVE  \E c : Shape(d, b, c)
  BY <1>0, <1>1, <1>2, <1>3, InsideSet DEF Shape
<1>4. ASSUME NEW out, Answers(d, k, out)
      PROVE  \E c : Shape(d, b, c)
  <2>1. PICK next : next = [item EXCEPT !.at = "done", !.out = out]
    OBVIOUS
  <2>2. next.node = item.node /\ next.run = item.run /\ next.index = item.index /\ next.inputs = item.inputs
    BY <1>2, <2>1 DEF ItemType
  <2> QED BY <1>0, <1>3, <1>4, <2>1, <2>2 DEF Answers
<1>5. ASSUME NEW at, Moves(d, k, at)
      PROVE  \E c : Shape(d, b, c)
  <2>1. PICK next : next = [item EXCEPT !.at = at]
    OBVIOUS
  <2>2. next.node = item.node /\ next.run = item.run /\ next.index = item.index /\ next.inputs = item.inputs
    BY <1>2, <2>1 DEF ItemType
  <2> QED BY <1>0, <1>3, <1>5, <2>1, <2>2 DEF Moves
<1>6. ASSUME Refuse(d, k)
      PROVE  \E c : Shape(d, b, c)
  <2>1. CASE Return(d)
    BY <1>1, <2>1, CalmReturn DEF Shape
  <2>2. CASE Answers(d, k, "failed")
    BY <1>4, <2>2
  <2> QED BY <1>6, <2>1, <2>2 DEF Refuse
<1>8. CASE RunGate(d, k)
  <2>2. PICK next : next = [item EXCEPT !.at = "done", !.out = "waiting", !.approval = Len(approvals) + 1]
    OBVIOUS
  <2>3. next.node = item.node /\ next.run = item.run /\ next.index = item.index /\ next.inputs = item.inputs
    BY <1>2, <2>2 DEF ItemType
  <2>4. (\E out : Answers(d, k, out)) \/ Set(d, k, next)
    BY <1>0, <1>8, <2>2 DEF RunGate
  <2> QED BY <1>3, <1>4, <2>3, <2>4
<1>9. CASE Choose(d, k)
  <2>2. \E at, key : Set(d, k, [item EXCEPT !.at = at, !.job = key])
    BY <1>0, <1>9 DEF Choose
  <2>1. PICK at, key : Set(d, k, [item EXCEPT !.at = at, !.job = key])
    BY <2>2
  <2>3. PICK next : next = [item EXCEPT !.at = at, !.job = key]
    OBVIOUS
  <2>4. next.node = item.node /\ next.run = item.run /\ next.index = item.index /\ next.inputs = item.inputs
    BY <1>2, <2>3 DEF ItemType
  <2> QED BY <1>3, <2>1, <2>3, <2>4
<1>10. CASE Bind(d, k) \/ StartJob(d, k) \/ Lease(d, k) \/ Report(d, k) \/ RunProgram(d, k)
  <2>1. (\E out : Answers(d, k, out)) \/ (\E at : Moves(d, k, at)) \/ Refuse(d, k)
    BY <1>10 DEF Bind, StartJob, Lease, Report, RunProgram
  <2> QED BY <1>4, <1>5, <1>6, <2>1
<1>13. CASE Work(d, k)
  <2>2. (\E out : Answers(d, k, out)) \/ \E out : Set(d, k, [item EXCEPT !.at = "report", !.out = out])
    BY <1>0, <1>13 DEF Work
  <2>3. ASSUME NEW out, Set(d, k, [item EXCEPT !.at = "report", !.out = out])
        PROVE  \E c : Shape(d, b, c)
    <3>1. PICK next : next = [item EXCEPT !.at = "report", !.out = out]
      OBVIOUS
    <3>2. next.node = item.node /\ next.run = item.run /\ next.index = item.index /\ next.inputs = item.inputs
      BY <1>2, <3>1 DEF ItemType
    <3> QED BY <1>3, <2>3, <3>1, <3>2
  <2> QED BY <1>4, <2>2, <2>3
<1>15. CASE TooLate(d, k)
  <2>2. PICK next : next = [item EXCEPT !.out = "failed"]
    OBVIOUS
  <2>3. next.node = item.node /\ next.run = item.run /\ next.index = item.index /\ next.inputs = item.inputs
    BY <1>2, <2>2 DEF ItemType
  <2>4. Set(d, k, next)
    BY <1>0, <1>15, <2>2 DEF TooLate
  <2> QED BY <1>3, <2>3, <2>4
<1> QED BY <1>8, <1>9, <1>10, <1>13, <1>15 DEF Thread

LEMMA CallShape ==
  ASSUME BaseInv, NEW d \in Drivers, NEW b, b = call[d],
         \/ Start(d) \/ Wake(d) \/ Look(d) \/ Rounds(d) \/ Settle(d) \/ Finish(d)
         \/ CompleteMission(d) \/ FailMission(d) \/ Reopen(d) \/ Crash(d)
  PROVE  \E c : Shape(d, b, c)
<1>0. Still /\ call[d] \in Call
  BY Known DEF Start, Wake, Look, Rounds, Settle, Finish, CompleteMission, FailMission, Reopen, Crash,
     storeVars, Still, BaseInv
<1>1. CASE Return(d)
  BY <1>0, <1>1, CalmReturn DEF Shape
<1>2. ASSUME NEW label \in {"look", "wake", "complete", "fail", "settle"}, Goto(d, label)
      PROVE  \E c : Shape(d, b, c)
  BY <1>0, <1>2, CalmGoto DEF Shape, Waving
<1>3. CASE Look(d)
  <2>1. PICK c : c = [call[d] EXCEPT !.pc = "scan", !.step = graph.step,
                                     !.limits = [n \in Nodes |-> Node[n].maxRuns]]
    OBVIOUS
  <2>2. Return(d) \/ Go(d, c)
    BY <1>3, <2>1 DEF Look
  <2>3. c.pc = "scan"
    BY <1>0, <2>1 DEF Call
  <2>4. Go(d, c) => Calm(d, c)
    BY <1>0, <2>3 DEF Calm, Waving
  <2> QED BY <1>1, <2>2, <2>4 DEF Shape
<1>4. CASE Settle(d)
  <2>1. PICK c : c = [call[d] EXCEPT !.pc = "finish", !.goal = Settled(call[d].limits)]
    OBVIOUS
  <2>2. Go(d, c)
    BY <1>4, <2>1 DEF Settle
  <2>3. c.pc = "finish"
    BY <1>0, <2>1 DEF Call
  <2> QED BY <1>0, <2>2, <2>3 DEF Calm, Shape, Waving
<1>5. CASE \/ Start(d) \/ Wake(d) \/ Rounds(d) \/ Finish(d) \/ CompleteMission(d) \/ FailMission(d)
           \/ Reopen(d) \/ Crash(d)
  <2>1. Return(d) \/ \E label \in {"look", "wake", "complete", "fail", "settle"} : Goto(d, label)
    BY <1>5 DEF Start, Wake, Rounds, Finish, CompleteMission, FailMission, Reopen, Crash
  <2> QED BY <1>1, <1>2, <2>1
<1> QED BY <1>3, <1>4, <1>5

(* A move inside a wave that leaves its items alone.                         *)
LEMMA InsideMove ==
  ASSUME BaseInv, NEW d \in Drivers, NEW b, b = call[d], NEW c, Go(d, c), Still,
         c.wave = b.wave, c.mode = b.mode,
         \/ b.pc = "prepare" /\ c.pc = "execute"
         \/ b.pc = "execute" /\ c.pc = "apply"
         \/ b.pc = "again" /\ c.pc = "apply" /\ c.cur = b.cur
         \/ b.pc = "next" /\ c.pc \in {"apply", "gate"} /\ c.cur = b.cur + 1
         \/ b.pc = "next" /\ c.pc = "count" /\ c.cur = b.cur
         \/ b.pc = "route" /\ c.pc \in {"route", "consume", "next"} /\ c.cur = b.cur /\ c.via >= b.via
  PROVE  Inside(d, b, c)
<1>1. SameItems(c, b)
  BY DEF SameItems, Alike
<1>2. /\ b.pc \in Waving \ {"create", "mark"} /\ c.pc \in Waving \ {"create", "mark"}
      /\ c.pc \in {"route", "consume"} => b.pc = "route" /\ c.cur = b.cur /\ c.via >= b.via
  BY DEF Waving
<1>3. BegunIn(c) = DOMAIN b.wave /\ BegunIn(b) = DOMAIN b.wave
  BY <1>2 DEF BegunIn
<1>4. call[d] \in Call
  BY Known DEF BaseInv
<1>5. DOMAIN b.wave \subseteq Nat /\ b.cur \in Nat
  BY <1>4 DEF Call
<1>6. Ahead(c) \subseteq Ahead(b)
  <2>1. CASE b.pc \in {"prepare", "execute"}
    BY <1>3, <2>1 DEF Ahead
  <2>2. CASE b.pc \in {"again", "next", "route"}
    <3> SUFFICES ASSUME NEW k \in DOMAIN b.wave, k \in Ahead(c)
                 PROVE  k \in Ahead(b)
      BY <1>3 DEF Ahead
    <3>1. k \in Nat
      BY <1>5
    <3> QED BY <1>3, <1>5, <2>2, <3>1 DEF Ahead
  <2> QED BY <2>1, <2>2
<1> QED BY <1>1, <1>2, <1>6 DEF Inside

LEMMA MoveShape ==
  ASSUME BaseInv, NEW d \in Drivers, NEW b, b = call[d],
         Prepare(d) \/ Repeated(d) \/ Collect(d) \/ NextItem(d) \/ CountStep(d)
  PROVE  \E c : Shape(d, b, c)
<1>0. Still /\ call[d] \in Call
  BY Known DEF Prepare, Repeated, Collect, NextItem, CountStep, storeVars, Still, BaseInv
<1>1. ASSUME NEW label \in {"execute", "apply", "count"}, Goto(d, label),
             \/ b.pc = "prepare" /\ label = "execute"
             \/ b.pc = "again" /\ label = "apply"
             \/ b.pc = "next" /\ label = "count"
      PROVE  \E c : Shape(d, b, c)
  <2>1. PICK c : c = [call[d] EXCEPT !.pc = label]
    OBVIOUS
  <2>2. c.wave = b.wave /\ c.mode = b.mode /\ c.pc = label /\ c.cur = b.cur
    BY <1>0, <2>1 DEF Call
  <2>3. Go(d, c)
    BY <1>1, <2>1 DEF Goto
  <2>4. Inside(d, b, c)
    BY <1>0, <1>1, <2>2, <2>3, InsideMove
  <2> QED BY <2>4 DEF Shape
<1>2. ASSUME NEW label \in {"finish", "reopen", "settle"}, Goto(d, label)
      PROVE  \E c : Shape(d, b, c)
  BY <1>0, <1>2, CalmGoto DEF Shape, Waving
<1>3. CASE Prepare(d) \/ Repeated(d)
  BY <1>1, <1>3 DEF Prepare, Repeated, At
<1>4. CASE Collect(d)
  <2>1. PICK c : c = [call[d] EXCEPT !.pc = "apply", !.cur = 1]
    OBVIOUS
  <2>2. c.wave = b.wave /\ c.mode = b.mode /\ c.pc = "apply"
    BY <1>0, <2>1 DEF Call
  <2>3. Go(d, c) /\ b.pc = "execute"
    BY <1>4, <2>1 DEF Collect, At
  <2>4. Inside(d, b, c)
    BY <1>0, <2>2, <2>3, InsideMove
  <2> QED BY <2>4 DEF Shape
<1>5. CASE NextItem(d)
  <2>1. PICK cur, label : /\ cur = call[d].cur + 1
                          /\ label = IF call[d].mode = "gates" THEN "gate" ELSE "apply"
    OBVIOUS
  <2>2. PICK c : c = [call[d] EXCEPT !.pc = label, !.cur = cur, !.tries = 0]
    OBVIOUS
  <2>3. \/ Goto(d, "finish") \/ Goto(d, "reopen") \/ Goto(d, "count") \/ Go(d, c)
    BY <1>5, <2>1, <2>2 DEF NextItem
  <2>4. c.wave = b.wave /\ c.mode = b.mode /\ c.pc = label /\ c.cur = cur
    BY <1>0, <2>2 DEF Call
  <2>5. label \in {"gate", "apply"} /\ b.pc = "next"
    BY <1>5, <2>1 DEF NextItem, At
  <2>6. Go(d, c) => Inside(d, b, c)
    BY <1>0, <2>1, <2>4, <2>5, InsideMove
  <2> QED BY <1>1, <1>2, <2>3, <2>5, <2>6 DEF Shape
<1>6. CASE CountStep(d)
  <2>1. PICK c : c = [call[d] EXCEPT !.pc = "finish", !.goal = "waiting"]
    OBVIOUS
  <2>2. Goto(d, "settle") \/ Go(d, c)
    BY <1>6, <2>1 DEF CountStep
  <2>3. c.pc = "finish"
    BY <1>0, <2>1 DEF Call
  <2>4. Go(d, c) => Calm(d, c)
    BY <1>0, <2>3 DEF Calm, Waving
  <2> QED BY <1>2, <2>2, <2>4 DEF Shape
<1> QED BY <1>3, <1>4, <1>5, <1>6

(* One item of the wave is written anew, with the same run and inputs.       *)
LEMMA RepeatShape ==
  ASSUME BaseInv, NEW d \in Drivers, NEW b, b = call[d], ApplyRetry(d) \/ Fresh(d)
  PROVE  \E c : Inside(d, b, c)
<1>0. /\ Still /\ call[d] \in Call /\ b.pc \in {"apply", "fresh"} /\ b.wave \in Seq(ItemType)
      /\ b.cur \in DOMAIN b.wave /\ b.cur \in Nat /\ Item(d) \in ItemType
  BY Known, CurrentItem DEF ApplyRetry, Fresh, At, Waving, Call, Still, BaseInv
<1>1. PICK W, k, key, tries, label :
        /\ W = b.wave /\ k = b.cur /\ key = <<Item(d).node, Item(d).index, call[d].tries>>
        /\ label = IF Fresh(d) THEN "again" ELSE IF IsWorker(Item(d)) THEN "fresh" ELSE "again"
        /\ tries = IF Fresh(d) THEN call[d].tries ELSE call[d].tries + 1
  OBVIOUS
<1>2. PICK item : item = IF Fresh(d) THEN [W[k] EXCEPT !.at = "bind", !.job = key]
                                     ELSE [W[k] EXCEPT !.at = "todo"]
  OBVIOUS
<1>3. W[k] \in ItemType
  BY <1>0, <1>1 DEF Item
<1>4. item.node = W[k].node /\ item.run = W[k].run /\ item.index = W[k].index /\ item.inputs = W[k].inputs
  BY <1>2, <1>3 DEF ItemType
<1>5. PICK V : V = [W EXCEPT ![k] = item]
  OBVIOUS
<1>6. PICK c : c = IF Fresh(d) THEN [call[d] EXCEPT !.pc = label, !.wave = V]
                   ELSE [call[d] EXCEPT !.pc = label, !.tries = tries, !.wave = V]
  OBVIOUS
<1>7. c.pc = label /\ c.wave = V /\ c.mode = b.mode /\ c.cur = b.cur
  BY <1>0, <1>6 DEF Call
<1>8. Go(d, c)
  <2>1. CASE Fresh(d)
    <3>1. V = [call[d].wave EXCEPT ![call[d].cur].at = "bind", ![call[d].cur].job = key]
      BY <1>0, <1>1, <1>2, <1>3, <1>5, <2>1
    <3> QED BY <1>1, <1>6, <2>1, <3>1 DEF Fresh
  <2>2. CASE ApplyRetry(d) /\ ~Fresh(d)
    <3>1. V = [call[d].wave EXCEPT ![call[d].cur].at = "todo"]
      BY <1>1, <1>2, <1>5, <2>2
    <3> QED BY <1>1, <1>6, <2>2, <3>1 DEF ApplyRetry
  <2> QED BY <2>1, <2>2
<1>9. SameItems(c, b)
  BY <1>0, <1>1, <1>4, <1>5, <1>7 DEF SameItems, Alike
<1>10. label \in {"fresh", "again"}
  BY <1>1
<1>11. Ahead(c) \subseteq Ahead(b)
  <2>1. BegunIn(c) = DOMAIN b.wave /\ BegunIn(b) = DOMAIN b.wave
    BY <1>0, <1>7, <1>9, <1>10 DEF BegunIn, Waving, SameItems, Alike
  <2> QED BY <1>0, <1>7, <1>10, <2>1 DEF Ahead
<1> QED BY <1>0, <1>7, <1>8, <1>9, <1>10, <1>11 DEF Inside, Waving

LEMMA ScanShape ==
  ASSUME BaseInv, NEW d \in Drivers, NEW b, b = call[d], Scan(d)
  PROVE  \E c : Shape(d, b, c)
<1>0. StoreOK /\ call[d] \in Call /\ Still
  BY Known DEF Scan, storeVars, Still, BaseInv
<1>1. CASE RunsIn({"WAITING_APPROVAL"}) # {}
  <2>1. PICK S : S = RunsIn({"WAITING_APPROVAL"})
    OBVIOUS
  <2>2. PICK W : W = [i \in DOMAIN InOrder(S) |->
                        WaveItem(runs[InOrder(S)[i]].node, InOrder(S)[i], IndexOf(InOrder(S)[i]), {},
                                 runs[InOrder(S)[i]].approval, "done", "none")]
    OBVIOUS
  <2>3. PICK c : c = [call[d] EXCEPT !.pc = "gate", !.mode = "gates", !.cur = 1, !.wave = W]
    OBVIOUS
  <2>4. Go(d, c)
    BY <1>1, <2>1, <2>2, <2>3 DEF Scan
  <2>5. c.wave = W /\ c.pc = "gate" /\ c.mode = "gates"
    BY <1>0, <2>3 DEF Call
  <2>6. S \in SUBSET Nat /\ IsFiniteSet(S)
    BY <1>0, <2>1, RowFacts
  <2>7. \A i \in DOMAIN InOrder(S) : InOrder(S)[i] \in S
    BY <2>6, InOrderProps
  <2>8. \A i \in DOMAIN W : LET r == W[i].run IN
          r \in S /\ W[i] = WaveItem(runs[r].node, r, IndexOf(r), {}, runs[r].approval, "done", "none")
    BY <2>2, <2>7 DEF WaveItem
  <2> QED BY <1>0, <2>1, <2>4, <2>5, <2>8 DEF Gates, Shape
<1>2. CASE RunsIn({"WAITING_APPROVAL"}) = {}
  <2>1. ASSUME NEW label \in {"resume", "rounds", "plan"}, Goto(d, label)
        PROVE  \E c : Shape(d, b, c)
    BY <1>0, <2>1, CalmGoto DEF Shape, Waving
  <2>2. PICK c : c = [call[d] EXCEPT !.pc = "finish", !.goal = "graph_step_limit"]
    OBVIOUS
  <2>3. Go(d, c) => Calm(d, c)
    BY <1>0, <2>2 DEF Call, Calm, Waving
  <2>4. Go(d, c) \/ \E label \in {"resume", "rounds", "plan"} : Goto(d, label)
    BY <1>2, <2>2 DEF Scan
  <2> QED BY <2>1, <2>3, <2>4 DEF Shape
<1> QED BY <1>1, <1>2

LEMMA PlanShape ==
  ASSUME BaseInv, NEW d \in Drivers, NEW b, b = call[d], Plan(d)
  PROVE  \E c : Shape(d, b, c)
<1>0. StoreOK /\ call[d] \in Call /\ Still
  BY Known DEF Plan, storeVars, Still, BaseInv
<1>1. PICK L, order : L = call[d].limits /\ order = InOrder(ReadyNodes(L))
  OBVIOUS
<1>2. PICK W : W = [i \in DOMAIN order |->
                      WaveItem(order[i], 0, Cardinality(RunsOf(order[i])) + 1, PendingTo(order[i]),
                               Merged(PendingTo(order[i])), "todo", "none")]
  OBVIOUS
<1>3. CASE order = <<>>
  <2>1. PICK c : c = [call[d] EXCEPT !.pc = "finish", !.goal = Settled(L)]
    OBVIOUS
  <2>2. Go(d, c)
    BY <1>1, <1>3, <2>1 DEF Plan
  <2>3. c.pc = "finish"
    BY <1>0, <2>1 DEF Call
  <2> QED BY <1>0, <2>2, <2>3 DEF Calm, Shape, Waving
<1>4. CASE order # <<>>
  <2>1. PICK c : c = [call[d] EXCEPT !.pc = "create", !.mode = "wave", !.base = Len(runs),
                                     !.cur = 1, !.wave = W]
    OBVIOUS
  <2>2. Go(d, c)
    BY <1>1, <1>2, <1>4, <2>1 DEF Plan
  <2>3. c.wave = W /\ c.pc = "create" /\ c.cur = 1 /\ c.mode = "wave" /\ c.base = Len(runs) /\ c.limits = L
    BY <1>0, <1>1, <2>1 DEF Call
  <2>4. ReadyNodes(L) \in SUBSET Nat /\ IsFiniteSet(ReadyNodes(L))
    <3>1. ReadyNodes(L) \in SUBSET Nodes
      BY DEF ReadyNodes
    <3> QED BY <1>0, <3>1, TemplateFacts, FS_Subset DEF StoreOK
  <2>5. \A i \in DOMAIN order : order[i] \in ReadyNodes(L)
    BY <1>1, <2>4, InOrderProps
  <2>6. \A i \in DOMAIN W :
          /\ W[i].node \in ReadyNodes(L) /\ W[i].inputs = PendingTo(W[i].node)
          /\ W[i].at = "todo" /\ W[i].out = "none"
    BY <1>2, <2>5 DEF WaveItem
  <2>7. Begins(d, c)
    BY <1>0, <2>2, <2>3, <2>6 DEF Begins
  <2> QED BY <2>7 DEF Shape
<1> QED BY <1>3, <1>4

LEMMA ResumeShape ==
  ASSUME BaseInv, NEW d \in Drivers, NEW b, b = call[d], Resume(d)
  PROVE  \E c : Shape(d, b, c)
<1>0. StoreOK /\ call[d] \in Call /\ Still
  BY Known DEF Resume, Still, BaseInv
<1>1. CASE Resumable # {}
  <2>1. PICK S : S = Resumable
    OBVIOUS
  <2> DEFINE Again(r) == IF jobs[JobOf(r)] = "queued" THEN Left(r) ELSE Persisted(Left(r), jobs[JobOf(r)])
  <2>2. PICK W : W = [i \in DOMAIN InOrder(S) |-> Again(InOrder(S)[i])]
    OBVIOUS
  <2>3. PICK c : c = [call[d] EXCEPT !.pc = "execute", !.mode = "resumed", !.cur = 1, !.wave = W]
    OBVIOUS
  <2>4. Go(d, c)
    BY <1>1, <2>1, <2>2, <2>3 DEF Resume, Left
  <2>5. c.wave = W /\ c.pc = "execute" /\ c.mode = "resumed"
    BY <1>0, <2>3 DEF Call
  <2>6. S \in SUBSET Nat /\ IsFiniteSet(S)
    <3>1. S \in SUBSET DOMAIN runs
      BY <2>1 DEF Resumable, Held, RunsIn
    <3> QED BY <1>0, <3>1, RowFacts, FS_Subset
  <2>7. \A i \in DOMAIN InOrder(S) : InOrder(S)[i] \in S
    BY <2>6, InOrderProps
  <2> HIDE DEF Again
  <2>8. \A i \in DOMAIN W : \E r \in S : W[i] = Again(r)
    BY <2>2, <2>7
  <2>9. Resumes(d, c)
    BY <1>0, <2>1, <2>4, <2>5, <2>8 DEF Resumes, Again
  <2> QED BY <2>9 DEF Shape
<1>2. CASE Resumable = {}
  <2>1. PICK c : c = [call[d] EXCEPT !.pc = "finish", !.goal = "active"]
    OBVIOUS
  <2>2. Go(d, c)
    BY <1>2, <2>1 DEF Resume
  <2>3. c.pc = "finish"
    BY <1>0, <2>1 DEF Call
  <2> QED BY <1>0, <2>2, <2>3 DEF Calm, Shape, Waving
<1> QED BY <1>1, <1>2

LEMMA CreateShape ==
  ASSUME BaseInv, NEW d \in Drivers, NEW b, b = call[d], CreateRun(d) \/ MarkRunning(d)
  PROVE  \E c : Shape(d, b, c)
<1>0. /\ call[d] \in Call /\ b.cur \in DOMAIN b.wave /\ UNCHANGED <<snapshot, handoffs>>
      /\ Item(d) = Current(b)
  BY Known, CurrentItem DEF CreateRun, MarkRunning, At, Waving, BaseInv, Item, Current
<1>1. CASE CreateRun(d)
  <2>1. CASE Len(runs) + 1 # b.base + b.cur
    <3>1. Return(d) /\ Still
      BY <1>1, <2>1 DEF CreateRun, Still
    <3> QED BY <3>1, CalmReturn DEF Shape
  <2>2. CASE Len(runs) + 1 = b.base + b.cur
    <3>1. PICK V : V = [b.wave EXCEPT ![b.cur].run = Len(runs) + 1]
      OBVIOUS
    <3>2. PICK c : c = [call[d] EXCEPT !.pc = "mark", !.wave = V]
      OBVIOUS
    <3>3. c.wave = V /\ c.pc = "mark" /\ c.mode = b.mode /\ c.base = b.base /\ c.cur = b.cur
      BY <1>0, <3>2 DEF Call
    <3>4. /\ Go(d, c) /\ b.pc = "create"
          /\ runs' = Append(runs, [node |-> Current(b).node, status |-> "CREATED", out |-> "none",
                                   input |-> Current(b).approval, approval |-> 0])
      BY <1>0, <1>1, <2>2, <3>1, <3>2 DEF CreateRun, At
    <3>5. SameButRun(c, b)
      BY <1>0, <3>1, <3>3 DEF SameButRun, Current
    <3>6. Creates(d, b, c)
      BY <1>0, <2>2, <3>3, <3>4, <3>5 DEF Creates
    <3> QED BY <3>6 DEF Shape
  <2> QED BY <2>1, <2>2
<1>2. CASE MarkRunning(d)
  <2>1. PICK cur : cur = b.cur + 1
    OBVIOUS
  <2>2. PICK c1, c2 : /\ c1 = [call[d] EXCEPT !.pc = "create", !.cur = cur]
                      /\ c2 = [call[d] EXCEPT !.pc = "prepare"]
    OBVIOUS
  <2>3. /\ c1.wave = b.wave /\ c1.pc = "create" /\ c1.mode = b.mode /\ c1.base = b.base /\ c1.cur = cur
        /\ c2.wave = b.wave /\ c2.pc = "prepare" /\ c2.mode = b.mode /\ c2.base = b.base
    BY <1>0, <2>2 DEF Call
  <2>4. Go(d, c1) \/ (Go(d, c2) /\ b.cur >= Len(b.wave))
    <3>1. b.cur \in Nat /\ Len(b.wave) \in Nat
      BY <1>0 DEF Call
    <3> QED BY <1>2, <2>1, <2>2, <3>1 DEF MarkRunning, Goto
  <2>5. b.pc = "mark" /\ runs' = [runs EXCEPT ![Current(b).run].status = "RUNNING"]
    BY <1>0, <1>2 DEF MarkRunning, At
  <2>6. Marks(d, b, c1) \/ Marks(d, b, c2)
    BY <1>0, <2>1, <2>3, <2>4, <2>5 DEF Marks
  <2> QED BY <2>6 DEF Shape
<1> QED BY <1>1, <1>2

LEMMA ApplyShape ==
  ASSUME BaseInv, NEW d \in Drivers, NEW b, b = call[d],
         ApplyWaiting(d) \/ ApplySuccess(d) \/ ApplyFailure(d)
  PROVE  \E c : Shape(d, b, c)
<1>0. /\ call[d] \in Call /\ b.pc = "apply" /\ UNCHANGED <<snapshot, handoffs>> /\ StoreOK
      /\ b.cur \in DOMAIN b.wave /\ Item(d) = Current(b) /\ Item(d) \in ItemType
  BY Known, CurrentItem DEF ApplyWaiting, ApplySuccess, ApplyFailure, At, Waving, BaseInv, Item, Current
<1>1. PICK item : item = Current(b)
  OBVIOUS
<1>2. item = Item(d) /\ item \in ItemType
  BY <1>0, <1>1
<1>3. PICK c1, c2, c3 :
        /\ c1 = [call[d] EXCEPT !.pc = "consume"]
        /\ c2 = [call[d] EXCEPT !.pc = "route", !.via = 1]
        /\ c3 = [call[d] EXCEPT !.pc = "consume", !.goal = "unhandled_node_outcome"]
  OBVIOUS
<1>4. /\ c1.wave = b.wave /\ c1.pc = "consume" /\ c1.mode = b.mode /\ c1.cur = b.cur
      /\ c2.wave = b.wave /\ c2.pc = "route" /\ c2.mode = b.mode /\ c2.cur = b.cur /\ c2.via = 1
      /\ c3.wave = b.wave /\ c3.pc = "consume" /\ c3.mode = b.mode /\ c3.cur = b.cur
  BY <1>0, <1>3 DEF Call
<1>r. ~c1.room /\ ~c2.room /\ ~c3.room
  BY <1>0, <1>3, Known DEF Call, Sound, BaseInv
<1>5. ASSUME NEW c, NEW status \in TerminalRun \cup {"WAITING_APPROVAL"},
             NEW out \in Outcome \cup {"skipped"}, NEW approval \in Asked,
             status = "WAITING_APPROVAL" => approval # 0, Ends(d, b, c, status, out, approval)
      PROVE  \E x : Shape(d, b, x)
  BY <1>5 DEF Shape
<1>6. CASE ApplyWaiting(d)
  <2>1. Complete(item.run, "WAITING_APPROVAL", "waiting", item.approval) /\ Go(d, c1) /\ item.out = "waiting"
    BY <1>2, <1>3, <1>6 DEF ApplyWaiting, Goto
  <2>2. item.approval \in Asked /\ item.approval # 0
    BY <1>0, <1>1, <1>2, <2>1, Known DEF Sound, Item, ItemType, Current, BaseInv
  <2>3. Judged(b, "WAITING_APPROVAL", "waiting", item.approval)
    BY <1>0, <1>1, <2>1 DEF Judged
  <2>4. Ends(d, b, c1, "WAITING_APPROVAL", "waiting", item.approval)
    BY <1>0, <1>1, <1>4, <1>r, <2>1, <2>3 DEF Ends
  <2> QED BY <1>5, <2>2, <2>4 DEF Outcome
<1>7. CASE ApplySuccess(d)
  <2>1. /\ Complete(item.run, "SUCCEEDED", item.out, Kept(item)) /\ Go(d, c2)
        /\ item.out \in Successes
    BY <1>2, <1>3, <1>7 DEF ApplySuccess
  <2>2. Kept(item) \in Asked
    BY <1>0, <1>2, KeptType
  <2>3. Judged(b, "SUCCEEDED", item.out, Kept(item))
    BY <1>0, <1>1, <2>1 DEF Judged
  <2>4. Ends(d, b, c2, "SUCCEEDED", item.out, Kept(item))
    BY <1>0, <1>1, <1>4, <1>r, <2>1, <2>3 DEF Ends, TerminalRun
  <2> QED BY <1>5, <2>1, <2>2, <2>4 DEF Outcome, TerminalRun
<1>8. CASE ApplyFailure(d)
  <2>0. PICK how : how = Node[item.node].onFailure
    OBVIOUS
  <2>1. PICK out : out = (CASE how = "skip" -> "skipped" [] how = "fail" -> item.out [] OTHER -> "failed")
    OBVIOUS
  <2>2. PICK status : status = (IF how = "skip" THEN "SKIPPED" ELSE "FAILED")
    OBVIOUS
  <2>3. Complete(item.run, status, out, Given(item)) /\ item.out \in Failures
    BY <1>2, <1>8, <2>0, <2>1, <2>2 DEF ApplyFailure
  <2>4. out \in {"skipped", "failed", item.out}
    <3>1. CASE how = "skip"
      BY <2>1, <3>1
    <3>2. CASE how # "skip"
      BY <2>1, <3>2
    <3> QED BY <3>1, <3>2
  <2>5. status \in {"SKIPPED", "FAILED"}
    BY <2>2
  <2>6. Given(item) \in Asked
    BY <1>0, <1>2, KeptType
  <2>7. Go(d, c2) \/ Go(d, c3)
    BY <1>3, <1>8 DEF ApplyFailure
  <2>8. Judged(b, status, out, Given(item))
    BY <1>0, <1>1, <2>3, <2>4, <2>5 DEF Judged
  <2>9. Ends(d, b, c2, status, out, Given(item)) \/ Ends(d, b, c3, status, out, Given(item))
    BY <1>0, <1>1, <1>4, <1>r, <2>3, <2>5, <2>7, <2>8 DEF Ends, TerminalRun
  <2> QED BY <1>5, <2>3, <2>4, <2>5, <2>6, <2>9 DEF Outcome, Failures, TerminalRun
<1> QED BY <1>6, <1>7, <1>8

LEMMA GateShape ==
  ASSUME BaseInv, NEW d \in Drivers, NEW b, b = call[d], ResumeGate(d)
  PROVE  \E c : Shape(d, b, c)
<1>0. /\ call[d] \in Call /\ b.pc = "gate" /\ UNCHANGED <<snapshot, handoffs>> /\ StoreOK
      /\ b.cur \in DOMAIN b.wave /\ Item(d) = Current(b) /\ Item(d) \in ItemType
  BY Known, CurrentItem DEF ResumeGate, At, Waving, BaseInv, Item, Current
<1>1. PICK item, answer : item = Current(b) /\ answer = Answer(item.approval)
  OBVIOUS
<1>2. item = Item(d) /\ item \in ItemType
  BY <1>0, <1>1
<1>3. PICK c1, c2, c3 :
        /\ c1 = [call[d] EXCEPT !.pc = "finish", !.goal = "waiting"]
        /\ c2 = [call[d] EXCEPT !.pc = "route", !.via = 1]
        /\ c3 = [call[d] EXCEPT !.pc = "finish", !.goal = "unhandled_node_outcome"]
  OBVIOUS
<1>4. /\ c1.pc = "finish"
      /\ c2.wave = b.wave /\ c2.pc = "route" /\ c2.mode = b.mode /\ c2.cur = b.cur /\ c2.via = 1
      /\ c3.wave = b.wave /\ c3.pc = "finish" /\ c3.mode = b.mode /\ c3.cur = b.cur
  BY <1>0, <1>3 DEF Call
<1>r. ~c1.room /\ ~c2.room /\ ~c3.room
  BY <1>0, <1>3, Known DEF Call, Sound, BaseInv
<1>5. CASE answer = "waiting"
  <2>1. Go(d, c1) /\ UNCHANGED runs
    BY <1>1, <1>2, <1>3, <1>5 DEF ResumeGate
  <2>2. Calm(d, c1)
    BY <1>0, <1>4, <2>1 DEF Calm, Still, Waving
  <2> QED BY <2>2 DEF Shape
<1>6. CASE answer # "waiting"
  <2>1. PICK status : status = (IF answer = "approved" THEN "SUCCEEDED" ELSE "FAILED")
    OBVIOUS
  <2>2. Complete(item.run, status, answer, item.approval)
    BY <1>1, <1>2, <1>6, <2>1 DEF ResumeGate
  <2>3. item.approval \in Asked /\ item.approval # 0
    BY <1>0, <1>1, <1>2, Known DEF Sound, Item, ItemType, Current, BaseInv
  <2>4. answer \in {"waiting", "approved", "rejected"}
    BY <1>0, <1>1, <2>3, Decided
  <2>5. Go(d, c2) \/ Go(d, c3)
    BY <1>1, <1>2, <1>3, <1>6 DEF ResumeGate
  <2>6. status \in {"SUCCEEDED", "FAILED"}
    BY <2>1
  <2>7. Judged(b, status, answer, item.approval)
    BY <1>0, <1>1, <1>6, <2>6 DEF Judged
  <2>8. \E c : Ends(d, b, c, status, answer, item.approval)
    BY <1>0, <1>1, <1>4, <1>r, <2>2, <2>5, <2>6, <2>7 DEF Ends, TerminalRun
  <2>9. answer \in Outcome \cup {"skipped"} /\ status \in TerminalRun /\ status # "WAITING_APPROVAL"
    BY <2>4, <2>6 DEF Outcome, Successes, Failures, TerminalRun
  <2> QED BY <2>3, <2>8, <2>9 DEF Shape
<1> QED BY <1>5, <1>6

LEMMA RouteShape ==
  ASSUME BaseInv, NEW d \in Drivers, NEW b, b = call[d], Route(d)
  PROVE  \E c : Shape(d, b, c)
<1>0. StoreOK /\ b.pc = "route" /\ call[d] \in Call /\ Still /\ b.via \in Nat
  BY Known DEF Route, At, BaseInv, Call, Still, storeVars
<1>1. ASSUME NEW goal, Routed(d, goal)
      PROVE  \E c : Shape(d, b, c)
  <2>1. PICK label : label = (IF call[d].mode = "gates" THEN "next" ELSE "consume")
    OBVIOUS
  <2>2. PICK c : c = [call[d] EXCEPT !.pc = label, !.goal = goal]
    OBVIOUS
  <2>3. Go(d, c)
    BY <1>1, <2>1, <2>2 DEF Routed
  <2>4. c.pc = label /\ c.wave = b.wave /\ c.mode = b.mode /\ c.cur = b.cur /\ c.via = b.via
    BY <1>0, <2>2 DEF Call
  <2>5. label \in {"next", "consume"}
    BY <2>1
  <2>6. Inside(d, b, c)
    BY <1>0, <2>3, <2>4, <2>5, InsideMove
  <2> QED BY <2>6 DEF Shape
<1>2. ASSUME NEW via \in Nat, NEW room, via >= b.via,
             \/ Go(d, [call[d] EXCEPT !.via = via])
             \/ Go(d, [call[d] EXCEPT !.via = via, !.room = room])
      PROVE  \E c : Shape(d, b, c)
  <2>1. PICK c1, c2 : /\ c1 = [call[d] EXCEPT !.via = via]
                      /\ c2 = [call[d] EXCEPT !.via = via, !.room = room]
    OBVIOUS
  <2>2. /\ c1.pc = "route" /\ c1.wave = b.wave /\ c1.mode = b.mode /\ c1.cur = b.cur /\ c1.via = via
        /\ c2.pc = "route" /\ c2.wave = b.wave /\ c2.mode = b.mode /\ c2.cur = b.cur /\ c2.via = via
    BY <1>0, <2>1 DEF Call
  <2>3. Go(d, c1) => Inside(d, b, c1)
    BY <1>0, <1>2, <2>2, InsideMove
  <2>4. Go(d, c2) => Inside(d, b, c2)
    BY <1>0, <1>2, <2>2, InsideMove
  <2>5. Go(d, c1) \/ Go(d, c2)
    BY <1>2, <2>1
  <2> QED BY <2>3, <2>4, <2>5 DEF Shape
<1>3. PICK open, e : open = {f \in Edges : f >= call[d].via /\ Matching(d, f)} /\ e = Min(open)
  OBVIOUS
<1>4. open # {} => e \in Nat /\ e >= b.via /\ e + 1 \in Nat /\ e + 1 >= b.via
  <2>1. open \in SUBSET Nat /\ IsFiniteSet(open)
    BY <1>0, <1>3, TemplateFacts, FS_Subset DEF StoreOK
  <2>2. open # {} => e \in Nat /\ e >= b.via
    BY <1>3, <2>1, MinMax
  <2> QED BY <1>0, <2>2
<1>5. \/ \E goal : Routed(d, goal)
      \/ open # {} /\ Go(d, [call[d] EXCEPT !.via = e + 1])
      \/ open # {} /\ Go(d, [call[d] EXCEPT !.via = e, !.room = TRUE])
  BY <1>3 DEF Route, Counted
<1> QED BY <1>1, <1>2, <1>4, <1>5

LEMMA HandOverShape ==
  ASSUME BaseInv, NEW d \in Drivers, NEW b, b = call[d], HandOver(d)
  PROVE  \E c : Sends(d, b, c)
<1>0. /\ StoreOK /\ b.pc = "route" /\ b.room /\ call[d] \in Call /\ Item(d) = Current(b)
      /\ UNCHANGED <<snapshot, runs>> /\ b.cur \in DOMAIN b.wave /\ b.via \in Edges /\ b.via \in Nat
  <2>1. b.pc = "route" /\ b.room /\ UNCHANGED <<snapshot, runs>> /\ Item(d) = Current(b)
    BY DEF HandOver, At, Item, Current
  <2> QED BY <2>1, Known, CurrentItem DEF Waving, BaseInv, Call, Sound
<1>1. PICK c : c = [call[d] EXCEPT !.via = call[d].via + 1, !.room = FALSE]
  OBVIOUS
<1>2. c.pc = "route" /\ c.wave = b.wave /\ c.mode = b.mode /\ c.cur = b.cur /\ c.via = b.via + 1
  BY <1>0, <1>1 DEF Call
<1>3. PICK row : row = [edge |-> b.via, source |-> Item(d).run, status |-> "PENDING", by |-> 0,
                        approval |-> runs[Item(d).run].approval, synthetic |-> FALSE]
  OBVIOUS
<1>4. b.cur \in BegunIn(b)
  BY <1>0 DEF BegunIn, Waving
<1>5. Item(d).run \in DOMAIN runs
  BY <1>0, <1>4 DEF KnownIn, BaseInv, Current
<1>6. row \in Handoff
  <2>1. runs[Item(d).run] \in Run /\ Item(d).run \in Nat
    BY <1>0, <1>5, RowFacts
  <2> QED BY <1>0, <1>3, <2>1 DEF Handoff, Run
<1>7. /\ handoffs' = Append(handoffs, row) /\ row.source = Current(b).run /\ row.edge = b.via
      /\ row.status = "PENDING" /\ row.by = 0 /\ row.synthetic = FALSE
  BY <1>0, <1>3 DEF HandOver
<1>8. Go(d, c)
  BY <1>1 DEF HandOver
<1> QED BY <1>0, <1>2, <1>6, <1>7, <1>8 DEF Sends

LEMMA ConsumeShape ==
  ASSUME BaseInv, NEW d \in Drivers, NEW b, b = call[d], Consume(d)
  PROVE  \E c : Shape(d, b, c)
<1>0. /\ call[d] \in Call /\ b.pc = "consume" /\ Item(d) = Current(b) /\ UNCHANGED <<snapshot, runs>>
  BY Known DEF Consume, At, BaseInv, Item, Current
<1>1. PICK c : c = [call[d] EXCEPT !.pc = "next"]
  OBVIOUS
<1>2. c.wave = b.wave /\ c.mode = b.mode /\ c.cur = b.cur /\ c.pc = "next"
  BY <1>0, <1>1 DEF Call
<1>3. CASE Item(d).inputs \subseteq Pending
  <2>1. Go(d, c) /\ handoffs' = Taken(Current(b).inputs, Current(b).run)
    BY <1>0, <1>1, <1>3 DEF Consume, Goto
  <2>2. Takes(d, b, c)
    BY <1>0, <1>2, <1>3, <2>1 DEF Takes
  <2> QED BY <2>2 DEF Shape
<1>4. CASE ~(Item(d).inputs \subseteq Pending)
  <2>1. Return(d) /\ Still
    BY <1>0, <1>4 DEF Consume, Still
  <2> QED BY <2>1, CalmReturn DEF Shape
<1> QED BY <1>3, <1>4

LEMMA DriverShape ==
  ASSUME BaseInv, NEW d \in Drivers, NEW b, b = call[d],
         Driver(d) \/ Crash(d) \/ \E k \in DOMAIN call[d].wave : TooLate(d, k)
  PROVE  \E c : Shape(d, b, c)
<1>1. CASE ApplyRetry(d) \/ Fresh(d)
  BY <1>1, RepeatShape DEF Shape
<1>2. CASE \E k \in DOMAIN call[d].wave : Thread(d, k) \/ TooLate(d, k)
  BY <1>2, ThreadShape
<1> QED
  BY <1>1, <1>2, CallShape, MoveShape, ScanShape, PlanShape, ResumeShape, CreateShape, ApplyShape,
     GateShape, RouteShape, HandOverShape, ConsumeShape DEF Driver, Shape

-----------------------------------------------------------------------------
(* RouteInv *)

LEMMA CallBase ==
  BaseInv => \A d \in Drivers : call[d] \in Call /\ KnownIn(call[d]) /\ InCall(d)
BY Known DEF BaseInv

LEMMA CallBaseNext ==
  BaseInv' => (\A d \in Drivers : call[d] \in Call /\ KnownIn(call[d]) /\ InCall(d))'
BY CallBase, PTL

LEMMA RouteStep ==
  ASSUME OneDriver, RouteInv, BaseInv', NEW d \in Drivers, NEW c, Go(d, c),
         ItemsRight(c)', SentRight', RoutedOnce'
  PROVE  RouteInv'
<1>1. \A e \in Drivers : call'[e] = c
  BY OnlyCall DEF RouteInv
<1>2. ASSUME NEW e \in Drivers
      PROVE  ItemsRight(call[e])'
  BY <1>1
<1> QED BY <1>2 DEF RouteInv

(* Who has ended stays so, and what was handed on comes from where it came.   *)
EndsStay ==
  \A r \in DOMAIN runs :
    r \in DOMAIN runs' /\ (runs[r].status \in TerminalRun => runs'[r].status \in TerminalRun)
HandsStay ==
  /\ DOMAIN handoffs \subseteq DOMAIN handoffs'
  /\ \A h \in DOMAIN handoffs :
       /\ handoffs'[h].edge = handoffs[h].edge /\ handoffs'[h].source = handoffs[h].source
       /\ handoffs'[h].synthetic = handoffs[h].synthetic
  /\ \A h \in DOMAIN handoffs' \ DOMAIN handoffs : handoffs'[h].synthetic

LEMMA SentStay ==
  ASSUME SentRight, RoutedOnce, EndsStay, HandsStay
  PROVE  SentRight' /\ RoutedOnce'
<1>1. ASSUME NEW h \in DOMAIN handoffs', ~handoffs'[h].synthetic
      PROVE  /\ h \in DOMAIN handoffs /\ ~handoffs[h].synthetic
             /\ handoffs'[h].edge = handoffs[h].edge /\ handoffs'[h].source = handoffs[h].source
  BY <1>1 DEF HandsStay
<1>2. ASSUME NEW h \in DOMAIN handoffs', ~handoffs'[h].synthetic
      PROVE  handoffs'[h].source \in DOMAIN runs' /\ runs'[handoffs'[h].source].status \in TerminalRun
  <2>1. handoffs[h].source \in DOMAIN runs /\ runs[handoffs[h].source].status \in TerminalRun
    BY <1>1, <1>2 DEF SentRight
  <2> QED BY <1>1, <1>2, <2>1 DEF EndsStay
<1>3. ASSUME NEW h \in DOMAIN handoffs', NEW i \in DOMAIN handoffs',
             ~handoffs'[h].synthetic, ~handoffs'[i].synthetic,
             handoffs'[h].edge = handoffs'[i].edge, handoffs'[h].source = handoffs'[i].source
      PROVE  h = i
  BY <1>1, <1>3 DEF RoutedOnce
<1>4. RoutedOnce'
  BY <1>3 DEF RoutedOnce
<1> QED BY <1>2, <1>4 DEF SentRight, TerminalRun

LEMMA StillStay == ASSUME UNCHANGED <<runs, handoffs>> PROVE EndsStay /\ HandsStay
BY DEF EndsStay, HandsStay

LEMMA RouteStill ==
  ASSUME OneDriver, RouteInv, BaseInv', NEW d \in Drivers, NEW b, b = call[d], NEW c,
         Calm(d, c) \/ Inside(d, b, c) \/ Gates(d, c) \/ Begins(d, c) \/ Resumes(d, c)
  PROVE  RouteInv'
<1>0. /\ Go(d, c) /\ UNCHANGED <<snapshot, runs, handoffs>> /\ ItemsRight(b) /\ BaseInv
  BY DEF Calm, Inside, Gates, Begins, Resumes, Still, RouteInv
<1>1. SentRight' /\ RoutedOnce'
  BY <1>0, StillStay, SentStay DEF RouteInv
<1>2. \A k \in DOMAIN c.wave : k \in Nat /\ k >= 1
  <2>1. c \in Call'
    BY <1>0, OnlyCall, CallBaseNext
  <2> QED BY <2>1 DEF Call
<1>3. ASSUME \A k \in Ahead(c) :
               runs[c.wave[k].run].status \in IF c.mode = "gates" THEN {"WAITING_APPROVAL"} ELSE Undone,
             c.pc \notin {"route", "consume"}
      PROVE  ItemsRight(c)'
  BY <1>0, <1>3 DEF ItemsRight, Ahead, BegunIn
<1>4. CASE Calm(d, c)
  BY <1>0, <1>1, <1>3, <1>4, RouteStep DEF Calm, Ahead, BegunIn, Waving
<1>5. CASE Inside(d, b, c)
  <2>1. ASSUME NEW k \in Ahead(c)
        PROVE  runs[c.wave[k].run].status \in IF c.mode = "gates" THEN {"WAITING_APPROVAL"} ELSE Undone
    <3>1. k \in Ahead(b) /\ k \in DOMAIN b.wave
      BY <1>5, <2>1 DEF Inside, Ahead, BegunIn
    <3>2. c.wave[k].run = b.wave[k].run /\ c.mode = b.mode
      BY <1>5, <3>1 DEF Inside, SameItems, Alike
    <3> QED BY <1>0, <3>1, <3>2 DEF ItemsRight
  <2>2. CASE c.pc \notin {"route", "consume"}
    BY <1>0, <1>1, <1>3, <2>1, <2>2, RouteStep
  <2>3. CASE c.pc \in {"route", "consume"}
    <3>1. b.pc = "route" /\ c.cur = b.cur /\ c.via >= b.via /\ b \in Call
      BY <1>0, <1>5, <2>3, CallBase DEF Inside
    <3>2. b.cur \in DOMAIN b.wave
      BY <1>0, <3>1, Known, CurrentItem DEF BaseInv, Waving
    <3>3. Current(c).run = Current(b).run
      BY <1>5, <3>1, <3>2 DEF Inside, SameItems, Alike, Current
    <3>4. runs[Current(c).run].status \in TerminalRun
      BY <1>0, <3>1, <3>3 DEF ItemsRight
    <3>5. ASSUME c.pc = "route", NEW h \in DOMAIN handoffs, ~handoffs[h].synthetic,
                 handoffs[h].source = Current(c).run
          PROVE  handoffs[h].edge < c.via
      <4>1. handoffs[h].edge < b.via
        BY <1>0, <3>1, <3>3, <3>5 DEF ItemsRight
      <4>2. handoffs[h].edge \in Nat /\ b.via \in Nat /\ c.via \in Nat
        <5>1. StoreOK /\ handoffs[h] \in Handoff
          BY <1>0, BaseStore, RowFacts
        <5>2. c \in Call'
          BY <1>0, OnlyCall, CallBaseNext
        <5> QED BY <3>1, <5>1, <5>2, TemplateFacts DEF Call, Handoff, StoreOK
      <4> QED BY <3>1, <4>1, <4>2
    <3>6. ItemsRight(c)'
      BY <1>0, <2>1, <3>4, <3>5 DEF ItemsRight, Ahead, BegunIn, TerminalRun, Undone, Current
    <3> QED BY <1>0, <1>1, <3>6, RouteStep
  <2> QED BY <2>2, <2>3
<1>6. CASE Gates(d, c)
  <2>1. \A k \in Ahead(c) : runs[c.wave[k].run].status = "WAITING_APPROVAL"
    BY <1>6 DEF Gates, Ahead, BegunIn, RunsIn
  <2> QED BY <1>0, <1>1, <1>3, <1>6, <2>1, RouteStep DEF Gates
<1>7. CASE Begins(d, c)
  <2>1. Ahead(c) = {}
    BY <1>2, <1>7 DEF Begins, Ahead, BegunIn, Waving
  <2> QED BY <1>0, <1>1, <1>3, <1>7, <2>1, RouteStep DEF Begins
<1>8. CASE Resumes(d, c)
  <2>1. ASSUME NEW k \in Ahead(c)
        PROVE  runs[c.wave[k].run].status = "RUNNING"
    <3>1. PICK r \in Resumable :
            c.wave[k] = IF jobs[JobOf(r)] = "queued" THEN Left(r) ELSE Persisted(Left(r), jobs[JobOf(r)])
      BY <1>8, <2>1 DEF Resumes, Ahead, BegunIn
    <3>2. c.wave[k].run = r
      BY <3>1 DEF Left, Persisted, WaveItem
    <3> QED BY <3>1, <3>2 DEF Resumable, Held, RunsIn
  <2>2. c.mode = "resumed" /\ c.pc = "execute"
    BY <1>8 DEF Resumes
  <2>3. \A k \in Ahead(c) :
          runs[c.wave[k].run].status \in IF c.mode = "gates" THEN {"WAITING_APPROVAL"} ELSE Undone
    BY <2>1, <2>2 DEF Undone
  <2> QED BY <1>0, <1>1, <1>3, <2>2, <2>3, RouteStep
<1> QED BY <1>4, <1>5, <1>6, <1>7, <1>8

LEMMA RouteCreates ==
  ASSUME OneDriver, RouteInv, BaseInv', NEW d \in Drivers, NEW b, b = call[d], NEW c, Creates(d, b, c)
  PROVE  RouteInv'
<1>0. /\ Go(d, c) /\ UNCHANGED <<snapshot, handoffs>> /\ ItemsRight(b) /\ BaseInv /\ StoreOK
      /\ SameButRun(c, b) /\ b.pc = "create" /\ c.pc = "mark"
      /\ b.cur \in DOMAIN b.wave /\ Current(b) \in ItemType /\ InCall(d) /\ KnownIn(b) /\ b \in Call
  BY BaseStore, Known, CurrentItem DEF Creates, RouteInv, BaseInv, Waving, Current, Item
<1>1. PICK row : row = [node |-> Current(b).node, status |-> "CREATED", out |-> "none",
                        input |-> Current(b).approval, approval |-> 0]
  OBVIOUS
<1>2. row \in Run /\ runs' = Append(runs, row) /\ row.status = "CREATED"
  <2>1. 0 \in Asked /\ Current(b).approval \in Asked
    BY <1>0, RowFacts DEF Asked, ItemType
  <2> QED BY <1>0, <1>1, <2>1 DEF Run, Outcome, ActiveRun, Creates, ItemType
<1>3. /\ DOMAIN runs' = DOMAIN runs \cup {Len(runs) + 1}
      /\ \A r \in DOMAIN runs : runs'[r] = runs[r]
      /\ runs'[Len(runs) + 1] = row
  BY <1>0, <1>2, AppendRun
<1>4. SentRight' /\ RoutedOnce'
  BY <1>0, <1>3, SentStay DEF EndsStay, HandsStay, RouteInv
<1>5. b.mode = "wave" /\ c.mode = "wave"
  BY <1>0 DEF InCall, SameButRun
<1>6. ASSUME NEW k \in Ahead(c)
      PROVE  runs'[c.wave[k].run].status \in Undone
  <2>1. k \in DOMAIN b.wave /\ k <= b.cur
    BY <1>0, <1>6 DEF Ahead, BegunIn, SameButRun, Waving
  <2>2. CASE k = b.cur
    <3>1. c.wave[k].run = Len(runs) + 1
      BY <1>0, <2>2 DEF SameButRun, ItemType, Current
    <3> QED BY <1>2, <1>3, <3>1 DEF Undone
  <2>3. CASE k # b.cur
    <3>1. k < b.cur
      BY <1>0, <2>1, <2>3 DEF Call
    <3>2. k \in BegunIn(b) /\ k \in Ahead(b)
      BY <1>0, <2>1, <3>1 DEF Ahead, BegunIn, Waving
    <3>3. b.wave[k].run \in DOMAIN runs /\ runs[b.wave[k].run].status \in Undone
      BY <1>0, <1>5, <3>2 DEF KnownIn, ItemsRight
    <3>4. c.wave[k] = b.wave[k]
      BY <1>0, <2>1, <2>3 DEF SameButRun
    <3> QED BY <1>3, <3>3, <3>4
  <2> QED BY <2>2, <2>3
<1>7. ItemsRight(c)'
  BY <1>0, <1>5, <1>6 DEF ItemsRight, Ahead, BegunIn, Undone
<1> QED BY <1>0, <1>4, <1>7, RouteStep

LEMMA RouteMarks ==
  ASSUME OneDriver, RouteInv, BaseInv', NEW d \in Drivers, NEW b, b = call[d], NEW c, Marks(d, b, c)
  PROVE  RouteInv'
<1>0. /\ Go(d, c) /\ UNCHANGED <<snapshot, handoffs>> /\ ItemsRight(b) /\ BaseInv /\ StoreOK
      /\ b.pc = "mark" /\ c.pc \in {"create", "prepare"} /\ c.wave = b.wave /\ c.mode = b.mode
      /\ b.cur \in DOMAIN b.wave /\ InCall(d) /\ KnownIn(b) /\ b \in Call
  BY BaseStore, Known, CurrentItem DEF Marks, RouteInv, BaseInv, Waving, Current, Item
<1>1. PICK r, row : r = Current(b).run /\ row = [runs[r] EXCEPT !.status = "RUNNING"]
  OBVIOUS
<1>2. b.cur \in BegunIn(b) /\ b.cur \in Ahead(b)
  BY <1>0 DEF Ahead, BegunIn, Waving, Call
<1>3. r \in DOMAIN runs /\ runs[r] \in Run /\ runs[r].status \in Undone /\ b.mode = "wave"
  BY <1>0, <1>1, <1>2, RowFacts DEF KnownIn, ItemsRight, InCall, Current
<1>4. /\ DOMAIN runs' = DOMAIN runs /\ runs'[r] = row /\ row.status = "RUNNING"
      /\ \A q \in DOMAIN runs : q # r => runs'[q] = runs[q]
  BY <1>1, <1>3 DEF Marks, Run
<1>5. SentRight' /\ RoutedOnce'
  BY <1>0, <1>3, <1>4, SentStay DEF EndsStay, HandsStay, RouteInv, Undone, TerminalRun
<1>6. ASSUME NEW k \in Ahead(c)
      PROVE  runs'[c.wave[k].run].status \in Undone
  <2>1. k \in DOMAIN b.wave /\ k <= b.cur
    <3>1. k \in DOMAIN b.wave /\ b.cur \in Nat /\ k \in Nat /\ k <= Len(b.wave) /\ Len(b.wave) \in Nat
      BY <1>0, <1>6 DEF Ahead, BegunIn, Call
    <3>2. c.pc = "create" => k < b.cur + 1
      BY <1>0, <1>6 DEF Ahead, BegunIn, Waving, Marks
    <3> QED BY <1>0, <3>1, <3>2 DEF Marks
  <2>2. k \in BegunIn(b) /\ k \in Ahead(b)
    BY <1>0, <2>1 DEF Ahead, BegunIn, Waving
  <2>3. b.wave[k].run \in DOMAIN runs /\ runs[b.wave[k].run].status \in Undone
    BY <1>0, <1>3, <2>2 DEF KnownIn, ItemsRight
  <2> QED BY <1>0, <1>4, <2>3 DEF Undone
<1>7. ItemsRight(c)'
  BY <1>0, <1>3, <1>6 DEF ItemsRight, Ahead, BegunIn, Undone
<1> QED BY <1>0, <1>5, <1>7, RouteStep

(* The run a call ends is one it has ahead, and no other item of the wave.    *)
LEMMA AheadEnds ==
  ASSUME RouteInv, NEW d \in Drivers, NEW b, b = call[d], b.pc \in {"apply", "gate"}
  PROVE  /\ b.cur \in DOMAIN b.wave /\ b.cur \in BegunIn(b) /\ BegunIn(b) = DOMAIN b.wave
         /\ Current(b).run \in DOMAIN runs /\ b \in Call
         /\ runs[Current(b).run].status \notin TerminalRun
         /\ \A k \in DOMAIN b.wave :
              /\ b.wave[k].run \in DOMAIN runs
              /\ k # b.cur => b.wave[k].run # Current(b).run
<1>0. BaseInv /\ KnownIn(b) /\ b \in Call /\ ItemsRight(b)
  BY CallBase DEF RouteInv
<1>1. b.cur \in DOMAIN b.wave /\ BegunIn(b) = DOMAIN b.wave /\ b.cur \in Nat
  BY <1>0, Known, CurrentItem DEF BaseInv, Waving, BegunIn
<1>2. b.cur \in Ahead(b)
  BY <1>1 DEF Ahead
<1>3. runs[Current(b).run].status \notin TerminalRun
  BY <1>0, <1>2 DEF ItemsRight, Undone, TerminalRun, Current
<1> QED BY <1>0, <1>1, <1>3 DEF KnownIn, Current

LEMMA RouteEnds ==
  ASSUME OneDriver, RouteInv, BaseInv', NEW d \in Drivers, NEW b, b = call[d], NEW c,
         NEW status \in TerminalRun \cup {"WAITING_APPROVAL"}, NEW out \in Outcome \cup {"skipped"},
         NEW approval \in Asked, status = "WAITING_APPROVAL" => approval # 0,
         Ends(d, b, c, status, out, approval)
  PROVE  RouteInv'
<1>0. /\ Go(d, c) /\ UNCHANGED <<snapshot, handoffs>> /\ ItemsRight(b) /\ BaseInv /\ StoreOK
      /\ c.wave = b.wave /\ c.mode = b.mode /\ c.cur = b.cur /\ b.pc \in {"apply", "gate"}
      /\ SentRight /\ c.pc \in {"route", "consume", "finish"}
  BY BaseStore DEF Ends, Judged, RouteInv
<1>1. /\ b.cur \in DOMAIN b.wave /\ BegunIn(b) = DOMAIN b.wave
      /\ Current(b).run \in DOMAIN runs /\ b \in Call
      /\ runs[Current(b).run].status \notin TerminalRun
      /\ \A k \in DOMAIN b.wave :
           /\ b.wave[k].run \in DOMAIN runs
           /\ k # b.cur => b.wave[k].run # Current(b).run
  BY <1>0, AheadEnds
<1>2. PICK r : r = Current(b).run
  OBVIOUS
<1>3. /\ DOMAIN runs' = DOMAIN runs /\ runs'[r].status = status
      /\ \A q \in DOMAIN runs : q # r => runs'[q] = runs[q]
  <2>1. Complete(r, status, out, approval)
    BY <1>2 DEF Ends
  <2>2. r \in DOMAIN runs
    BY <1>1, <1>2
  <2> HIDE DEF Ends
  <2> QED BY <1>0, <2>1, <2>2, CompleteRow
<1>4. SentRight' /\ RoutedOnce'
  BY <1>0, <1>1, <1>2, <1>3, SentStay DEF EndsStay, HandsStay, RouteInv
<1>5. ASSUME NEW k \in Ahead(c)
      PROVE  runs'[c.wave[k].run].status \in IF c.mode = "gates" THEN {"WAITING_APPROVAL"} ELSE Undone
  <2>1. k \in DOMAIN b.wave /\ k > b.cur
    BY <1>0, <1>5 DEF Ahead, BegunIn
  <2>2. k \in Ahead(b) /\ k # b.cur
    BY <1>1, <2>1 DEF Ahead, Call
  <2>3. b.wave[k].run \in DOMAIN runs /\ b.wave[k].run # r
    BY <1>1, <1>2, <2>1, <2>2
  <2> QED BY <1>0, <1>3, <2>2, <2>3 DEF ItemsRight
<1>6. c.pc \in {"route", "consume"} => runs'[Current(c).run].status \notin Undone
  BY <1>0, <1>2, <1>3 DEF Current, Undone, TerminalRun
<1>7. c.pc = "route" => runs'[Current(c).run].status \in TerminalRun
  BY <1>0, <1>2, <1>3 DEF Current, Ends
<1>8. \A h \in DOMAIN handoffs : ~handoffs[h].synthetic => handoffs[h].source # Current(c).run
  BY <1>0, <1>1 DEF SentRight, Current
<1>9. ItemsRight(c)'
  BY <1>0, <1>5, <1>6, <1>7, <1>8 DEF ItemsRight, Ahead, BegunIn, TerminalRun, Undone, Current
<1> QED BY <1>0, <1>4, <1>9, RouteStep

LEMMA RouteSends ==
  ASSUME OneDriver, RouteInv, BaseInv', NEW d \in Drivers, NEW b, b = call[d], NEW c, Sends(d, b, c)
  PROVE  RouteInv'
<1>0. /\ Go(d, c) /\ UNCHANGED <<snapshot, runs>> /\ ItemsRight(b) /\ BaseInv /\ StoreOK
      /\ c.wave = b.wave /\ c.mode = b.mode /\ c.cur = b.cur /\ b.pc = "route" /\ c.pc = "route"
      /\ SentRight /\ RoutedOnce /\ b \in Call /\ KnownIn(b)
  BY BaseStore, CallBase DEF Sends, RouteInv
<1>1. PICK row \in Handoff :
        /\ handoffs' = Append(handoffs, row)
        /\ row.source = Current(b).run /\ row.edge >= b.via /\ c.via = row.edge + 1
        /\ row.status = "PENDING" /\ row.by = 0 /\ row.synthetic = FALSE
  BY DEF Sends
<1>2. PICK new : new = Len(handoffs) + 1
  OBVIOUS
<1>3. /\ DOMAIN handoffs' = DOMAIN handoffs \cup {new} /\ handoffs'[new] = row
      /\ \A h \in DOMAIN handoffs : handoffs'[h] = handoffs[h]
  BY <1>0, <1>1, <1>2, AppendHandoff
<1>4. row.edge \in Nat /\ b.via \in Nat /\ \A h \in DOMAIN handoffs : handoffs[h].edge \in Nat
  <2>1. \A h \in DOMAIN handoffs : handoffs[h] \in Handoff
    BY <1>0, RowFacts
  <2> QED BY <1>0, <1>1, <2>1, TemplateFacts DEF Call, Handoff, StoreOK
<1>5. Current(b).run \in DOMAIN runs /\ runs[Current(b).run].status \in TerminalRun
  <2>1. b.cur \in DOMAIN b.wave
    BY <1>0, Known, CurrentItem DEF BaseInv, Waving
  <2>2. b.cur \in BegunIn(b)
    BY <1>0, <2>1 DEF BegunIn, Waving
  <2> QED BY <1>0, <2>2 DEF KnownIn, Current, ItemsRight
<1>6. ASSUME NEW h \in DOMAIN handoffs, ~handoffs[h].synthetic, handoffs[h].source = Current(b).run
      PROVE  handoffs[h].edge < row.edge
  <2>1. handoffs[h].edge < b.via
    BY <1>0, <1>6 DEF ItemsRight
  <2> QED BY <1>1, <1>4, <2>1
<1>7. SentRight'
  BY <1>0, <1>1, <1>3, <1>5 DEF SentRight
<1>8. ASSUME NEW h \in DOMAIN handoffs, ~handoffs[h].synthetic
      PROVE  ~(handoffs[h].edge = row.edge /\ handoffs[h].source = row.source)
  BY <1>1, <1>4, <1>6, <1>8
<1>9. RoutedOnce'
  BY <1>0, <1>3, <1>8 DEF RoutedOnce
<1>10. ASSUME NEW h \in DOMAIN handoffs', ~handoffs'[h].synthetic, handoffs'[h].source = Current(c).run
       PROVE  handoffs'[h].edge < c.via
  <2>1. Current(c).run = Current(b).run
    BY <1>0 DEF Current
  <2>2. CASE h = new
    BY <1>1, <1>3, <1>4, <2>2
  <2>3. CASE h \in DOMAIN handoffs
    BY <1>1, <1>3, <1>4, <1>6, <1>10, <2>1, <2>3
  <2> QED BY <1>3, <2>2, <2>3
<1>11. Ahead(c) = Ahead(b)
  BY <1>0 DEF Ahead, BegunIn
<1>12. ASSUME NEW k \in Ahead(c)
       PROVE  runs[c.wave[k].run].status \in IF c.mode = "gates" THEN {"WAITING_APPROVAL"} ELSE Undone
  BY <1>0, <1>11, <1>12 DEF ItemsRight
<1>13. Current(c) = Current(b)
  BY <1>0 DEF Current
<1>14. ItemsRight(c)'
  BY <1>0, <1>5, <1>10, <1>12, <1>13 DEF ItemsRight, Ahead, BegunIn, TerminalRun, Undone, Current
<1> QED BY <1>0, <1>7, <1>9, <1>14, RouteStep

LEMMA RouteTakes ==
  ASSUME OneDriver, RouteInv, BaseInv', NEW d \in Drivers, NEW b, b = call[d], NEW c, Takes(d, b, c)
  PROVE  RouteInv'
<1>0. /\ Go(d, c) /\ UNCHANGED <<snapshot, runs>> /\ ItemsRight(b) /\ BaseInv /\ StoreOK
      /\ c.wave = b.wave /\ c.mode = b.mode /\ c.cur = b.cur /\ b.pc = "consume" /\ c.pc = "next"
      /\ SentRight /\ RoutedOnce /\ b \in Call
      /\ handoffs' = Taken(Current(b).inputs, Current(b).run)
  BY BaseStore, CallBase DEF Takes, RouteInv
<1>1. Current(b).run \in Nat
  <2>1. Item(d) \in ItemType /\ Item(d) = Current(b)
    BY <1>0, Known, CurrentItem DEF BaseInv, Waving, Item, Current
  <2> QED BY <2>1 DEF ItemType
<1>2. HandsStay
  <2>1. PICK H, by : H = Current(b).inputs /\ by = Current(b).run
    OBVIOUS
  <2>2. /\ DOMAIN handoffs' = DOMAIN handoffs
        /\ \A h \in DOMAIN handoffs :
             /\ handoffs'[h].edge = handoffs[h].edge /\ handoffs'[h].source = handoffs[h].source
             /\ handoffs'[h].synthetic = handoffs[h].synthetic
    BY <1>0, <1>1, <2>1, TakenFacts
  <2> QED BY <2>2 DEF HandsStay
<1>3. SentRight' /\ RoutedOnce'
  BY <1>0, <1>2, SentStay DEF EndsStay
<1>4. Ahead(c) = Ahead(b)
  BY <1>0 DEF Ahead, BegunIn, Waving
<1>5. ItemsRight(c)'
  BY <1>0, <1>4 DEF ItemsRight, Ahead, BegunIn
<1> QED BY <1>0, <1>3, <1>5, RouteStep

(* The steps of others while a driver is at work.                            *)
LEMMA RouteOutside ==
  ASSUME RouteInv, BaseInv', UNCHANGED call, HandsStay,
         \A r \in DOMAIN runs : r \in DOMAIN runs' /\ runs'[r] = runs[r]
  PROVE  RouteInv'
<1>1. SentRight' /\ RoutedOnce'
  BY SentStay DEF EndsStay, RouteInv
<1>2. ASSUME NEW e \in Drivers
      PROVE  ItemsRight(call[e])'
  <2>0. PICK c : c = call[e]
    OBVIOUS
  <2>1. ItemsRight(c) /\ KnownIn(c) /\ BaseInv
    BY <2>0, CallBase DEF RouteInv
  <2>2. ASSUME c.pc \in {"route", "consume"}
        PROVE  Current(c).run \in DOMAIN runs
    <3>1. c.cur \in DOMAIN c.wave
      BY <2>0, <2>1, <2>2, Known, CurrentItem DEF BaseInv, Waving
    <3>2. c.cur \in BegunIn(c)
      BY <2>2, <3>1 DEF BegunIn, Waving
    <3> QED BY <2>1, <3>2 DEF KnownIn, Current
  <2>3. ASSUME NEW k \in Ahead(c)
        PROVE  c.wave[k].run \in DOMAIN runs
    BY <2>1, <2>3 DEF KnownIn, Ahead
  <2>4. ASSUME NEW h \in DOMAIN handoffs', ~handoffs'[h].synthetic
        PROVE  /\ h \in DOMAIN handoffs /\ ~handoffs[h].synthetic
               /\ handoffs'[h].edge = handoffs[h].edge /\ handoffs'[h].source = handoffs[h].source
    BY <2>4 DEF HandsStay
  <2>5. ASSUME c.pc = "route", NEW h \in DOMAIN handoffs', ~handoffs'[h].synthetic,
               handoffs'[h].source = Current(c).run
        PROVE  handoffs'[h].edge < c.via
    BY <2>1, <2>4, <2>5 DEF ItemsRight
  <2>6. \A k \in Ahead(c) :
          runs'[c.wave[k].run].status \in IF c.mode = "gates" THEN {"WAITING_APPROVAL"} ELSE Undone
    BY <2>1, <2>3 DEF ItemsRight
  <2>7. /\ c.pc \in {"route", "consume"} => runs'[Current(c).run].status \notin Undone
        /\ c.pc = "route" => runs'[Current(c).run].status \in TerminalRun
    BY <2>1, <2>2 DEF ItemsRight
  <2>8. ItemsRight(c)'
    BY <2>5, <2>6, <2>7 DEF ItemsRight, Ahead, BegunIn, TerminalRun, Undone, Current
  <2> QED BY <2>0, <2>8
<1> QED BY <1>1, <1>2 DEF RouteInv


LEMMA RouteOthers ==
  ASSUME OneDriver, RouteInv, BaseInv', Reviewer \/ Recovery \/ CancelMission \/ Intervention
  PROVE  RouteInv'
<1>0. StoreOK /\ BaseInv
  BY BaseStore DEF RouteInv
<1>1. ASSUME UNCHANGED <<runs, handoffs, call>>
      PROVE  RouteInv'
  <2>1. HandsStay
    BY <1>1, StillStay
  <2> QED BY <1>1, <2>1, RouteOutside
<1>2. CASE Reviewer \/ Recovery \/ CancelMission
  <2>1. UNCHANGED <<runs, handoffs, call>>
    BY <1>2 DEF Reviewer, Recovery, CancelMission, Decide, Tell, RecoverJob
  <2> QED BY <1>1, <2>1
<1>3. ASSUME NEW key \in Keys, Refused(key)
      PROVE  RouteInv'
  BY <1>1, <1>3 DEF Refused, storeVars
<1>4. ASSUME NEW key \in Keys, NEW n \in Nodes, RetryNode(key, n)
      PROVE  RouteInv'
  <2>1. UNCHANGED <<runs, call>>
    BY <1>4 DEF RetryNode
  <2>2. PICK branch : Rehanded(n, branch)
    BY <1>0, <1>4, RetryEffect
  <2>3. HandsStay
    BY <2>2 DEF Rehanded, Added, HandsStay
  <2> QED BY <2>1, <2>3, RouteOutside
<1>5. ASSUME NEW key \in Keys, NEW n \in Nodes, CancelBranch(key, n)
      PROVE  RouteInv'
  <2>1. UNCHANGED call
    BY <1>5 DEF CancelBranch
  <2>2. Passed(n)
    BY <1>0, <1>5, SkipEffect
  <2>3. HandsStay
    BY <2>2 DEF Passed, Added, HandsStay
  <2>4. \A r \in DOMAIN runs : r \in DOMAIN runs' /\ runs'[r] = runs[r]
    BY <2>2 DEF Passed
  <2> QED BY <2>1, <2>3, <2>4, RouteOutside
<1> QED BY <1>2, <1>3, <1>4, <1>5 DEF Intervention

LEMMA RouteDriver ==
  ASSUME OneDriver, RouteInv, BaseInv', NEW d \in Drivers,
         Driver(d) \/ Crash(d) \/ \E k \in DOMAIN call[d].wave : TooLate(d, k)
  PROVE  RouteInv'
<1>1. PICK b : b = call[d]
  OBVIOUS
<1>2. PICK c : Shape(d, b, c)
  BY <1>1, DriverShape DEF RouteInv
<1>3. CASE \E status \in TerminalRun \cup {"WAITING_APPROVAL"}, out \in Outcome \cup {"skipped"},
              approval \in Asked :
             /\ status = "WAITING_APPROVAL" => approval # 0
             /\ Ends(d, b, c, status, out, approval)
  BY <1>1, <1>3, RouteEnds
<1> QED
  BY <1>1, <1>2, <1>3, RouteStill, RouteCreates, RouteMarks, RouteSends, RouteTakes DEF Shape

LEMMA RouteNext ==
  ASSUME OneDriver, RouteInv, [Next]_vars
  PROVE  RouteInv'
<1>0. BaseInv'
  BY BaseNext DEF RouteInv
<1>1. CASE Next
  BY <1>0, <1>1, RouteDriver, RouteOthers DEF Next
<1>2. CASE UNCHANGED vars
  BY <1>0, <1>2, StillStay, RouteOutside DEF vars, storeVars
<1> QED BY <1>1, <1>2

LEMMA RouteInit ==
  ASSUME Init
  PROVE  RouteInv
<1>1. BaseInv
  BY BaseInit
<1>2. handoffs = <<>> /\ \A d \in Drivers : call[d] = NoCall
  BY DEF Init
<1>3. SentRight /\ RoutedOnce
  BY <1>2 DEF SentRight, RoutedOnce
<1>4. \A d \in Drivers : ItemsRight(call[d])
  BY <1>2 DEF ItemsRight, Ahead, BegunIn, NoCall
<1> QED BY <1>1, <1>3, <1>4 DEF RouteInv

LEMMA RouteHolds == ASSUME OneDriver PROVE Spec => []RouteInv
<1>1. Init => RouteInv
  BY RouteInit
<1>2. RouteInv /\ [Next]_vars => RouteInv'
  BY RouteNext
<1> QED BY <1>1, <1>2, PTL DEF Spec

(* A result goes over an edge once: the handoffs of a run are stored one by   *)
(* one behind the end of the run, each in a transaction of its own, and the   *)
(* call may die between any two of them, be taken up by the recovery scan or  *)
(* by an operator's retry; whatever is left is not sent a second time, but    *)
(* as the synthetic handoffs interventions make (_route_handoffs).            *)
THEOREM RoutesOnce == ASSUME OneDriver PROVE Spec => []RoutedOnce
<1>1. RouteInv => RoutedOnce
  BY DEF RouteInv
<1> QED BY <1>1, RouteHolds, PTL
(* A node has one active run; who took a handoff has ended.                 *)
OneActive ==
  \A q, r \in RunsIn(ActiveRun) : runs[q].node = runs[r].node => q = r
StillFree(c) ==
  /\ Unseen(c) => \A k \in Unmade(c) : RunsOf(c.wave[k].node) \cap RunsIn(ActiveRun) = {}
  /\ c.pc \in {"route", "consume"} /\ c.mode # "gates" =>
       RunsOf(Current(c).node) \cap RunsIn(Undone) = {}
TakenRight ==
  \A h \in DOMAIN handoffs :
    /\ handoffs[h].status = "PENDING" => handoffs[h].by = 0
    /\ handoffs[h].by # 0 =>
         handoffs[h].by \in DOMAIN runs /\ runs[handoffs[h].by].status \notin Undone

(* What a join was started for is still there, or was taken back.            *)
InputsRight ==
  \A r \in RunsIn(Undone) : AllGiven(runs[r].node, PendingTo(runs[r].node))
InputsIn(c) ==
  /\ Unseen(c) => \A k \in Unmade(c) : AllGiven(c.wave[k].node, PendingTo(c.wave[k].node))
  /\ c.pc \in Waving /\ c.mode # "gates" =>
       \A k \in DOMAIN c.wave :
         /\ \A h \in c.wave[k].inputs : Edge[handoffs[h].edge].to = c.wave[k].node
         /\ AllGiven(c.wave[k].node, c.wave[k].inputs)

JoinInv ==
  /\ RouteInv /\ OneActive /\ TakenRight /\ InputsRight /\ JoinComplete
  /\ \A d \in Drivers : StillFree(call[d]) /\ InputsIn(call[d])

-----------------------------------------------------------------------------
(* The limits of the edges: between the count and the insert of a handoff    *)
(* nobody else sends one.                                                   *)

HasEdge(h, e) == handoffs[h].edge = e /\ ~handoffs[h].synthetic
Sent(e) == {h \in DOMAIN handoffs : HasEdge(h, e)}

LEMMA SentFinite ==
  ASSUME StoreOK, NEW e
  PROVE  /\ IsFiniteSet(Sent(e)) /\ Cardinality(Sent(e)) \in Nat
         /\ Traversals(e) \in Nat /\ Cardinality(Sent(e)) <= Traversals(e)
<1> DEFINE over == {h \in DOMAIN handoffs : handoffs[h].edge = e}
<1>1. IsFiniteSet(DOMAIN handoffs) /\ over \in SUBSET DOMAIN handoffs /\ Sent(e) \in SUBSET over
  BY RowFacts DEF Sent, HasEdge
<1>2. IsFiniteSet(over) /\ IsFiniteSet(Sent(e)) /\ Cardinality(Sent(e)) <= Cardinality(over)
  <2>1. IsFiniteSet(over)
    BY <1>1, FS_Subset
  <2> QED BY <1>1, <2>1, FS_Subset
<1> QED BY <1>2, FS_CardinalityType DEF Traversals

LEMMA SentSame ==
  ASSUME StoreOK, DOMAIN handoffs \subseteq DOMAIN handoffs',
         \A h \in DOMAIN handoffs :
           handoffs'[h].edge = handoffs[h].edge /\ handoffs'[h].synthetic = handoffs[h].synthetic,
         \A h \in DOMAIN handoffs' \ DOMAIN handoffs : handoffs'[h].synthetic
  PROVE  \A e : Sent(e)' = Sent(e)
BY DEF Sent, HasEdge

RoomRight(c) == c.room => Cardinality(Sent(c.via)) < Edge[c.via].limit
EdgeInv == BaseInv /\ EdgesWithin /\ \A d \in Drivers : RoomRight(call[d])

LEMMA EdgesAre == EdgesWithin <=> \A e \in Edges : Cardinality(Sent(e)) <= Edge[e].limit
BY DEF EdgesWithin, Sent, HasEdge

LEMMA EdgesAreNext ==
  EdgesWithin' <=> \A e \in Edges' : Cardinality(Sent(e)') <= Edge'[e].limit
BY DEF EdgesWithin, Sent, HasEdge

(* A step that sends nothing leaves the limits alone.                        *)
LEMMA EdgesKept ==
  ASSUME EdgesWithin, Edges' = Edges, Edge' = Edge, \A e : Sent(e)' = Sent(e)
  PROVE  EdgesWithin'
BY EdgesAre, EdgesAreNext

LEMMA SentStill ==
  ASSUME UNCHANGED <<handoffs, snapshot>>
  PROVE  Edges' = Edges /\ Edge' = Edge /\ \A e : Sent(e)' = Sent(e)
BY DEF Edges, Edge, Sent, HasEdge

LEMMA EdgeStep ==
  ASSUME OneDriver, EdgeInv, BaseInv', EdgesWithin', NEW d \in Drivers, NEW c, Go(d, c), RoomRight(c)'
  PROVE  EdgeInv'
<1>1. \A e \in Drivers : call'[e] = c
  BY OnlyCall DEF EdgeInv
<1>2. ASSUME NEW e \in Drivers
      PROVE  RoomRight(call[e])'
  BY <1>1
<1> QED BY <1>2 DEF EdgeInv

LEMMA EdgeReturn ==
  ASSUME OneDriver, EdgeInv, BaseInv', NEW d \in Drivers, Return(d), UNCHANGED <<handoffs, snapshot>>
  PROVE  EdgeInv'
<1>1. Go(d, NoCall)
  BY Known, ReturnFacts DEF EdgeInv, BaseInv
<1>2. RoomRight(NoCall)'
  BY DEF RoomRight, NoCall
<1>3. EdgesWithin'
  BY SentStill, EdgesKept DEF EdgeInv
<1> QED BY <1>1, <1>2, <1>3, EdgeStep

LEMMA EdgeRoute ==
  ASSUME OneDriver, EdgeInv, BaseInv', NEW d \in Drivers, Route(d)
  PROVE  EdgeInv'
<1>0. StoreOK /\ call[d] \in Call /\ ~call[d].room /\ UNCHANGED <<handoffs, snapshot>> /\ BaseInv
  BY Known DEF EdgeInv, BaseInv, Route, storeVars
<1>1. EdgesWithin'
  BY <1>0, SentStill, EdgesKept DEF EdgeInv
<1>2. ASSUME NEW c, Go(d, c), ~c.room
      PROVE  EdgeInv'
  BY <1>1, <1>2, EdgeStep DEF RoomRight
<1>3. ASSUME NEW goal, Routed(d, goal)
      PROVE  EdgeInv'
  <2>1. PICK label : label = (IF call[d].mode = "gates" THEN "next" ELSE "consume")
    OBVIOUS
  <2>2. PICK c : c = [call[d] EXCEPT !.pc = label, !.goal = goal]
    OBVIOUS
  <2>3. Go(d, c) /\ ~c.room
    BY <1>0, <1>3, <2>1, <2>2 DEF Routed, Call
  <2> QED BY <1>2, <2>3
<1>4. ASSUME NEW via, Go(d, [call[d] EXCEPT !.via = via])
      PROVE  EdgeInv'
  <2>1. PICK c : c = [call[d] EXCEPT !.via = via]
    OBVIOUS
  <2>2. Go(d, c) /\ ~c.room
    BY <1>0, <1>4, <2>1 DEF Call
  <2> QED BY <1>2, <2>2
<1>5. ASSUME NEW e, Traversals(e) < Edge[e].limit, e \in Edges, Counted(d, e)
      PROVE  EdgeInv'
  <2>1. PICK c : c = [call[d] EXCEPT !.via = e, !.room = TRUE]
    OBVIOUS
  <2>2. Go(d, c) /\ c.via = e
    BY <1>0, <1>5, <2>1 DEF Counted, Call
  <2>3. /\ Cardinality(Sent(e)) \in Nat /\ Traversals(e) \in Nat
        /\ Cardinality(Sent(e)) <= Traversals(e) /\ Edge[e].limit \in Nat
    BY <1>0, <1>5, SentFinite, TemplateFacts DEF StoreOK, EdgeType
  <2>4. Cardinality(Sent(e)) < Edge[e].limit
    BY <1>5, <2>3
  <2>5. RoomRight(c)'
    BY <1>0, <2>2, <2>4, SentStill DEF RoomRight
  <2> QED BY <1>1, <2>2, <2>5, EdgeStep
<1>6. PICK open, e : open = {f \in Edges : f >= call[d].via /\ Matching(d, f)} /\ e = Min(open)
  OBVIOUS
<1>7. open # {} => e \in Edges
  <2>1. open \in SUBSET Nat /\ IsFiniteSet(open)
    BY <1>0, <1>6, TemplateFacts, FS_Subset DEF StoreOK
  <2> QED BY <1>6, <2>1, MinMax
<1>8. \/ \E goal : Routed(d, goal)
      \/ \E via : Go(d, [call[d] EXCEPT !.via = via])
      \/ e \in Edges /\ Traversals(e) < Edge[e].limit /\ Counted(d, e)
  BY <1>6, <1>7 DEF Route
<1> QED BY <1>3, <1>4, <1>5, <1>8

LEMMA EdgeHandOver ==
  ASSUME OneDriver, EdgeInv, BaseInv', NEW d \in Drivers, HandOver(d)
  PROVE  EdgeInv'
<1>0. /\ StoreOK /\ call[d] \in Call /\ call[d].room /\ call[d].via \in Edges
      /\ BaseInv /\ UNCHANGED snapshot
  BY Known DEF EdgeInv, BaseInv, HandOver, Sound
<1>1. PICK b, e : b = call[d] /\ e = call[d].via
  OBVIOUS
<1>2. PICK c : Sends(d, b, c)
  BY <1>0, <1>1, HandOverShape
<1>3. PICK row \in Handoff : handoffs' = Append(handoffs, row) /\ row.synthetic = FALSE
                            /\ row.edge = e
  <2>1. handoffs' = Append(handoffs,
          [edge |-> e, source |-> Item(d).run, status |-> "PENDING", by |-> 0,
           approval |-> runs[Item(d).run].approval, synthetic |-> FALSE])
    BY <1>1 DEF HandOver
  <2>2. PICK row \in Handoff : handoffs' = Append(handoffs, row)
    BY <1>2 DEF Sends
  <2>3. PICK given : given = [edge |-> e, source |-> Item(d).run, status |-> "PENDING", by |-> 0,
                              approval |-> runs[Item(d).run].approval, synthetic |-> FALSE]
    OBVIOUS
  <2>4. row = given
    <3>1. Len(handoffs) \in Nat /\ handoffs \in Seq(Handoff)
      BY <1>0, RowFacts DEF StoreOK
    <3>2. Append(handoffs, row)[Len(handoffs) + 1] = row
      BY <3>1
    <3>3. Append(handoffs, given)[Len(handoffs) + 1] = given
      BY <3>1
    <3> QED BY <2>1, <2>2, <2>3, <3>2, <3>3
  <2> QED BY <2>2, <2>3, <2>4
<1>4. /\ DOMAIN handoffs' = DOMAIN handoffs \cup {Len(handoffs) + 1}
      /\ Len(handoffs) + 1 \notin DOMAIN handoffs
      /\ \A h \in DOMAIN handoffs : handoffs'[h] = handoffs[h]
      /\ handoffs'[Len(handoffs) + 1] = row
  BY <1>0, <1>3, AppendHandoff
<1>5. Edges' = Edges /\ Edge' = Edge
  BY <1>0 DEF Edges, Edge
<1>6. ASSUME NEW f \in Edges
      PROVE  Cardinality(Sent(f)') <= Edge[f].limit
  <2>1. CASE f # e
    <3>1. Sent(f)' = Sent(f)
      BY <1>3, <1>4, <2>1 DEF Sent, HasEdge
    <3> QED BY <3>1, EdgesAre DEF EdgeInv
  <2>2. CASE f = e
    <3>1. Sent(f)' = Sent(f) \cup {Len(handoffs) + 1} /\ Len(handoffs) + 1 \notin Sent(f)
      BY <1>3, <1>4, <2>2 DEF Sent, HasEdge
    <3>2. IsFiniteSet(Sent(f)) /\ Cardinality(Sent(f)) \in Nat
      BY <1>0, SentFinite
    <3>3. Cardinality(Sent(f)') = Cardinality(Sent(f)) + 1
      BY <3>1, <3>2, FS_AddElement
    <3>4. Edge[f].limit \in Nat
      BY <1>0, TemplateFacts DEF StoreOK, EdgeType
    <3>5. Cardinality(Sent(f)) < Edge[f].limit
      BY <1>0, <1>1, <2>2 DEF EdgeInv, RoomRight
    <3> QED BY <3>2, <3>3, <3>4, <3>5
  <2> QED BY <2>1, <2>2
<1>7. EdgesWithin'
  BY <1>5, <1>6, EdgesAreNext
<1>8. PICK a : a = [call[d] EXCEPT !.via = call[d].via + 1, !.room = FALSE]
  OBVIOUS
<1>9. Go(d, a) /\ ~a.room
  BY <1>0, <1>8 DEF HandOver, Call
<1>10. RoomRight(a)'
  BY <1>9 DEF RoomRight
<1> QED BY <1>7, <1>9, <1>10, EdgeStep

(* Where a driver is that routes.                                           *)
LEMMA OnlyRoute ==
  ASSUME NEW d \in Drivers, Driver(d), call[d].pc = "route"
  PROVE  Route(d) \/ HandOver(d)
<1>1. ~(Start(d) \/ Wake(d) \/ Look(d) \/ Rounds(d) \/ Settle(d) \/ Finish(d) \/ CompleteMission(d)
        \/ FailMission(d) \/ Prepare(d) \/ Collect(d) \/ Repeated(d) \/ CountStep(d) \/ Reopen(d))
  BY Zenon DEF Start, Wake, Look, Rounds, Settle, Finish, CompleteMission, FailMission, Prepare, Collect,
     Repeated, CountStep, Reopen, At
<1>2. ~Scan(d) /\ ~Plan(d) /\ ~Resume(d)
  BY DEF Scan, Plan, Resume, At
<1>3. ~CreateRun(d) /\ ~MarkRunning(d) /\ ~Consume(d) /\ ~NextItem(d) /\ ~ResumeGate(d)
  BY DEF CreateRun, MarkRunning, Consume, NextItem, ResumeGate, At
<1>4. ~ApplyWaiting(d) /\ ~ApplySuccess(d) /\ ~ApplyFailure(d) /\ ~ApplyRetry(d) /\ ~Fresh(d)
  BY DEF ApplyWaiting, ApplySuccess, ApplyFailure, ApplyRetry, Fresh, At
<1>5. ASSUME NEW k \in DOMAIN call[d].wave
      PROVE  ~Thread(d, k)
  BY DEF Thread, RunProgram, RunGate, Choose, Bind, StartJob, Lease, Work, Report, Executing, At
<1> QED BY <1>1, <1>2, <1>3, <1>4, <1>5 DEF Driver

LEMMA EdgeShape ==
  ASSUME OneDriver, EdgeInv, BaseInv', NEW d \in Drivers, NEW b, b = call[d], b.pc # "route",
         NEW c, Shape(d, b, c)
  PROVE  EdgeInv'
<1>0. StoreOK /\ CallsOK /\ b \in Call /\ Go(d, c)
  BY Known DEF EdgeInv, BaseInv, Shape, Calm, Inside, Gates, Begins, Resumes, Creates, Marks, Sends,
     Takes, Ends
<1>1. c.room => c.pc = "route"
  <2>1. call'[d] = c
    BY <1>0, GoFacts
  <2>2. InCall(d)'
    BY CallBaseNext
  <2> QED BY <2>1, <2>2 DEF InCall
<1>2. ~c.room
  <2>1. c.pc # "route" => ~c.room
    BY <1>1
  <2>2. CASE \E status, out, approval : Ends(d, b, c, status, out, approval)
    BY <2>2 DEF Ends
  <2>3. CASE ~ \E status, out, approval : Ends(d, b, c, status, out, approval)
    <3>1. c.pc # "route"
      BY <2>3 DEF Shape, Calm, Inside, Gates, Begins, Resumes, Creates, Marks, Sends, Takes, Waving
    <3> QED BY <2>1, <3>1
  <2> QED BY <2>2, <2>3
<1>3. Edges' = Edges /\ Edge' = Edge /\ \A e : Sent(e)' = Sent(e)
  <2>1. CASE UNCHANGED <<handoffs, snapshot>>
    BY <2>1, SentStill
  <2>2. CASE Takes(d, b, c)
    <3>1. PICK H, by : H = Current(b).inputs /\ by = Current(b).run
      OBVIOUS
    <3>2. handoffs' = Taken(H, by) /\ UNCHANGED snapshot
      BY <2>2, <3>1 DEF Takes
    <3>3. /\ DOMAIN handoffs' = DOMAIN handoffs
          /\ \A h \in DOMAIN handoffs : /\ handoffs'[h].edge = handoffs[h].edge
                                        /\ handoffs'[h].synthetic = handoffs[h].synthetic
      <4>1. \A h \in DOMAIN handoffs : handoffs[h] \in Handoff
        BY <1>0, RowFacts
      <4> QED BY <3>2, <4>1 DEF Taken, Handoff
    <3> QED BY <3>2, <3>3 DEF Edges, Edge, Sent, HasEdge
  <2>3. UNCHANGED <<handoffs, snapshot>> \/ Takes(d, b, c)
    BY DEF Shape, Calm, Inside, Gates, Begins, Resumes, Creates, Marks, Sends, Ends, Still
  <2> QED BY <2>1, <2>2, <2>3
<1>4. EdgesWithin' /\ RoomRight(c)'
  BY <1>2, <1>3, EdgesKept DEF EdgeInv, RoomRight
<1> QED BY <1>0, <1>4, EdgeStep

LEMMA EdgeOutside ==
  ASSUME EdgeInv, BaseInv', UNCHANGED call, Edges' = Edges, Edge' = Edge, \A e : Sent(e)' = Sent(e)
  PROVE  EdgeInv'
<1>1. ASSUME NEW d \in Drivers
      PROVE  RoomRight(call[d])'
  BY DEF EdgeInv, RoomRight
<1> QED BY <1>1, EdgesKept DEF EdgeInv

LEMMA EdgeOthers ==
  ASSUME EdgeInv, BaseInv', Reviewer \/ Recovery \/ CancelMission \/ Intervention
  PROVE  EdgeInv'
<1>0. StoreOK /\ Len(runs) + 1 \in Nat
  BY BaseStore, RowFacts DEF EdgeInv
<1>1. CASE Reviewer \/ Recovery \/ CancelMission
  <2>1. UNCHANGED <<call, handoffs, snapshot>>
    BY <1>1 DEF Reviewer, Recovery, CancelMission, Decide, Tell, RecoverJob
  <2> QED BY <2>1, SentStill, EdgeOutside
<1>2. CASE Intervention
  <2>1. PICK key \in Keys : Refused(key) \/ \E n \in Nodes : RetryNode(key, n) \/ CancelBranch(key, n)
    BY <1>2 DEF Intervention
  <2>2. CASE Refused(key)
    <3>1. UNCHANGED <<call, handoffs, snapshot>>
      BY <2>2 DEF Refused, storeVars
    <3> QED BY <3>1, SentStill, EdgeOutside
  <2>3. ASSUME NEW H, NEW by, Added(H, by), UNCHANGED call, Edges' = Edges, Edge' = Edge
        PROVE  EdgeInv'
    <3>1. \A e : Sent(e)' = Sent(e)
      BY <1>0, <2>3, SentSame DEF Added
    <3> QED BY <2>3, <3>1, EdgeOutside
  <2>4. ASSUME NEW n \in Nodes, RetryNode(key, n)
        PROVE  EdgeInv'
    <3>1. PICK branch, extra : RetryHands(n, branch, extra)
      BY <1>0, <2>4, RetryRows, Zenon
    <3>2. PICK z \in Nat : handoffs' = Taken(branch, 0) \o extra /\ Extra(extra, z)
      BY <3>1 DEF RetryHands, Extra
    <3>3. Added(branch, 0)
      BY <1>0, <3>2, AddSynthetic
    <3>4. UNCHANGED call /\ Edges' = Edges /\ Edge' = Edge
      BY <1>0, <2>4, RetryTemplate DEF RetryNode
    <3> QED BY <2>3, <3>3, <3>4
  <2>5. ASSUME NEW n \in Nodes, CancelBranch(key, n)
        PROVE  EdgeInv'
    <3>1. PICK extra : \E m \in Nat :
            /\ handoffs' = Taken(PendingTo(n), Len(runs) + 1) \o extra
            /\ DOMAIN extra = 1 .. m /\ extra = [i \in 1 .. m |-> extra[i]]
            /\ \A i \in 1 .. m :
                 /\ extra[i] \in Handoff /\ extra[i].synthetic = TRUE
                 /\ extra[i].status = "PENDING" /\ extra[i].by = 0
      BY <1>0, <2>5, SkipRows, Zenon
    <3>2. PICK z \in Nat, by \in Nat :
            handoffs' = Taken(PendingTo(n), by) \o extra /\ Extra(extra, z)
      BY <1>0, <3>1 DEF Extra
    <3>3. Added(PendingTo(n), by)
      BY <1>0, <3>2, AddSynthetic
    <3>4. UNCHANGED call /\ Edges' = Edges /\ Edge' = Edge
      BY <2>5 DEF CancelBranch, Edges, Edge
    <3> QED BY <2>3, <3>3, <3>4
  <2> QED BY <2>1, <2>2, <2>4, <2>5
<1> QED BY <1>1, <1>2

LEMMA EdgeNext ==
  ASSUME OneDriver, EdgeInv, BaseInv', [Next]_vars
  PROVE  EdgeInv'
<1>0. BaseInv
  BY DEF EdgeInv
<1>1. ASSUME NEW d \in Drivers, Driver(d)
      PROVE  EdgeInv'
  <2>1. PICK b : b = call[d]
    OBVIOUS
  <2>2. CASE b.pc = "route"
    BY <1>1, <2>1, <2>2, OnlyRoute, EdgeRoute, EdgeHandOver
  <2>3. CASE b.pc # "route"
    <3>1. PICK c : Shape(d, b, c)
      BY <1>0, <1>1, <2>1, DriverShape
    <3> QED BY <2>1, <2>3, <3>1, EdgeShape
  <2> QED BY <2>2, <2>3
<1>2. ASSUME NEW d \in Drivers, NEW k \in DOMAIN call[d].wave, TooLate(d, k)
      PROVE  EdgeInv'
  <2>1. PICK b : b = call[d]
    OBVIOUS
  <2>2. b.pc # "route"
    BY <1>2, <2>1 DEF TooLate, At
  <2>3. PICK c : Shape(d, b, c)
    BY <1>0, <1>2, <2>1, DriverShape
  <2> QED BY <2>1, <2>2, <2>3, EdgeShape
<1>3. ASSUME NEW d \in Drivers, Crash(d)
      PROVE  EdgeInv'
  BY <1>3, EdgeReturn DEF Crash, storeVars
<1>4. CASE UNCHANGED vars
  <2>1. UNCHANGED <<call, handoffs, snapshot>>
    BY <1>4 DEF vars, storeVars
  <2> QED BY <2>1, SentStill, EdgeOutside
<1> QED BY <1>1, <1>2, <1>3, <1>4, EdgeOthers DEF Next

LEMMA EdgeInit ==
  ASSUME Init
  PROVE  EdgeInv
<1>1. BaseInv /\ handoffs = <<>>
  BY BaseInit DEF Init
<1>2. \A d \in Drivers : RoomRight(call[d])
  BY DEF Init, NoCall, RoomRight
<1>3. ASSUME NEW e \in Edges
      PROVE  Cardinality(Sent(e)) <= Edge[e].limit
  <2>1. Sent(e) = {}
    BY <1>1 DEF Sent
  <2>2. Edge[e].limit \in Nat
    BY <1>1, BaseStore, TemplateFacts DEF StoreOK, EdgeType
  <2> QED BY <2>1, <2>2, FS_EmptySet
<1> QED BY <1>1, <1>2, <1>3, EdgesAre DEF EdgeInv

(* While one driver is at work no node has more runs than max_runs and no    *)
(* edge carries more handoffs than its limit, though the driver may die      *)
(* between the count and the insert and operators retry nodes and cancel     *)
(* branches there (ready_nodes, create_graph_node_run,                       *)
(* _create_matching_edges).  Two drivers at once may pass the second limit.  *)
THEOREM LimitsHold == ASSUME OneDriver PROVE Spec => []WithinLimits
<1>1. Init => EdgeInv
  BY EdgeInit
<1>2. EdgeInv /\ BaseInv' /\ [Next]_vars => EdgeInv'
  BY EdgeNext
<1>3. EdgeInv => WithinLimits
  BY DEF EdgeInv, BaseInv, CountInv, WithinLimits
<1> QED BY <1>1, <1>2, <1>3, BaseHolds, PTL DEF Spec

-----------------------------------------------------------------------------
(* JoinInv *)

SameTemplate ==
  /\ Nodes' = Nodes /\ Edge' = Edge
  /\ \A n \in Nodes : Node'[n].join = Node[n].join

(* What is taken stays taken, by whom it was.                                *)
HandsKept ==
  \A h \in DOMAIN handoffs :
    /\ h \in DOMAIN handoffs' /\ handoffs'[h].edge = handoffs[h].edge
    /\ handoffs[h].status = "CONSUMED" =>
         handoffs'[h].status = "CONSUMED" /\ handoffs'[h].by = handoffs[h].by

(* What waits for a node goes on waiting or is taken back.                   *)
Keeps(n) ==
  \A h \in PendingTo(n) :
    \/ handoffs'[h].status = "PENDING"
    \/ handoffs'[h].status = "CONSUMED" /\ handoffs'[h].by = 0

LEMMA GivenStays ==
  ASSUME SameTemplate, HandsKept, NEW n \in Nodes, NEW H, H \subseteq DOMAIN handoffs, AllGiven(n, H),
         NEW G, H \subseteq G \cup TakenBack(n)'
  PROVE  AllGiven(n, G)'
<1>1. TakenBack(n) \subseteq TakenBack(n)'
  BY DEF TakenBack, HandsKept, SameTemplate
<1>2. \A h \in H \cup TakenBack(n) : h \in DOMAIN handoffs /\ handoffs'[h].edge = handoffs[h].edge
  BY DEF TakenBack, HandsKept
<1>3. Edge' = Edge /\ Node'[n].join = Node[n].join /\ Incoming(n)' = Incoming(n)
  BY DEF SameTemplate, Incoming, Edges
<1>4. Sources(H \cup TakenBack(n)) \subseteq {Edge[handoffs'[h].edge].from : h \in G \cup TakenBack(n)'}
  BY <1>1, <1>2 DEF Sources
<1>5. Node[n].join = "all" =>
        {Edge[e].from : e \in Incoming(n)} \subseteq {Edge[handoffs'[h].edge].from : h \in G \cup TakenBack(n)'}
  BY <1>4 DEF AllGiven
<1> QED BY <1>3, <1>5 DEF AllGiven, Sources

LEMMA WaitingStays ==
  ASSUME SameTemplate, HandsKept, NEW n \in Nodes, AllGiven(n, PendingTo(n)), Keeps(n)
  PROVE  AllGiven(n, PendingTo(n))'
<1>1. PICK G, H : G = PendingTo(n)' /\ H = PendingTo(n)
  OBVIOUS
<1>2. H \subseteq DOMAIN handoffs
  BY <1>1 DEF PendingTo, Pending
<1>3. H \subseteq G \cup TakenBack(n)'
  BY <1>1, <1>2 DEF PendingTo, Pending, TakenBack, Keeps, HandsKept, SameTemplate
<1>4. AllGiven(n, H)
  BY <1>1
<1>5. AllGiven(n, G)'
  BY <1>2, <1>3, <1>4, GivenStays
<1> QED BY <1>1, <1>5 DEF AllGiven, Sources

LEMMA OneActiveStays ==
  ASSUME OneActive,
         \A q \in RunsIn(ActiveRun)' : q \in RunsIn(ActiveRun) /\ runs'[q].node = runs[q].node
  PROVE  OneActive'
BY DEF OneActive

LEMMA InputsStay ==
  ASSUME StoreOK, InputsRight, SameTemplate, HandsKept,
         \A r \in RunsIn(Undone)' :
           r \in RunsIn(Undone) /\ runs'[r].node = runs[r].node /\ Keeps(runs[r].node)
  PROVE  InputsRight'
<1>1. ASSUME NEW r \in RunsIn(Undone)'
      PROVE  AllGiven(runs[r].node, PendingTo(runs[r].node))'
  <2>1. PICK n : n = runs[r].node
    OBVIOUS
  <2>2. r \in RunsIn(Undone) /\ runs'[r].node = n /\ Keeps(n)
    BY <1>1, <2>1
  <2>3. AllGiven(n, PendingTo(n))
    BY <2>1, <2>2 DEF InputsRight
  <2>4. n \in Nodes
    BY <2>1, <2>2, RowFacts DEF RunsIn, Run
  <2>5. AllGiven(n, PendingTo(n))'
    BY <2>2, <2>3, <2>4, WaitingStays
  <2> QED BY <2>2, <2>5 DEF AllGiven, Sources, PendingTo, Incoming
<1> QED BY <1>1 DEF InputsRight

TakenSo(h) ==
  \/ /\ h \in DOMAIN handoffs
     /\ handoffs'[h].status = handoffs[h].status /\ handoffs'[h].by = handoffs[h].by
  \/ handoffs'[h].by = 0
  \/ /\ handoffs'[h].status = "CONSUMED" /\ handoffs'[h].by \in DOMAIN runs'
     /\ runs'[handoffs'[h].by].status \notin Undone

LEMMA TakenStay ==
  ASSUME TakenRight, \A h \in DOMAIN handoffs' : TakenSo(h),
         \A r \in DOMAIN runs :
           r \in DOMAIN runs' /\ (runs[r].status \notin Undone => runs'[r].status \notin Undone)
  PROVE  TakenRight'
<1>1. ASSUME NEW h \in DOMAIN handoffs'
      PROVE  /\ handoffs'[h].status = "PENDING" => handoffs'[h].by = 0
             /\ handoffs'[h].by # 0 =>
                  handoffs'[h].by \in DOMAIN runs' /\ runs'[handoffs'[h].by].status \notin Undone
  BY DEF TakenSo, TakenRight
<1> QED BY <1>1 DEF TakenRight, Undone

LEMMA JoinGiven ==
  ASSUME StoreOK, SameTemplate, HandsKept,
         \A r \in RunsIn({"SUCCEEDED", "FAILED", "WAITING_APPROVAL"})' : TakenBy(r)' # {} =>
           /\ r \in DOMAIN runs /\ runs'[r].node = runs[r].node
           /\ \E H \in SUBSET DOMAIN handoffs : AllGiven(runs[r].node, H) /\ H \subseteq TakenBy(r)'
  PROVE  JoinComplete'
<1>1. ASSUME NEW r \in RunsIn({"SUCCEEDED", "FAILED", "WAITING_APPROVAL"})', TakenBy(r)' # {}
      PROVE  AllGiven(runs[r].node, TakenBy(r))'
  <2>1. PICK n, G : n = runs[r].node /\ G = TakenBy(r)'
    OBVIOUS
  <2>2. PICK H \in SUBSET DOMAIN handoffs : AllGiven(n, H) /\ H \subseteq G
    BY <1>1, <2>1
  <2>3. r \in DOMAIN runs /\ runs'[r].node = n
    BY <1>1, <2>1
  <2>4. n \in Nodes
    BY <2>1, <2>3, RowFacts DEF Run
  <2>5. AllGiven(n, G)'
    BY <2>2, <2>4, GivenStays
  <2> QED BY <2>1, <2>3, <2>5 DEF AllGiven, Sources
<1> QED BY <1>1 DEF JoinComplete

LEMMA JoinStay ==
  ASSUME StoreOK, JoinComplete, SameTemplate, HandsKept,
         \A r \in RunsIn({"SUCCEEDED", "FAILED", "WAITING_APPROVAL"})' : TakenBy(r)' # {} =>
           /\ r \in RunsIn({"SUCCEEDED", "FAILED", "WAITING_APPROVAL"})
           /\ runs'[r].node = runs[r].node /\ TakenBy(r) # {} /\ TakenBy(r) \subseteq TakenBy(r)'
  PROVE  JoinComplete'
<1>1. ASSUME NEW r \in RunsIn({"SUCCEEDED", "FAILED", "WAITING_APPROVAL"})', TakenBy(r)' # {}
      PROVE  /\ r \in DOMAIN runs /\ runs'[r].node = runs[r].node
             /\ \E H \in SUBSET DOMAIN handoffs : AllGiven(runs[r].node, H) /\ H \subseteq TakenBy(r)'
  <2>1. TakenBy(r) \in SUBSET DOMAIN handoffs /\ AllGiven(runs[r].node, TakenBy(r))
    BY <1>1 DEF JoinComplete, TakenBy
  <2> QED BY <1>1, <2>1 DEF RunsIn
<1> QED BY <1>1, JoinGiven

LEMMA JoinStep ==
  ASSUME OneDriver, JoinInv, RouteInv', NEW d \in Drivers, NEW c, Go(d, c),
         OneActive', TakenRight', InputsRight', JoinComplete', StillFree(c)', InputsIn(c)'
  PROVE  JoinInv'
<1>1. \A e \in Drivers : call'[e] = c
  BY OnlyCall DEF JoinInv, RouteInv
<1>2. ASSUME NEW e \in Drivers
      PROVE  StillFree(call[e])' /\ InputsIn(call[e])'
  BY <1>1
<1> QED BY <1>2 DEF JoinInv

LEMMA JoinParts ==
  ASSUME JoinInv, NEW d \in Drivers
  PROVE  /\ BaseInv /\ StoreOK /\ OneActive /\ TakenRight /\ InputsRight /\ JoinComplete
         /\ StillFree(call[d]) /\ InputsIn(call[d]) /\ ItemsRight(call[d])
         /\ call[d] \in Call /\ InCall(d) /\ KnownIn(call[d]) /\ RunsCounted(d)
BY CallBase, BaseStore DEF JoinInv, RouteInv, BaseInv, CountInv

LEMMA SameStill == ASSUME UNCHANGED <<snapshot, handoffs>> PROVE SameTemplate /\ HandsKept
BY DEF SameTemplate, HandsKept, Nodes, Node, Edge

LEMMA JoinAlike ==
  ASSUME OneDriver, JoinInv, RouteInv', NEW d \in Drivers, NEW c, Go(d, c), Still,
         StillFree(c), InputsIn(c)
  PROVE  JoinInv'
<1>0. /\ StoreOK /\ OneActive /\ TakenRight /\ InputsRight /\ JoinComplete
      /\ SameTemplate /\ HandsKept /\ UNCHANGED <<snapshot, runs, handoffs>>
  BY JoinParts, SameStill DEF Still
<1>a. OneActive' /\ TakenRight'
  BY <1>0 DEF OneActive, TakenRight, RunsIn
<1>b. InputsRight'
  <2>1. \A r \in RunsIn(Undone)' :
          r \in RunsIn(Undone) /\ runs'[r].node = runs[r].node /\ Keeps(runs[r].node)
    BY <1>0 DEF RunsIn, Keeps, PendingTo, Pending
  <2> QED BY <1>0, <2>1, InputsStay
<1>c. JoinComplete'
  <2>1. \A r \in RunsIn({"SUCCEEDED", "FAILED", "WAITING_APPROVAL"})' : TakenBy(r)' # {} =>
           /\ r \in RunsIn({"SUCCEEDED", "FAILED", "WAITING_APPROVAL"})
           /\ runs'[r].node = runs[r].node /\ TakenBy(r) # {} /\ TakenBy(r) \subseteq TakenBy(r)'
    BY <1>0 DEF RunsIn, TakenBy
  <2> QED BY <1>0, <2>1, JoinStay
<1>2. StillFree(c)'
  BY <1>0 DEF StillFree, Unseen, RunsIn, RunsOf, Unmade, Current
<1>3. InputsIn(c)'
  <2>1. Unseen(c)' = Unseen(c) /\ Unmade(c)' = Unmade(c)
    BY <1>0 DEF Unseen, Unmade
  <2>2. \A n : (PendingTo(n)' = PendingTo(n) /\ TakenBack(n)' = TakenBack(n) /\ Incoming(n)' = Incoming(n))
    BY <1>0 DEF PendingTo, Pending, TakenBack, Incoming, Edges, Edge
  <2>3. Edge' = Edge /\ Node' = Node
    BY <1>0 DEF Edge, Node
  <2>4. \A n, H : (AllGiven(n, H)' <=> AllGiven(n, H))
    BY ZenonT(40), <1>0, <2>2, <2>3 DEF AllGiven, Sources
  <2>5. ASSUME NEW k
        PROVE  AllGiven(c.wave[k].node, PendingTo(c.wave[k].node))' <=>
                 AllGiven(c.wave[k].node, PendingTo(c.wave[k].node))
    <3>1. PICK n, H : n = c.wave[k].node /\ H = PendingTo(n)
      OBVIOUS
    <3>2. AllGiven(n, H)' <=> AllGiven(n, H)
      BY <2>4
    <3>3. H = PendingTo(n)'
      BY <2>2, <3>1
    <3> QED BY <3>1, <3>2, <3>3
  <2> QED BY <1>0, <2>1, <2>3, <2>4, <2>5 DEF InputsIn, Current
<1> QED BY <1>a, <1>b, <1>c, <1>2, <1>3, JoinStep

LEMMA JoinStill ==
  ASSUME OneDriver, JoinInv, RouteInv', NEW d \in Drivers, NEW b, b = call[d], NEW c,
         Calm(d, c) \/ Inside(d, b, c) \/ Gates(d, c) \/ Begins(d, c) \/ Resumes(d, c)
  PROVE  JoinInv'
<1>0. /\ Go(d, c) /\ Still /\ StoreOK /\ InputsRight
      /\ StillFree(b) /\ InputsIn(b) /\ b \in Call /\ InCall(d)
  BY JoinParts DEF Calm, Inside, Gates, Begins, Resumes
<1>1. CASE Calm(d, c)
  BY <1>0, <1>1, JoinAlike DEF Calm, StillFree, InputsIn, Unseen, Waving
<1>2. CASE Inside(d, b, c)
  <2>1. ~Unseen(c)
    BY <1>2 DEF Inside, Unseen
  <2>2. ASSUME c.pc \in {"route", "consume"}, c.mode # "gates"
        PROVE  RunsOf(Current(c).node) \cap RunsIn(Undone) = {}
    <3>1. b.pc = "route" /\ c.cur = b.cur /\ c.mode = b.mode
      BY <1>2, <2>2 DEF Inside, SameItems
    <3>2. b.cur \in DOMAIN b.wave
      BY <1>0, <3>1 DEF InCall, Waving, Call
    <3>3. Current(c).node = Current(b).node
      BY <1>2, <3>1, <3>2 DEF Inside, SameItems, Alike, Current
    <3> QED BY <1>0, <2>2, <3>1, <3>3 DEF StillFree
  <2>3. StillFree(c)
    BY <2>1, <2>2 DEF StillFree
  <2>4. InputsIn(c)
    BY <1>0, <1>2, <2>1 DEF Inside, InputsIn, SameItems, Alike
  <2> QED BY <1>0, <2>3, <2>4, JoinAlike
<1>3. CASE Gates(d, c)
  BY <1>0, <1>3, JoinAlike DEF Gates, StillFree, InputsIn, Unseen
<1>4. CASE Begins(d, c)
  <2>1. ASSUME NEW k \in DOMAIN c.wave
        PROVE  /\ RunsOf(c.wave[k].node) \cap RunsIn(ActiveRun) = {}
               /\ c.wave[k].inputs = PendingTo(c.wave[k].node)
               /\ AllGiven(c.wave[k].node, PendingTo(c.wave[k].node))
    <3>1. PICK n : n = c.wave[k].node
      OBVIOUS
    <3>2. Ready(n, c.limits) /\ c.wave[k].inputs = PendingTo(n)
      BY <1>4, <2>1, <3>1 DEF Begins, ReadyNodes
    <3>3. RunsOf(n) \cap RunsIn(ActiveRun) = {} /\ (Incoming(n) # {} => JoinMet(n, PendingTo(n)))
      BY <3>2 DEF Ready
    <3>4. AllGiven(n, PendingTo(n))
      BY <3>3 DEF AllGiven, JoinMet, Sources
    <3> QED BY <3>1, <3>2, <3>3, <3>4
  <2>2. StillFree(c)
    BY <1>4, <2>1 DEF Begins, StillFree, Unmade
  <2>3. \A k \in DOMAIN c.wave : \A h \in c.wave[k].inputs : Edge[handoffs[h].edge].to = c.wave[k].node
    BY <2>1 DEF PendingTo
  <2>4. InputsIn(c)
    BY <1>4, <2>1, <2>3 DEF Begins, InputsIn, Unmade
  <2> QED BY <1>0, <2>2, <2>4, JoinAlike
<1>5. CASE Resumes(d, c)
  <2>1. ASSUME NEW k \in DOMAIN c.wave
        PROVE  /\ \A h \in c.wave[k].inputs : Edge[handoffs[h].edge].to = c.wave[k].node
               /\ AllGiven(c.wave[k].node, c.wave[k].inputs)
    <3>1. PICK r \in Resumable :
            c.wave[k] = IF jobs[JobOf(r)] = "queued" THEN Left(r) ELSE Persisted(Left(r), jobs[JobOf(r)])
      BY <1>5, <2>1 DEF Resumes
    <3>2. c.wave[k].node = runs[r].node /\ c.wave[k].inputs = PendingTo(runs[r].node)
      BY <3>1 DEF Left, Persisted, WaveItem
    <3>3. r \in RunsIn(Undone)
      BY DEF Resumable, Held, RunsIn, Undone
    <3>4. AllGiven(runs[r].node, PendingTo(runs[r].node))
      BY <1>0, <3>3 DEF InputsRight
    <3> QED BY <3>2, <3>4 DEF PendingTo
  <2>2. StillFree(c) /\ InputsIn(c)
    BY <1>5, <2>1 DEF Resumes, StillFree, InputsIn, Unseen
  <2> QED BY <1>0, <2>2, JoinAlike
<1> QED BY <1>1, <1>2, <1>3, <1>4, <1>5

LEMMA InputsMove ==
  ASSUME NEW b \in Call, NEW c, InputsIn(b), SameTemplate, HandsKept, c.mode = b.mode,
         DOMAIN c.wave = DOMAIN b.wave, c.pc \in Waving => b.pc \in Waving,
         \A k \in DOMAIN b.wave :
           c.wave[k].node = b.wave[k].node /\ c.wave[k].inputs = b.wave[k].inputs,
         Unseen(c)' => /\ Unseen(b) /\ Unmade(c) \subseteq Unmade(b)
                       /\ \A k \in Unmade(c) : Keeps(b.wave[k].node)
  PROVE  InputsIn(c)'
<1>1. \A k \in DOMAIN b.wave : b.wave[k].node \in Nodes /\ b.wave[k].inputs \in SUBSET DOMAIN handoffs
  <2>1. \A k \in DOMAIN b.wave : b.wave[k] \in ItemType
    BY DEF Call
  <2> QED BY <2>1 DEF ItemType
<1>2. ASSUME Unseen(c)', NEW k \in Unmade(c)
      PROVE  AllGiven(c.wave[k].node, PendingTo(c.wave[k].node))'
  <2>1. PICK n : n = c.wave[k].node
    OBVIOUS
  <2>2. k \in Unmade(b) /\ Unseen(b) /\ Keeps(b.wave[k].node) /\ k \in DOMAIN b.wave
    BY <1>2 DEF Unmade
  <2>3. n = b.wave[k].node
    BY <2>1, <2>2
  <2>4. n \in Nodes /\ AllGiven(n, PendingTo(n)) /\ Keeps(n)
    BY <1>1, <2>2, <2>3 DEF InputsIn
  <2>5. AllGiven(n, PendingTo(n))'
    BY <2>4, WaitingStays
  <2> QED BY <2>1, <2>5
<1>3. ASSUME c.pc \in Waving, c.mode # "gates", NEW k \in DOMAIN c.wave
      PROVE  /\ \A h \in c.wave[k].inputs : Edge'[handoffs'[h].edge].to = c.wave[k].node
             /\ AllGiven(c.wave[k].node, c.wave[k].inputs)'
  <2>1. PICK n, H : n = c.wave[k].node /\ H = c.wave[k].inputs
    OBVIOUS
  <2>2. n = b.wave[k].node /\ H = b.wave[k].inputs /\ k \in DOMAIN b.wave
    BY <1>3, <2>1
  <2>3. n \in Nodes /\ H \subseteq DOMAIN handoffs /\ AllGiven(n, H)
    BY <1>1, <1>3, <2>2 DEF InputsIn
  <2>4. \A h \in H : Edge[handoffs[h].edge].to = n
    BY <1>3, <2>2 DEF InputsIn
  <2>5. AllGiven(n, H)'
    BY <2>3, GivenStays
  <2>6. \A h \in H : Edge'[handoffs'[h].edge].to = n
    BY <2>3, <2>4 DEF SameTemplate, HandsKept
  <2> QED BY <2>1, <2>5, <2>6
<1> QED BY <1>2, <1>3 DEF InputsIn, Unmade

LEMMA JoinCreates ==
  ASSUME OneDriver, JoinInv, RouteInv', NEW d \in Drivers, NEW b, b = call[d], NEW c, Creates(d, b, c)
  PROVE  JoinInv'
<1>0. /\ Go(d, c) /\ UNCHANGED <<snapshot, handoffs>> /\ SameTemplate /\ HandsKept /\ StoreOK
      /\ SameButRun(c, b) /\ b.pc = "create" /\ c.pc = "mark" /\ Len(runs) + 1 = b.base + b.cur
      /\ b.cur \in DOMAIN b.wave /\ Current(b) \in ItemType /\ InCall(d) /\ b \in Call
      /\ RunsCounted(d) /\ StillFree(b) /\ InputsIn(b) /\ OneActive /\ InputsRight /\ TakenRight
      /\ JoinComplete
  BY JoinParts, SameStill, Known, CurrentItem
     DEF Creates, JoinInv, RouteInv, BaseInv, Waving, Current, Item
<1>1. PICK row, n, new :
        /\ row = [node |-> Current(b).node, status |-> "CREATED", out |-> "none",
                  input |-> Current(b).approval, approval |-> 0]
        /\ n = Current(b).node /\ new = Len(runs) + 1
  OBVIOUS
<1>2. row \in Run /\ runs' = Append(runs, row) /\ row.status = "CREATED" /\ row.node = n /\ n \in Nodes
  <2>1. 0 \in Asked /\ Current(b).approval \in Asked
    BY <1>0, RowFacts DEF Asked, ItemType
  <2> QED BY <1>0, <1>1, <2>1 DEF Run, Outcome, ActiveRun, Creates, ItemType
<1>3. /\ DOMAIN runs' = DOMAIN runs \cup {new} /\ new \notin DOMAIN runs
      /\ \A r \in DOMAIN runs : runs'[r] = runs[r]
      /\ runs'[new] = row /\ Len(runs') = new
  BY <1>0, <1>1, <1>2, AppendRun
<1>4. b.cur \in Unmade(b) /\ Unseen(b)
  BY <1>0 DEF Unmade, Unseen
<1>5. RunsOf(n) \cap RunsIn(ActiveRun) = {} /\ AllGiven(n, PendingTo(n))
  BY <1>0, <1>1, <1>4 DEF StillFree, InputsIn, Current
<1>6. OneActive'
  <2>1. ASSUME NEW q \in RunsIn(ActiveRun)', NEW r \in RunsIn(ActiveRun)', runs'[q].node = runs'[r].node
        PROVE  q = r
    <3>1. \A s \in RunsIn(ActiveRun)' :
            s = new \/ (s \in RunsIn(ActiveRun) /\ runs'[s].node = runs[s].node)
      BY <1>3 DEF RunsIn
    <3>2. \A s \in RunsIn(ActiveRun) : runs[s].node # n
      BY <1>5 DEF RunsIn, RunsOf
    <3> QED
      <4>1. runs'[new].node = n /\ OneActive
        BY <1>0, <1>2, <1>3
      <4> QED BY <2>1, <3>1, <3>2, <4>1 DEF OneActive
  <2> QED BY <2>1 DEF OneActive
<1>7. \A m : Keeps(m)
  BY <1>0 DEF Keeps, PendingTo, Pending
<1>8. InputsRight'
  <2>1. ASSUME NEW r \in RunsIn(Undone)'
        PROVE  AllGiven(runs[r].node, PendingTo(runs[r].node))'
    <3>1. PICK m : m = runs'[r].node
      OBVIOUS
    <3>2. m \in Nodes /\ AllGiven(m, PendingTo(m))
      <4>1. CASE r = new
        BY <1>2, <1>3, <1>5, <3>1, <4>1
      <4>2. CASE r # new
        <5>1. r \in RunsIn(Undone) /\ m = runs[r].node
          BY <1>3, <2>1, <3>1, <4>2 DEF RunsIn
        <5> QED BY <1>0, <5>1, RowFacts DEF InputsRight, RunsIn, Run
      <4> QED BY <4>1, <4>2
    <3>3. AllGiven(m, PendingTo(m))'
      BY <1>0, <1>7, <3>2, WaitingStays
    <3> QED BY <3>1, <3>3 DEF AllGiven, Sources, PendingTo, Incoming
  <2> QED BY <2>1 DEF InputsRight
<1>9. TakenRight'
  BY <1>0, <1>3, TakenStay DEF TakenSo
<1>10. JoinComplete'
  <2>1. \A r \in RunsIn({"SUCCEEDED", "FAILED", "WAITING_APPROVAL"})' :
          r \in RunsIn({"SUCCEEDED", "FAILED", "WAITING_APPROVAL"}) /\ runs'[r].node = runs[r].node
    BY <1>2, <1>3 DEF RunsIn
  <2>2. \A r : TakenBy(r)' = TakenBy(r)
    BY <1>0 DEF TakenBy
  <2> QED BY <1>0, <2>1, <2>2, JoinStay
<1>11. Unmade(c) \subseteq Unmade(b) \ {b.cur} /\ DOMAIN c.wave = DOMAIN b.wave
  BY <1>0 DEF Unmade, SameButRun, Call
<1>12. StillFree(c)'
  <2>1. ASSUME NEW k \in Unmade(c)
        PROVE  RunsOf(c.wave[k].node)' \cap RunsIn(ActiveRun)' = {}
    <3>1. k \in Unmade(b) /\ k # b.cur /\ k \in DOMAIN b.wave /\ c.wave[k] = b.wave[k]
      BY <1>0, <1>11, <2>1 DEF SameButRun, Unmade
    <3>2. b.wave[k].node # n
      BY <1>0, <1>1, <3>1 DEF RunsCounted, Current
    <3>3. RunsOf(b.wave[k].node) \cap RunsIn(ActiveRun) = {}
      BY <1>0, <1>4, <3>1 DEF StillFree
    <3> QED BY <1>2, <1>3, <3>1, <3>2, <3>3 DEF RunsOf, RunsIn
  <2> QED BY <1>0, <2>1 DEF StillFree, Unmade
<1>13. InputsIn(c)'
  <2>1. \A k \in DOMAIN b.wave :
          c.wave[k].node = b.wave[k].node /\ c.wave[k].inputs = b.wave[k].inputs
    <3>1. c.wave[b.cur] = [Current(b) EXCEPT !.run = new]
      BY <1>0, <1>1 DEF SameButRun
    <3>2. c.wave[b.cur].node = b.wave[b.cur].node /\ c.wave[b.cur].inputs = b.wave[b.cur].inputs
      BY <1>0, <3>1 DEF Current, ItemType
    <3> QED BY <1>0, <3>2 DEF SameButRun
  <2> QED BY <1>0, <1>4, <1>7, <1>11, <2>1, InputsMove DEF SameButRun, Waving
<1> QED BY <1>0, <1>6, <1>8, <1>9, <1>10, <1>12, <1>13, JoinStep

LEMMA JoinMarks ==
  ASSUME OneDriver, JoinInv, RouteInv', NEW d \in Drivers, NEW b, b = call[d], NEW c, Marks(d, b, c)
  PROVE  JoinInv'
<1>0. /\ Go(d, c) /\ UNCHANGED <<snapshot, handoffs>> /\ SameTemplate /\ HandsKept /\ StoreOK
      /\ b.pc = "mark" /\ c.pc \in {"create", "prepare"} /\ c.wave = b.wave /\ c.mode = b.mode
      /\ c.base = b.base /\ (c.pc = "create" => c.cur = b.cur + 1)
      /\ b.cur \in DOMAIN b.wave /\ InCall(d) /\ KnownIn(b) /\ b \in Call
      /\ StillFree(b) /\ InputsIn(b) /\ OneActive /\ InputsRight /\ TakenRight
      /\ JoinComplete /\ ItemsRight(b)
  BY JoinParts, SameStill, Known, CurrentItem
     DEF Marks, JoinInv, RouteInv, BaseInv, Waving, Current, Item
<1>1. PICK r, row : r = Current(b).run /\ row = [runs[r] EXCEPT !.status = "RUNNING"]
  OBVIOUS
<1>2. b.cur \in BegunIn(b) /\ b.cur \in Ahead(b)
  BY <1>0 DEF Ahead, BegunIn, Waving, Call
<1>3. r \in DOMAIN runs /\ runs[r] \in Run /\ runs[r].status \in Undone
  BY <1>0, <1>1, <1>2, RowFacts DEF KnownIn, ItemsRight, InCall, Current
<1>4. /\ DOMAIN runs' = DOMAIN runs /\ runs'[r] = row /\ row.status = "RUNNING"
      /\ row.node = runs[r].node /\ Len(runs') = Len(runs)
      /\ \A q \in DOMAIN runs : q # r => runs'[q] = runs[q]
  BY <1>1, <1>3, <1>0 DEF Marks, Run, StoreOK
<1>5. /\ \A q \in DOMAIN runs : runs'[q].node = runs[q].node
      /\ RunsIn(ActiveRun)' = RunsIn(ActiveRun) /\ RunsIn(Undone)' = RunsIn(Undone)
      /\ RunsIn({"SUCCEEDED", "FAILED", "WAITING_APPROVAL"})' =
           RunsIn({"SUCCEEDED", "FAILED", "WAITING_APPROVAL"})
      /\ \A n : RunsOf(n)' = RunsOf(n)
  BY <1>3, <1>4 DEF RunsIn, RunsOf, ActiveRun, Undone
<1>6. OneActive'
  BY <1>0, <1>5, OneActiveStays DEF RunsIn
<1>7. \A m : Keeps(m)
  BY <1>0 DEF Keeps, PendingTo, Pending
<1>8. InputsRight'
  BY <1>0, <1>5, <1>7, InputsStay DEF RunsIn
<1>9. TakenRight'
  BY <1>0, <1>3, <1>4, TakenStay DEF TakenSo
<1>10. JoinComplete'
  <2>1. \A q : TakenBy(q)' = TakenBy(q)
    BY <1>0 DEF TakenBy
  <2> QED BY <1>0, <1>5, <2>1, JoinStay DEF RunsIn
<1>11. Unseen(c)' => Unseen(b) /\ Unmade(c) \subseteq Unmade(b)
  <2>1. Len(runs) \in Nat /\ b.cur \in Nat /\ b.base \in Nat
    BY <1>0 DEF Call, StoreOK
  <2>2. Unseen(c)' => c.pc = "create" /\ Len(runs) + 1 = b.base + b.cur + 1
    BY <1>0, <1>4, <2>1 DEF Unseen
  <2>3. Unseen(c)' => Unseen(b)
    BY <1>0, <2>1, <2>2 DEF Unseen
  <2>4. \A k \in DOMAIN b.wave : k \in Nat
    BY <1>0 DEF Call
  <2>5. c.pc = "create" => Unmade(c) \subseteq Unmade(b)
    BY <1>0, <2>1, <2>4 DEF Unmade
  <2> QED BY <2>2, <2>3, <2>5
<1>12. StillFree(c)'
  <2>1. ASSUME Unseen(c)', NEW k \in Unmade(c)
        PROVE  RunsOf(c.wave[k].node)' \cap RunsIn(ActiveRun)' = {}
    <3>1. PICK n : n = c.wave[k].node
      OBVIOUS
    <3>2. RunsOf(n) \cap RunsIn(ActiveRun) = {}
      BY <1>0, <1>11, <2>1, <3>1 DEF StillFree
    <3> QED BY <1>5, <3>1, <3>2
  <2> QED BY <1>0, <2>1 DEF StillFree, Unmade
<1>13. InputsIn(c)'
  BY <1>0, <1>7, <1>11, InputsMove DEF Waving
<1> QED BY <1>0, <1>6, <1>8, <1>9, <1>10, <1>12, <1>13, JoinStep

LEMMA JoinEnds ==
  ASSUME OneDriver, JoinInv, RouteInv', NEW d \in Drivers, NEW b, b = call[d], NEW c,
         NEW status \in TerminalRun \cup {"WAITING_APPROVAL"}, NEW out \in Outcome \cup {"skipped"},
         NEW approval \in Asked, status = "WAITING_APPROVAL" => approval # 0,
         Ends(d, b, c, status, out, approval)
  PROVE  JoinInv'
<1>0. /\ Go(d, c) /\ UNCHANGED <<snapshot, handoffs>> /\ SameTemplate /\ HandsKept /\ StoreOK
      /\ c.wave = b.wave /\ c.mode = b.mode /\ c.cur = b.cur /\ b.pc \in {"apply", "gate"}
      /\ c.pc \in {"route", "consume", "finish"} /\ b \in Call /\ KnownIn(b) /\ ItemsRight(b)
      /\ InputsIn(b) /\ OneActive /\ InputsRight /\ TakenRight /\ JoinComplete /\ RouteInv
  BY JoinParts, SameStill DEF Ends, Judged, JoinInv
<1>1. /\ b.cur \in DOMAIN b.wave /\ b.cur \in BegunIn(b) /\ Current(b).run \in DOMAIN runs
      /\ b.cur \in Ahead(b)
  BY <1>0, AheadEnds DEF Ahead, Call
<1>2. PICK r : r = Current(b).run
  OBVIOUS
<1>3. r \in DOMAIN runs /\ runs[r].node = Current(b).node
  BY <1>0, <1>1, <1>2 DEF KnownIn, Current
<1>4. runs[r].status \in IF b.mode = "gates" THEN {"WAITING_APPROVAL"} ELSE Undone
  BY <1>0, <1>1, <1>2 DEF ItemsRight, Current
<1>5. /\ DOMAIN runs' = DOMAIN runs /\ runs'[r].status = status
      /\ \A q \in DOMAIN runs : q # r => runs'[q] = runs[q]
      /\ \A q \in DOMAIN runs : runs'[q].node = runs[q].node
      /\ \A n : RunsOf(n)' = RunsOf(n)
  <2>1. Complete(r, status, out, approval)
    BY <1>2 DEF Ends
  <2> HIDE DEF Ends
  <2> QED BY <1>0, <1>3, <2>1, CompleteRow
<1>6. status \notin Undone
  BY DEF TerminalRun, Undone
<1>7. OneActive'
  <2>1. r \in RunsIn(ActiveRun)
    BY <1>3, <1>4 DEF RunsIn, Undone, ActiveRun
  <2>2. \A q \in RunsIn(ActiveRun)' : q \in RunsIn(ActiveRun) /\ runs'[q].node = runs[q].node
    BY <1>5, <2>1 DEF RunsIn
  <2> QED BY <1>0, <2>2, OneActiveStays
<1>8. \A m : Keeps(m)
  BY <1>0 DEF Keeps, PendingTo, Pending
<1>9. \A q \in RunsIn(Undone)' : q # r /\ q \in RunsIn(Undone) /\ runs'[q].node = runs[q].node
  BY <1>5, <1>6 DEF RunsIn
<1>10. InputsRight'
  BY <1>0, <1>8, <1>9, InputsStay
<1>11. TakenRight'
  BY <1>0, <1>5, <1>6, TakenStay DEF TakenSo
<1>12. JoinComplete'
  <2>1. \A q : TakenBy(q)' = TakenBy(q)
    BY <1>0 DEF TakenBy
  <2>2. ASSUME NEW q \in RunsIn({"SUCCEEDED", "FAILED", "WAITING_APPROVAL"})', TakenBy(q) # {}
        PROVE  q \in RunsIn({"SUCCEEDED", "FAILED", "WAITING_APPROVAL"}) /\ runs'[q].node = runs[q].node
    <3>1. CASE q # r
      BY <1>5, <2>2, <3>1 DEF RunsIn
    <3>2. CASE q = r
      <4>1. r >= 1 /\ r \in Nat
        BY <1>0, <1>3, RowFacts
      <4>2. runs[r].status \notin Undone
        BY <1>0, <2>2, <3>2, <4>1 DEF TakenBy, TakenRight
      <4> QED BY <1>3, <1>4, <1>5, <3>2, <4>2 DEF RunsIn
    <3> QED BY <3>1, <3>2
  <2> QED BY <1>0, <2>1, <2>2, JoinStay
<1>13. ~Unseen(c)'
  BY <1>0 DEF Unseen
<1>14. StillFree(c)'
  <2>1. ASSUME c.mode # "gates", NEW q \in RunsOf(Current(c).node)', q \in RunsIn(Undone)'
        PROVE  FALSE
    <3>1. PICK n : n = Current(c).node
      OBVIOUS
    <3>2. n = runs[r].node
      BY <1>0, <1>3, <3>1 DEF Current
    <3>3. q \in RunsOf(n)
      BY <1>5, <2>1, <3>1
    <3>4. q # r /\ q \in RunsIn(Undone)
      BY <1>9, <2>1
    <3>5. runs[r].status \in Undone
      BY <1>0, <1>4, <2>1
    <3>6. q \in RunsIn(ActiveRun) /\ r \in RunsIn(ActiveRun)
      BY <1>3, <3>4, <3>5 DEF RunsIn, Undone, ActiveRun
    <3> QED BY <1>0, <3>2, <3>3, <3>4, <3>6 DEF OneActive, RunsOf
  <2> QED BY <1>0, <1>13, <2>1 DEF StillFree
<1>15. InputsIn(c)'
  BY <1>0, <1>13, InputsMove DEF Waving
<1> QED BY <1>0, <1>7, <1>10, <1>11, <1>12, <1>14, <1>15, JoinStep

LEMMA JoinSends ==
  ASSUME OneDriver, JoinInv, RouteInv', NEW d \in Drivers, NEW b, b = call[d], NEW c, Sends(d, b, c)
  PROVE  JoinInv'
<1>0. /\ Go(d, c) /\ UNCHANGED <<snapshot, runs>> /\ SameTemplate /\ StoreOK
      /\ c.wave = b.wave /\ c.mode = b.mode /\ c.cur = b.cur /\ b.pc = "route" /\ c.pc = "route"
      /\ b \in Call /\ StillFree(b) /\ InputsIn(b) /\ OneActive /\ InputsRight /\ TakenRight
      /\ JoinComplete
  BY JoinParts DEF Sends, SameTemplate, Nodes, Node, Edge
<1>1. PICK row \in Handoff :
        handoffs' = Append(handoffs, row) /\ row.status = "PENDING" /\ row.by = 0
  BY DEF Sends
<1>2. PICK new : new = Len(handoffs) + 1
  OBVIOUS
<1>3. /\ DOMAIN handoffs' = DOMAIN handoffs \cup {new} /\ handoffs'[new] = row
      /\ \A h \in DOMAIN handoffs : handoffs'[h] = handoffs[h]
  BY <1>0, <1>1, <1>2, AppendHandoff
<1>4. HandsKept /\ \A m : Keeps(m)
  BY <1>3 DEF HandsKept, Keeps, PendingTo, Pending
<1>5. OneActive'
  BY <1>0 DEF OneActive, RunsIn
<1>6. InputsRight'
  BY <1>0, <1>4, InputsStay DEF RunsIn
<1>7. TakenRight'
  BY <1>0, <1>1, <1>3, TakenStay DEF TakenSo
<1>8. JoinComplete'
  <2>1. \A r \in DOMAIN runs : r # 0
    BY <1>0, RowFacts
  <2>2. \A r \in DOMAIN runs : TakenBy(r)' = TakenBy(r)
    BY <1>1, <1>3, <2>1 DEF TakenBy
  <2> QED BY <1>0, <1>4, <2>2, JoinStay DEF RunsIn
<1>9. ~Unseen(c)'
  BY <1>0 DEF Unseen
<1>10. StillFree(c)'
  BY <1>0, <1>9 DEF StillFree, Current, RunsOf, RunsIn
<1>11. InputsIn(c)'
  BY <1>0, <1>4, <1>9, InputsMove
<1> QED BY <1>0, <1>5, <1>6, <1>7, <1>8, <1>10, <1>11, JoinStep

LEMMA JoinTakes ==
  ASSUME OneDriver, JoinInv, RouteInv', NEW d \in Drivers, NEW b, b = call[d], NEW c, Takes(d, b, c)
  PROVE  JoinInv'
<1>0. /\ Go(d, c) /\ UNCHANGED <<snapshot, runs>> /\ SameTemplate /\ StoreOK
      /\ c.wave = b.wave /\ c.mode = b.mode /\ c.cur = b.cur /\ b.pc = "consume" /\ c.pc = "next"
      /\ b \in Call /\ StillFree(b) /\ InputsIn(b) /\ OneActive /\ InputsRight /\ TakenRight
      /\ JoinComplete /\ b.cur \in DOMAIN b.wave /\ b.mode # "gates" /\ KnownIn(b) /\ ItemsRight(b)
      /\ Current(b).inputs \subseteq Pending
      /\ handoffs' = Taken(Current(b).inputs, Current(b).run)
  BY JoinParts DEF Takes, SameTemplate, Nodes, Node, Edge, InCall, Call, Waving
<1>1. PICK H, r, n : H = Current(b).inputs /\ r = Current(b).run /\ n = Current(b).node
  OBVIOUS
<1>2. r \in DOMAIN runs /\ runs[r].node = n /\ runs[r].status \notin Undone /\ r \in Nat /\ r >= 1
  <2>1. b.cur \in BegunIn(b)
    BY <1>0 DEF BegunIn, Waving
  <2>2. r \in DOMAIN runs /\ runs[r].node = n /\ runs[r].status \notin Undone
    BY <1>0, <1>1, <2>1 DEF KnownIn, Current, ItemsRight
  <2> QED BY <1>0, <2>2, RowFacts
<1>3. /\ H \subseteq Pending /\ (\A h \in H : Edge[handoffs[h].edge].to = n) /\ AllGiven(n, H)
      /\ RunsOf(n) \cap RunsIn(Undone) = {}
  BY <1>0, <1>1 DEF InputsIn, Current, Waving, StillFree
<1>4. /\ DOMAIN handoffs' = DOMAIN handoffs
      /\ \A h \in DOMAIN handoffs : handoffs'[h].edge = handoffs[h].edge
      /\ \A h \in DOMAIN handoffs : h \notin H => handoffs'[h] = handoffs[h]
      /\ \A h \in DOMAIN handoffs : h \in H => handoffs'[h].status = "CONSUMED" /\ handoffs'[h].by = r
  <2>1. PICK T : T = Taken(H, r)
    OBVIOUS
  <2>2. StoreOK /\ r \in Nat /\ handoffs' = T
    BY <1>0, <1>1, <1>2, <2>1
  <2> QED BY <2>1, <2>2, TakenFacts
<1>5. HandsKept
  BY <1>3, <1>4 DEF HandsKept, Pending
<1>6. ASSUME NEW q \in RunsIn(Undone)
      PROVE  Keeps(runs[q].node)
  <2>1. runs[q].node # n
    BY <1>3, <1>6 DEF RunsOf, RunsIn
  <2>2. \A h \in PendingTo(runs[q].node) : h \notin H /\ h \in DOMAIN handoffs /\ handoffs[h].status = "PENDING"
    BY <1>3, <2>1 DEF PendingTo, Pending
  <2> QED BY <1>4, <2>2 DEF Keeps
<1>7. OneActive'
  BY <1>0 DEF OneActive, RunsIn
<1>8. InputsRight'
  BY <1>0, <1>5, <1>6, InputsStay DEF RunsIn
<1>9. TakenRight'
  BY <1>0, <1>2, <1>4, TakenStay DEF TakenSo
<1>10. JoinComplete'
  <2>1. ASSUME NEW q \in RunsIn({"SUCCEEDED", "FAILED", "WAITING_APPROVAL"})', TakenBy(q)' # {}
        PROVE  /\ q \in DOMAIN runs /\ runs'[q].node = runs[q].node
               /\ \E G \in SUBSET DOMAIN handoffs : AllGiven(runs[q].node, G) /\ G \subseteq TakenBy(q)'
    <3>1. q \in RunsIn({"SUCCEEDED", "FAILED", "WAITING_APPROVAL"}) /\ q \in DOMAIN runs
      BY <1>0, <2>1 DEF RunsIn
    <3>2. CASE q = r
      <4>1. H \in SUBSET DOMAIN handoffs /\ H \subseteq TakenBy(q)'
        BY <1>3, <1>4, <3>2 DEF TakenBy, Pending
      <4> QED BY <1>0, <1>2, <1>3, <3>1, <3>2, <4>1
    <3>3. CASE q # r
      <4>1. TakenBy(q) \in SUBSET DOMAIN handoffs /\ TakenBy(q)' = TakenBy(q)
        <5>1. \A h \in H : h \in DOMAIN handoffs /\ handoffs[h].by = 0
          BY <1>0, <1>3 DEF Pending, TakenRight
        <5>2. q # 0
          BY <1>0, <3>1, RowFacts
        <5> QED BY <1>4, <3>3, <5>1, <5>2 DEF TakenBy
      <4>2. AllGiven(runs[q].node, TakenBy(q))
        BY <1>0, <2>1, <3>1, <4>1 DEF JoinComplete
      <4> QED BY <1>0, <3>1, <4>1, <4>2
    <3> QED BY <3>2, <3>3
  <2> QED BY <1>0, <1>5, <2>1, JoinGiven
<1>11. ~Unseen(c)'
  BY <1>0 DEF Unseen
<1>12. StillFree(c)'
  BY <1>0, <1>11 DEF StillFree
<1>13. InputsIn(c)'
  BY <1>0, <1>5, <1>11, InputsMove DEF Waving
<1> QED BY <1>0, <1>7, <1>8, <1>9, <1>10, <1>12, <1>13, JoinStep

(* The steps of others while a driver is at work.                            *)
LEMMA JoinOutside ==
  ASSUME JoinInv, RouteInv', UNCHANGED call, SameTemplate, HandsKept,
         OneActive', TakenRight', InputsRight', JoinComplete',
         \A r \in DOMAIN runs : r \in DOMAIN runs' /\ runs'[r] = runs[r],
         \/ UNCHANGED runs /\ \A m : Keeps(m)
         \/ /\ DOMAIN runs' = DOMAIN runs \cup {Len(runs) + 1} /\ Len(runs') = Len(runs) + 1
            /\ runs'[Len(runs) + 1].status = "SKIPPED"
  PROVE  JoinInv'
<1>1. ASSUME NEW e \in Drivers
      PROVE  StillFree(call[e])' /\ InputsIn(call[e])'
  <2>1. PICK c : c = call[e]
    OBVIOUS
  <2>2. /\ StillFree(c) /\ InputsIn(c) /\ c \in Call /\ StoreOK
        /\ (c.pc = "create" => Len(runs) + 1 >= c.base + c.cur)
        /\ (c.pc = "mark" => Len(runs) >= c.base + c.cur)
    BY <2>1, JoinParts DEF RunsCounted
  <2>3. Unseen(c)' => Unseen(c) /\ UNCHANGED runs /\ \A m : Keeps(m)
    BY <2>2, RowFacts DEF Unseen, Call
  <2>4. RunsIn(Undone)' = RunsIn(Undone)
    BY DEF RunsIn, Undone
  <2>5. StillFree(c)'
    <3>1. ASSUME Unseen(c)', NEW k \in Unmade(c)
          PROVE  RunsOf(c.wave[k].node)' \cap RunsIn(ActiveRun)' = {}
      BY <2>2, <2>3, <3>1 DEF StillFree, RunsOf, RunsIn
    <3>2. ASSUME c.pc \in {"route", "consume"}, c.mode # "gates"
          PROVE  RunsOf(Current(c).node)' \cap RunsIn(Undone)' = {}
      <4>1. RunsOf(Current(c).node) \cap RunsIn(Undone) = {}
        BY <2>2, <3>2 DEF StillFree
      <4> QED BY <2>4, <4>1 DEF RunsOf, RunsIn, Current
    <3> QED BY <3>1, <3>2 DEF StillFree, Unmade
  <2>6. InputsIn(c)'
    BY <2>2, <2>3, InputsMove
  <2> QED BY <2>1, <2>5, <2>6
<1> QED BY <1>1 DEF JoinInv

LEMMA JoinRetries ==
  ASSUME JoinInv, RouteInv', NEW key \in Keys, NEW n \in Nodes, RetryNode(key, n)
  PROVE  JoinInv'
<1>0. /\ StoreOK /\ OneActive /\ TakenRight /\ InputsRight /\ JoinComplete
      /\ UNCHANGED <<runs, call>>
  BY BaseStore DEF JoinInv, RouteInv, RetryNode
<1>1. SameTemplate
  BY <1>0, RetryTemplate DEF SameTemplate
<1>2. PICK branch : Rehanded(n, branch)
  BY <1>0, RetryEffect
<1>3. HandsKept /\ \A m : Keeps(m)
  BY <1>2 DEF Rehanded, Added, HandsKept, Keeps, PendingTo, Pending
<1>4. OneActive'
  BY <1>0 DEF OneActive, RunsIn
<1>5. InputsRight'
  BY <1>0, <1>1, <1>3, InputsStay DEF RunsIn
<1>6. TakenRight'
  <2>1. \A h \in DOMAIN handoffs' : TakenSo(h)
    BY <1>2 DEF Rehanded, Added, TakenSo
  <2> QED BY <1>0, <2>1, TakenStay
<1>7. JoinComplete'
  <2>1. \A r \in DOMAIN runs : r # 0
    BY <1>0, RowFacts
  <2>2. ASSUME NEW r \in DOMAIN runs
        PROVE  TakenBy(r)' = TakenBy(r)
    <3>1. \A h \in branch : h \in DOMAIN handoffs /\ handoffs[h].by = 0 /\ handoffs'[h].by = 0
      BY <1>0, <1>2 DEF Rehanded, Added, TakenRight, Pending
    <3> QED BY <1>2, <2>1, <3>1 DEF Rehanded, Added, TakenBy
  <2> QED BY <1>0, <1>1, <1>3, <2>2, JoinStay DEF RunsIn
<1> QED BY <1>0, <1>1, <1>3, <1>4, <1>5, <1>6, <1>7, JoinOutside

LEMMA JoinSkips ==
  ASSUME JoinInv, RouteInv', NEW key \in Keys, NEW n \in Nodes, CancelBranch(key, n)
  PROVE  JoinInv'
<1>0. /\ StoreOK /\ OneActive /\ TakenRight /\ InputsRight /\ JoinComplete
      /\ UNCHANGED <<snapshot, call>>
  BY BaseStore DEF JoinInv, RouteInv, CancelBranch
<1>1. SameTemplate
  BY <1>0 DEF SameTemplate, Nodes, Node, Edge
<1>2. PICK new : new = Len(runs) + 1
  OBVIOUS
<1>3. /\ DOMAIN runs' = DOMAIN runs \cup {new} /\ new \notin DOMAIN runs /\ Len(runs') = Len(runs) + 1
      /\ runs'[new].status = "SKIPPED" /\ RunsOf(n) = {}
      /\ \A r \in DOMAIN runs : runs'[r] = runs[r]
      /\ Added(PendingTo(n), new) /\ new # 0
  <2>1. Passed(n) /\ Skipped(n).status = "SKIPPED"
    BY <1>0, SkipEffect DEF Skipped
  <2>2. new # 0
    BY <1>0, <1>2, RowFacts
  <2> QED BY <1>2, <2>1, <2>2 DEF Passed
<1>4. \A h \in PendingTo(n) : h \in DOMAIN handoffs /\ handoffs[h].status = "PENDING" /\ handoffs[h].by = 0
  BY <1>0 DEF PendingTo, Pending, TakenRight
<1>5. HandsKept
  BY <1>3, <1>4 DEF Added, HandsKept
<1>6. OneActive'
  <2>1. \A q \in RunsIn(ActiveRun)' : q \in RunsIn(ActiveRun) /\ runs'[q].node = runs[q].node
    BY <1>3 DEF RunsIn, ActiveRun
  <2> QED BY <1>0, <2>1, OneActiveStays
<1>7. InputsRight'
  <2>1. ASSUME NEW r \in RunsIn(Undone)'
        PROVE  r \in RunsIn(Undone) /\ runs'[r].node = runs[r].node /\ Keeps(runs[r].node)
    <3>1. r \in RunsIn(Undone) /\ runs'[r].node = runs[r].node
      BY <1>3, <2>1 DEF RunsIn, Undone
    <3>2. runs[r].node # n
      BY <1>3, <3>1 DEF RunsOf, RunsIn
    <3>3. \A h \in PendingTo(runs[r].node) : h \notin PendingTo(n) /\ handoffs'[h].status = "PENDING"
      BY <1>3, <3>2 DEF PendingTo, Pending, Added
    <3> QED BY <3>1, <3>3 DEF Keeps
  <2> QED BY <1>0, <1>1, <1>5, <2>1, InputsStay
<1>8. TakenRight'
  <2>1. \A h \in DOMAIN handoffs' : TakenSo(h)
    BY <1>3, <1>4 DEF Added, TakenSo, Undone
  <2> QED BY <1>0, <1>3, <2>1, TakenStay
<1>9. JoinComplete'
  <2>1. ASSUME NEW r \in RunsIn({"SUCCEEDED", "FAILED", "WAITING_APPROVAL"})'
        PROVE  /\ r \in RunsIn({"SUCCEEDED", "FAILED", "WAITING_APPROVAL"})
               /\ runs'[r].node = runs[r].node /\ TakenBy(r)' = TakenBy(r)
    <3>1. /\ r \in RunsIn({"SUCCEEDED", "FAILED", "WAITING_APPROVAL"}) /\ r # new /\ r # 0
          /\ runs'[r].node = runs[r].node
      BY <1>0, <1>3, <2>1, RowFacts DEF RunsIn
    <3>2. TakenBy(r)' = TakenBy(r)
      BY <1>3, <1>4, <3>1 DEF Added, TakenBy
    <3> QED BY <3>1, <3>2
  <2> QED BY <1>0, <1>1, <1>5, <2>1, JoinStay
<1> QED BY <1>0, <1>1, <1>2, <1>3, <1>5, <1>6, <1>7, <1>8, <1>9, JoinOutside

LEMMA JoinCalm ==
  ASSUME JoinInv, RouteInv', UNCHANGED <<snapshot, runs, handoffs, call>>
  PROVE  JoinInv'
<1>0. StoreOK /\ OneActive /\ TakenRight /\ InputsRight /\ JoinComplete
  BY BaseStore DEF JoinInv, RouteInv
<1>1. SameTemplate /\ HandsKept /\ \A m : Keeps(m)
  BY SameStill DEF Keeps, PendingTo, Pending
<1>2. OneActive' /\ TakenRight'
  BY <1>0 DEF OneActive, TakenRight, RunsIn
<1>3. InputsRight'
  BY <1>0, <1>1, InputsStay DEF RunsIn
<1>4. JoinComplete'
  <2>1. \A r : TakenBy(r)' = TakenBy(r)
    BY DEF TakenBy
  <2> QED BY <1>0, <1>1, <2>1, JoinStay DEF RunsIn
<1> QED BY <1>1, <1>2, <1>3, <1>4, JoinOutside

LEMMA JoinOthers ==
  ASSUME OneDriver, JoinInv, RouteInv', Reviewer \/ Recovery \/ CancelMission \/ Intervention
  PROVE  JoinInv'
<1>2. CASE Reviewer \/ Recovery \/ CancelMission
  <2>1. UNCHANGED <<snapshot, runs, handoffs, call>>
    BY <1>2 DEF Reviewer, Recovery, CancelMission, Decide, Tell, RecoverJob
  <2> QED BY <2>1, JoinCalm
<1>3. ASSUME NEW key \in Keys, Refused(key)
      PROVE  JoinInv'
  BY <1>3, JoinCalm DEF Refused, storeVars
<1> QED BY <1>2, <1>3, JoinRetries, JoinSkips DEF Intervention

LEMMA JoinDriver ==
  ASSUME OneDriver, JoinInv, RouteInv', NEW d \in Drivers,
         Driver(d) \/ Crash(d) \/ \E k \in DOMAIN call[d].wave : TooLate(d, k)
  PROVE  JoinInv'
<1>1. PICK b : b = call[d]
  OBVIOUS
<1>2. PICK c : Shape(d, b, c)
  BY <1>1, DriverShape DEF JoinInv, RouteInv
<1>3. CASE \E status \in TerminalRun \cup {"WAITING_APPROVAL"}, out \in Outcome \cup {"skipped"},
              approval \in Asked :
             /\ status = "WAITING_APPROVAL" => approval # 0
             /\ Ends(d, b, c, status, out, approval)
  BY <1>1, <1>3, JoinEnds
<1> QED
  BY <1>1, <1>2, <1>3, JoinStill, JoinCreates, JoinMarks, JoinSends, JoinTakes DEF Shape

LEMMA JoinNext ==
  ASSUME OneDriver, JoinInv, [Next]_vars
  PROVE  JoinInv'
<1>0. RouteInv'
  BY RouteNext DEF JoinInv
<1>1. CASE Next
  BY <1>0, <1>1, JoinDriver, JoinOthers DEF Next
<1>2. CASE UNCHANGED vars
  BY <1>0, <1>2, JoinCalm DEF vars, storeVars
<1> QED BY <1>1, <1>2

LEMMA JoinInit ==
  ASSUME Init
  PROVE  JoinInv
<1>1. RouteInv
  BY RouteInit
<1>2. runs = <<>> /\ handoffs = <<>> /\ \A d \in Drivers : call[d] = NoCall
  BY DEF Init
<1>3. RunsIn(ActiveRun) = {} /\ RunsIn(Undone) = {}
      /\ RunsIn({"SUCCEEDED", "FAILED", "WAITING_APPROVAL"}) = {}
  BY <1>2 DEF RunsIn
<1>4. OneActive /\ TakenRight /\ InputsRight /\ JoinComplete
  BY <1>2, <1>3 DEF OneActive, TakenRight, InputsRight, JoinComplete
<1>5. \A d \in Drivers : StillFree(call[d]) /\ InputsIn(call[d])
  BY <1>2 DEF StillFree, InputsIn, Unseen, NoCall, Waving
<1> QED BY <1>1, <1>4, <1>5 DEF JoinInv

LEMMA JoinHolds == ASSUME OneDriver PROVE Spec => []JoinInv
<1>1. Init => JoinInv
  BY JoinInit
<1>2. JoinInv /\ [Next]_vars => JoinInv'
  BY JoinNext
<1> QED BY <1>1, <1>2, PTL DEF Spec

(* A join of all sources has taken a result of each of them, unless one was  *)
(* taken back while its run was at work: the inputs are chosen when the wave  *)
(* is planned or a run resumed and taken only behind the end of the run, one  *)
(* transaction per node, while operators retry failed nodes and cancel       *)
(* branches, and the call may die in between (ready_nodes,                    *)
(* consume_graph_handoffs, intervene_graph).                                 *)
THEOREM JoinsAreComplete == ASSUME OneDriver PROVE Spec => []JoinComplete
<1>1. JoinInv => JoinComplete
  BY DEF JoinInv
<1> QED
  BY <1>1, JoinHolds, PTL
-----------------------------------------------------------------------------
(* A place has a job of its own.  A worker's item that is at its job knows it, *)
(* and what it answers is what that job was settled with; only gates wait,   *)
(* and a gate that answers knows the approval that says so.                  *)
Place(item) == <<item.node, item.index>>
PlaceOf(r) == <<runs[r].node, IndexOf(r)>>
BoundOnce == \A p, q \in DOMAIN bound : bound[p] = bound[q] => p = q
SettledAs(place, out) ==
  out \in Successes /\ place \in DOMAIN bound /\ jobs[bound[place]] = out
DecidedAs(a, out) ==
  out \in {"approved", "rejected"} =>
    a # 0 /\ a \in DOMAIN approvals /\ approvals[a].decision = out

RunRight(r) ==
  LET kind == Node[runs[r].node].kind
  IN /\ kind = "worker" /\ runs[r].status = "SUCCEEDED" => SettledAs(PlaceOf(r), runs[r].out)
     /\ kind = "gate" => DecidedAs(runs[r].approval, runs[r].out)
     /\ runs[r].status = "WAITING_APPROVAL" => kind = "gate"
RunsRight == \A r \in DOMAIN runs : RunRight(r)

ItemAsks(item) ==
  /\ item.out = "waiting" => Node[item.node].kind = "gate"
  /\ Node[item.node].kind = "gate" => DecidedAs(item.approval, item.out)
  /\ item.at \in {"bind", "start", "lease", "run", "report"} => IsWorker(item)
ItemJob(item) ==
  IsWorker(item) =>
    /\ item.at \in {"start", "lease", "run"} =>
         Place(item) \in DOMAIN bound /\ bound[Place(item)] = item.job
    /\ item.out \in Successes => SettledAs(Place(item), item.out)
CallRight(c) ==
  c.pc \in Waving =>
    /\ \A k \in DOMAIN c.wave :
         /\ ItemAsks(c.wave[k])
         /\ c.mode = "gates" => Node[c.wave[k].node].kind = "gate"
         /\ c.pc \in {"create", "mark"} => c.wave[k].at = "todo" /\ c.wave[k].out = "none"
    /\ \A k \in Ahead(c) : ItemJob(c.wave[k])
    /\ c.pc = "fresh" => IsWorker(Current(c))

ResultInv ==
  RouteInv /\ BoundOnce /\ RunsRight /\ \A d \in Drivers : CallRight(call[d])


-----------------------------------------------------------------------------
(* ResultInv *)

LEMMA IndexOnce ==
  ASSUME StoreOK, NEW q \in DOMAIN runs, NEW r \in DOMAIN runs, PlaceOf(q) = PlaceOf(r)
  PROVE  q = r
<1>1. PICK n, S : n = runs[r].node /\ S = RunsOf(n)
  OBVIOUS
<1>2. runs[q].node = n /\ IndexOf(q) = IndexOf(r)
  BY <1>1 DEF PlaceOf
<1>3. S \in SUBSET Nat /\ IsFiniteSet(S) /\ q \in S /\ r \in S
  BY <1>1, <1>2, RowFacts DEF RunsOf
<1>4. Rank(S, q) = IndexOf(q) /\ Rank(S, r) = IndexOf(r)
  BY <1>1, <1>2 DEF Rank, IndexOf
<1>5. \A x, y \in S : Rank(S, x) = Rank(S, y) => x = y
  BY <1>3, RankProps
<1> QED BY <1>2, <1>3, <1>4, <1>5

(* The jobs of all places but those of S, and what was decided, stay.        *)
SameKinds == \A n \in Nodes : Node'[n].kind = Node[n].kind
KeepsJobs(S) ==
  \A p \in DOMAIN bound \ S :
    /\ p \in DOMAIN bound' /\ bound'[p] = bound[p]
    /\ jobs[bound[p]] \in Successes => jobs'[bound[p]] = jobs[bound[p]]
KeepsDecisions ==
  \A a \in DOMAIN approvals :
    /\ a \in DOMAIN approvals'
    /\ approvals[a].decision # "pending" => approvals'[a].decision = approvals[a].decision

LEMMA KindsStay == ASSUME UNCHANGED snapshot PROVE SameKinds
BY DEF SameKinds, Node

LEMMA SettledAsStays ==
  ASSUME NEW S, KeepsJobs(S), NEW place, place \notin S, NEW out, SettledAs(place, out)
  PROVE  SettledAs(place, out)'
BY DEF KeepsJobs, SettledAs

LEMMA DecidedAsStays ==
  ASSUME KeepsDecisions, NEW a, NEW out, DecidedAs(a, out)
  PROVE  DecidedAs(a, out)'
BY DEF KeepsDecisions, DecidedAs

LEMMA RunStays ==
  ASSUME StoreOK, SameKinds, KeepsDecisions, NEW S, KeepsJobs(S), NEW r \in DOMAIN runs, RunRight(r),
         runs'[r] = runs[r], IndexOf(r)' = IndexOf(r),
         runs[r].status = "SUCCEEDED" => PlaceOf(r) \notin S
  PROVE  RunRight(r)'
<1>1. PICK row, place : row = runs[r] /\ place = PlaceOf(r)
  OBVIOUS
<1>2. runs'[r] = row /\ PlaceOf(r)' = place /\ row.node \in Nodes
  BY <1>1, RowFacts DEF PlaceOf, Run
<1>3. Node'[row.node].kind = Node[row.node].kind
  BY <1>2 DEF SameKinds
<1>4. DecidedAs(row.approval, row.out) => DecidedAs(row.approval, row.out)'
  BY DecidedAsStays
<1>5. row.status = "SUCCEEDED" /\ SettledAs(place, row.out) => SettledAs(place, row.out)'
  BY <1>1, SettledAsStays
<1>6. /\ Node[row.node].kind = "worker" /\ row.status = "SUCCEEDED" => SettledAs(place, row.out)
      /\ Node[row.node].kind = "gate" => DecidedAs(row.approval, row.out)
      /\ row.status = "WAITING_APPROVAL" => Node[row.node].kind = "gate"
  BY <1>1 DEF RunRight
<1>7. /\ Node'[row.node].kind = "worker" /\ row.status = "SUCCEEDED" => SettledAs(place, row.out)'
      /\ Node'[row.node].kind = "gate" => DecidedAs(row.approval, row.out)'
      /\ row.status = "WAITING_APPROVAL" => Node'[row.node].kind = "gate"
  BY <1>3, <1>4, <1>5, <1>6
<1>8. /\ Node'[runs'[r].node].kind = "worker" /\ runs'[r].status = "SUCCEEDED" =>
           SettledAs(PlaceOf(r), runs[r].out)'
      /\ Node'[runs'[r].node].kind = "gate" => DecidedAs(runs[r].approval, runs[r].out)'
      /\ runs'[r].status = "WAITING_APPROVAL" => Node'[runs'[r].node].kind = "gate"
  BY <1>2, <1>7 DEF SettledAs, DecidedAs
<1> QED BY <1>8 DEF RunRight

LEMMA AsksStays ==
  ASSUME SameKinds, KeepsDecisions, NEW item, item.node \in Nodes, ItemAsks(item)
  PROVE  ItemAsks(item)'
<1>1. DecidedAs(item.approval, item.out) => DecidedAs(item.approval, item.out)'
  BY DecidedAsStays
<1>2. Node'[item.node].kind = Node[item.node].kind
  BY DEF SameKinds
<1> QED BY <1>1, <1>2 DEF ItemAsks, IsWorker

LEMMA JobStays ==
  ASSUME SameKinds, NEW S, KeepsJobs(S), NEW item, item.node \in Nodes, Place(item) \notin S, ItemJob(item)
  PROVE  ItemJob(item)'
<1>1. PICK place : place = Place(item)
  OBVIOUS
<1>2. SettledAs(place, item.out) => SettledAs(place, item.out)'
  BY <1>1, SettledAsStays
<1>3. Node'[item.node].kind = Node[item.node].kind
  BY DEF SameKinds
<1>4. place \in DOMAIN bound => place \in DOMAIN bound' /\ bound'[place] = bound[place]
  BY <1>1 DEF KeepsJobs
<1>5. Place(item)' = place
  BY <1>1 DEF Place
<1>6. /\ item.at \in {"start", "lease", "run"} /\ IsWorker(item) => place \in DOMAIN bound /\ bound[place] = item.job
      /\ item.out \in Successes /\ IsWorker(item) => SettledAs(place, item.out)
  BY <1>1 DEF ItemJob
<1>7. IsWorker(item)' <=> IsWorker(item)
  BY <1>3 DEF IsWorker
<1>8. Place(item) = place
  BY <1>1
<1> QED BY <1>2, <1>4, <1>6, <1>7, <1>8 DEF ItemJob, Place, SettledAs

LEMMA ResultStep ==
  ASSUME OneDriver, ResultInv, RouteInv', NEW d \in Drivers, NEW c, Go(d, c),
         BoundOnce', RunsRight', CallRight(c)'
  PROVE  ResultInv'
<1>1. \A e \in Drivers : call'[e] = c
  BY OnlyCall DEF ResultInv, RouteInv
<1>2. ASSUME NEW e \in Drivers
      PROVE  CallRight(call[e])'
  BY <1>1
<1> QED BY <1>2 DEF ResultInv

LEMMA ResultParts ==
  ASSUME ResultInv, NEW d \in Drivers
  PROVE  /\ BaseInv /\ StoreOK /\ BoundOnce /\ RunsRight /\ CallRight(call[d]) /\ ItemsRight(call[d])
         /\ call[d] \in Call /\ InCall(d) /\ KnownIn(call[d])
BY CallBase, BaseStore DEF ResultInv, RouteInv, BaseInv, CountInv

(* Nothing has become of the jobs and the approvals.                         *)
Quiet == UNCHANGED <<snapshot, jobs, bound, approvals>>

LEMMA QuietKeeps ==
  ASSUME Quiet
  PROVE  SameKinds /\ KeepsDecisions /\ KeepsJobs({}) /\ (BoundOnce => BoundOnce')
BY KindsStay DEF Quiet, KeepsDecisions, KeepsJobs, BoundOnce

LEMMA RunsStay ==
  ASSUME StoreOK, RunsRight, Quiet, UNCHANGED runs
  PROVE  RunsRight'
<1>1. \A r \in DOMAIN runs : IndexOf(r)' = IndexOf(r)
  BY DEF IndexOf, RunsOf
<1>2. ASSUME NEW r \in DOMAIN runs
      PROVE  RunRight(r)'
  BY <1>1, QuietKeeps, RunStays DEF RunsRight
<1> QED BY <1>2 DEF RunsRight

LEMMA CallStays ==
  ASSUME Quiet, NEW c, CallRight(c)
  PROVE  CallRight(c)'
BY DEF Quiet, CallRight, ItemAsks, ItemJob, SettledAs, DecidedAs, IsWorker, Node, Ahead, BegunIn, Current, Place

LEMMA ResultQuiet ==
  ASSUME OneDriver, ResultInv, RouteInv', NEW d \in Drivers, NEW c, Go(d, c), Quiet, UNCHANGED runs,
         CallRight(c)
  PROVE  ResultInv'
<1>1. StoreOK /\ BoundOnce /\ RunsRight
  BY ResultParts
<1>2. BoundOnce' /\ RunsRight'
  BY <1>1, QuietKeeps, RunsStay
<1>3. CallRight(c)'
  BY CallStays
<1> QED BY <1>2, <1>3, ResultStep

LEMMA NothingSaid ==
  ASSUME NEW item, item.at \in {"todo", "done"}, item.out = "none"
  PROVE  ItemAsks(item) /\ ItemJob(item)
BY DEF ItemAsks, ItemJob, DecidedAs, Successes

LEMMA ResultStill ==
  ASSUME OneDriver, ResultInv, RouteInv', NEW d \in Drivers, NEW b, b = call[d], NEW c, Quiet,
         \/ Calm(d, c) \/ Gates(d, c) \/ Begins(d, c) \/ Resumes(d, c)
         \/ Inside(d, b, c) /\ c.wave = b.wave /\ c.pc # "fresh"
  PROVE  ResultInv'
<1>0. Go(d, c) /\ UNCHANGED runs /\ StoreOK /\ RunsRight /\ CallRight(b)
  BY ResultParts DEF Calm, Inside, Gates, Begins, Resumes, Still
<1>1. CASE Calm(d, c)
  <2>1. CallRight(c)
    BY <1>1 DEF Calm, CallRight
  <2> QED BY <1>0, <2>1, ResultQuiet
<1>2. CASE Inside(d, b, c) /\ c.wave = b.wave /\ c.pc # "fresh"
  <2>1. /\ b.pc \in Waving /\ c.pc \in Waving \ {"create", "mark"} /\ c.mode = b.mode
        /\ Ahead(c) \subseteq Ahead(b)
    BY <1>2 DEF Inside, SameItems
  <2>2. CallRight(c)
    BY <1>0, <1>2, <2>1 DEF CallRight
  <2> QED BY <1>0, <2>2, ResultQuiet
<1>3. CASE Gates(d, c)
  <2>1. ASSUME NEW k \in DOMAIN c.wave
        PROVE  /\ ItemAsks(c.wave[k]) /\ ItemJob(c.wave[k])
               /\ Node[c.wave[k].node].kind = "gate"
    <3>1. PICK r \in RunsIn({"WAITING_APPROVAL"}) :
            c.wave[k] = WaveItem(runs[r].node, r, IndexOf(r), {}, runs[r].approval, "done", "none")
      BY <1>3, <2>1 DEF Gates
    <3>2. c.wave[k].at = "done" /\ c.wave[k].out = "none" /\ c.wave[k].node = runs[r].node
      BY <3>1 DEF WaveItem
    <3>3. RunRight(r) /\ runs[r].status = "WAITING_APPROVAL"
      BY <1>0, <3>1 DEF RunsIn, RunsRight
    <3> QED BY <3>2, <3>3, NothingSaid DEF RunRight
  <2>2. Ahead(c) \subseteq DOMAIN c.wave /\ c.pc = "gate"
    BY <1>3 DEF Ahead, BegunIn, Gates
  <2>3. CallRight(c)
    BY <2>1, <2>2 DEF CallRight
  <2> QED BY <1>0, <2>3, ResultQuiet
<1>4. CASE Begins(d, c)
  <2>1. ASSUME NEW k \in DOMAIN c.wave
        PROVE  /\ ItemAsks(c.wave[k]) /\ ItemJob(c.wave[k])
               /\ c.wave[k].at = "todo" /\ c.wave[k].out = "none"
    BY <1>4, <2>1, NothingSaid DEF Begins
  <2>2. Ahead(c) \subseteq DOMAIN c.wave /\ c.pc = "create" /\ c.mode = "wave"
    BY <1>4 DEF Ahead, BegunIn, Begins
  <2>3. CallRight(c)
    BY <2>1, <2>2 DEF CallRight
  <2> QED BY <1>0, <2>3, ResultQuiet
<1>5. CASE Resumes(d, c)
  <2>1. ASSUME NEW k \in DOMAIN c.wave
        PROVE  ItemAsks(c.wave[k]) /\ ItemJob(c.wave[k])
    <3>1. PICK r \in Resumable :
            c.wave[k] = IF jobs[JobOf(r)] = "queued" THEN Left(r) ELSE Persisted(Left(r), jobs[JobOf(r)])
      BY <1>5, <2>1 DEF Resumes
    <3>2. PICK item, left, out : item = c.wave[k] /\ left = Left(r) /\ out = jobs[JobOf(r)]
      OBVIOUS
    <3>3. /\ left.node = runs[r].node /\ left.index = IndexOf(r) /\ left.at = "todo" /\ left.out = "none"
          /\ left = [left EXCEPT !.node = left.node]
      BY <3>2 DEF Left, WaveItem
    <3>4. r \in DOMAIN runs /\ Node[runs[r].node].kind = "worker" /\ PlaceOf(r) \in DOMAIN bound
          /\ bound[PlaceOf(r)] = JobOf(r)
      BY DEF Resumable, Held, RunsIn, PlaceOf, JobOf
    <3>5. CASE item = left
      BY <3>2, <3>3, <3>5, NothingSaid
    <3>6. CASE item = Persisted(left, out)
      <4>1. item.node = runs[r].node /\ item.index = IndexOf(r) /\ item.at = "done" /\ item.out = out
        BY <3>2, <3>6 DEF Persisted, Left, WaveItem
      <4>2. out \in JobState
        <5>1. JobOf(r) \in DOMAIN jobs
          BY <1>0, <3>4 DEF StoreOK, BoundOK
        <5> QED BY <1>0, <3>2, <5>1 DEF StoreOK, JobsOK
      <4>3. Place(item) = PlaceOf(r)
        BY <4>1 DEF Place, PlaceOf
      <4>4. ItemJob(item)
        BY <3>2, <3>4, <4>1, <4>3 DEF ItemJob, SettledAs
      <4>5. ItemAsks(item)
        BY <3>4, <4>1, <4>2 DEF ItemAsks, JobState, Successes
      <4> QED BY <3>2, <4>4, <4>5
    <3> QED BY <3>1, <3>2, <3>5, <3>6
  <2>2. Ahead(c) \subseteq DOMAIN c.wave /\ c.pc = "execute" /\ c.mode = "resumed"
    BY <1>5 DEF Ahead, BegunIn, Resumes
  <2>3. CallRight(c)
    BY <2>1, <2>2 DEF CallRight
  <2> QED BY <1>0, <2>3, ResultQuiet
<1> QED BY <1>1, <1>2, <1>3, <1>4, <1>5

LEMMA WaveUntouched ==
  ASSUME NEW c, c.pc \in {"create", "mark", "prepare"}, c.mode = "wave",
         \A k \in DOMAIN c.wave : c.wave[k].at = "todo" /\ c.wave[k].out = "none"
  PROVE  CallRight(c)
<1>1. \A k \in DOMAIN c.wave : ItemAsks(c.wave[k]) /\ ItemJob(c.wave[k])
  BY NothingSaid
<1>2. Ahead(c) \subseteq DOMAIN c.wave
  BY DEF Ahead, BegunIn
<1> QED BY <1>1, <1>2 DEF CallRight

LEMMA ResultCreates ==
  ASSUME OneDriver, ResultInv, RouteInv', NEW d \in Drivers, NEW b, b = call[d], NEW c, Quiet, Creates(d, b, c)
  PROVE  ResultInv'
<1>0. /\ Go(d, c) /\ StoreOK /\ BoundOnce /\ RunsRight /\ CallRight(b) /\ b.pc = "create" /\ c.pc = "mark"
      /\ SameButRun(c, b) /\ b.cur \in DOMAIN b.wave /\ Current(b) \in ItemType /\ InCall(d)
  BY ResultParts, Known, CurrentItem DEF Creates, BaseInv, Waving, Current, Item
<1>1. PICK row : row = [node |-> Current(b).node, status |-> "CREATED", out |-> "none",
                        input |-> Current(b).approval, approval |-> 0]
  OBVIOUS
<1>2. row \in Run /\ runs' = Append(runs, row)
  <2>1. 0 \in Asked /\ Current(b).approval \in Asked
    BY <1>0, RowFacts DEF Asked, ItemType
  <2> QED BY <1>0, <1>1, <2>1 DEF Run, Outcome, ActiveRun, Creates, ItemType
<1>3. /\ DOMAIN runs' = DOMAIN runs \cup {Len(runs) + 1}
      /\ \A r \in DOMAIN runs : runs'[r] = runs[r] /\ IndexOf(r)' = IndexOf(r)
      /\ runs'[Len(runs) + 1] = row
  BY <1>0, <1>2, AppendRun
<1>4. ASSUME NEW r \in DOMAIN runs'
      PROVE  RunRight(r)'
  <2>1. CASE r \in DOMAIN runs
    BY <1>0, <1>3, <2>1, QuietKeeps, RunStays DEF RunsRight
  <2>2. CASE r = Len(runs) + 1
    <3>1. runs'[r].status = "CREATED" /\ runs'[r].out = "none"
      BY <1>1, <1>3, <2>2
    <3> QED BY <3>1 DEF RunRight, DecidedAs
  <2> QED BY <1>3, <2>1, <2>2
<1>5. RunsRight' /\ BoundOnce'
  BY <1>0, <1>4, QuietKeeps DEF RunsRight
<1>6. b.mode = "wave" /\ \A k \in DOMAIN b.wave : b.wave[k].at = "todo" /\ b.wave[k].out = "none"
  BY <1>0 DEF InCall, CallRight, Waving
<1>7. c.wave[b.cur].at = Current(b).at /\ c.wave[b.cur].out = Current(b).out
  BY <1>0 DEF SameButRun, ItemType
<1>8. c.mode = "wave" /\ \A k \in DOMAIN c.wave : c.wave[k].at = "todo" /\ c.wave[k].out = "none"
  <2>1. c.mode = b.mode /\ DOMAIN c.wave = DOMAIN b.wave
    BY <1>0 DEF SameButRun
  <2>2. \A k \in DOMAIN b.wave : k # b.cur => c.wave[k] = b.wave[k]
    BY <1>0 DEF SameButRun
  <2>3. c.wave[b.cur].at = "todo" /\ c.wave[b.cur].out = "none"
    BY <1>0, <1>6, <1>7 DEF Current
  <2>4. \A k \in DOMAIN b.wave : c.wave[k].at = "todo" /\ c.wave[k].out = "none"
    BY <1>6, <2>2, <2>3
  <2> QED BY <1>6, <2>1, <2>4
<1>9. CallRight(c)'
  BY <1>0, <1>8, WaveUntouched, CallStays
<1> QED BY <1>0, <1>5, <1>9, ResultStep

LEMMA ResultMarks ==
  ASSUME OneDriver, ResultInv, RouteInv', NEW d \in Drivers, NEW b, b = call[d], NEW c, Quiet, Marks(d, b, c)
  PROVE  ResultInv'
<1>0. /\ Go(d, c) /\ StoreOK /\ BoundOnce /\ RunsRight /\ CallRight(b) /\ KnownIn(b) /\ b.pc = "mark"
      /\ c.pc \in {"create", "prepare"} /\ c.wave = b.wave /\ c.mode = b.mode /\ InCall(d)
      /\ b.cur \in DOMAIN b.wave /\ b \in Call
  BY ResultParts, Known, CurrentItem DEF Marks, BaseInv, Waving, Current, Item
<1>1. PICK r, row : r = Current(b).run /\ row = [runs[r] EXCEPT !.status = "RUNNING"]
  OBVIOUS
<1>2. r \in DOMAIN runs /\ runs[r] \in Run
  <2>1. b.cur \in BegunIn(b)
    BY <1>0 DEF BegunIn, Waving, Call
  <2> QED BY <1>0, <1>1, <2>1, RowFacts DEF KnownIn, Current
<1>3. /\ row \in Run /\ row.node = runs[r].node /\ row.status = "RUNNING" /\ row.out = runs[r].out
      /\ row.approval = runs[r].approval
  BY <1>1, <1>2 DEF Run, ActiveRun
<1>4. runs' = [runs EXCEPT ![r] = row]
  BY <1>1 DEF Marks
<1>5. /\ DOMAIN runs' = DOMAIN runs /\ runs'[r] = row
      /\ \A q \in DOMAIN runs : q # r => runs'[q] = runs[q]
      /\ \A q \in DOMAIN runs : IndexOf(q)' = IndexOf(q)
  BY <1>0, <1>2, <1>3, <1>4, ChangeRun
<1>6. ASSUME NEW q \in DOMAIN runs'
      PROVE  RunRight(q)'
  <2>1. CASE q # r
    BY <1>0, <1>5, <2>1, QuietKeeps, RunStays DEF RunsRight
  <2>2. CASE q = r
    <3>1. Node[row.node].kind = "gate" => DecidedAs(row.approval, row.out)
      BY <1>0, <1>2, <1>3 DEF RunsRight, RunRight
    <3>2. Node'[row.node].kind = "gate" => DecidedAs(row.approval, row.out)'
      BY <3>1 DEF Quiet, Node, DecidedAs
    <3>3. Node'[runs'[q].node].kind = "gate" => DecidedAs(runs[q].approval, runs[q].out)'
      BY <1>5, <2>2, <3>2 DEF DecidedAs
    <3>4. runs'[q].status = "RUNNING"
      BY <1>3, <1>5, <2>2
    <3> QED BY <3>3, <3>4 DEF RunRight
  <2> QED BY <2>1, <2>2
<1>7. RunsRight' /\ BoundOnce'
  BY <1>0, <1>6, QuietKeeps DEF RunsRight
<1>8. c.mode = "wave" /\ \A k \in DOMAIN c.wave : c.wave[k].at = "todo" /\ c.wave[k].out = "none"
  BY <1>0 DEF InCall, CallRight, Waving
<1>9. CallRight(c)'
  BY <1>0, <1>8, WaveUntouched, CallStays
<1> QED BY <1>0, <1>7, <1>9, ResultStep

LEMMA ResultHands ==
  ASSUME OneDriver, ResultInv, RouteInv', NEW d \in Drivers, NEW b, b = call[d], NEW c, Quiet,
         Sends(d, b, c) \/ Takes(d, b, c)
  PROVE  ResultInv'
<1>1. /\ Go(d, c) /\ UNCHANGED runs /\ CallRight(b) /\ b \in Call /\ c.wave = b.wave /\ c.mode = b.mode
      /\ c.cur = b.cur
      /\ (b.pc = "route" /\ c.pc = "route") \/ (b.pc = "consume" /\ c.pc = "next")
  BY ResultParts DEF Sends, Takes
<1>2. Ahead(c) = Ahead(b)
  BY <1>1 DEF Ahead, BegunIn, Waving
<1>3. CallRight(c)
  BY <1>1, <1>2 DEF CallRight, Waving
<1> QED BY <1>1, <1>3, ResultQuiet

(* The run that is ended says what its item says.                            *)
LEMMA EndRight ==
  ASSUME ResultInv, NEW d \in Drivers, NEW b, b = call[d],
         NEW status, NEW out, NEW approval, Judged(b, status, out, approval),
         NEW item, item = Current(b), NEW kind, kind = Node[item.node].kind
  PROVE  /\ kind = "worker" /\ status = "SUCCEEDED" => SettledAs(PlaceOf(item.run), out)
         /\ kind = "gate" => DecidedAs(approval, out)
         /\ status = "WAITING_APPROVAL" => kind = "gate"
<1>0. /\ StoreOK /\ CallRight(b) /\ InCall(d) /\ KnownIn(b) /\ b.pc \in {"apply", "gate"}
  BY ResultParts DEF Judged
<1>1. /\ b.cur \in DOMAIN b.wave /\ b.cur \in BegunIn(b) /\ b.cur \in Nat
      /\ item \in ItemType /\ b.wave[b.cur] = item
  BY <1>0, ResultParts, Known, CurrentItem, AheadEnds DEF BaseInv, Waving, Current, Item, ResultInv
<1>2. b.cur \in Ahead(b)
  BY <1>0, <1>1 DEF Ahead
<1>3. ItemAsks(item) /\ ItemJob(item) /\ (b.mode = "gates" => kind = "gate")
  BY <1>0, <1>1, <1>2 DEF CallRight, Waving
<1>4. PlaceOf(item.run) = Place(item)
  BY <1>0, <1>1 DEF KnownIn, PlaceOf, Place
<1>5. CASE b.pc = "apply"
  <2>1. CASE status = "WAITING_APPROVAL" /\ item.out = "waiting" /\ out = "waiting"
    BY <1>3, <2>1 DEF ItemAsks, DecidedAs
  <2>2. CASE status = "SUCCEEDED" /\ item.out \in Successes /\ out = item.out /\ approval = Kept(item)
    BY <1>3, <1>4, <2>2 DEF ItemAsks, ItemJob, IsWorker, Kept
  <2>3. CASE status \in {"SKIPPED", "FAILED"} /\ out \in {"skipped", "failed", item.out} /\ approval = Given(item)
    <3>1. kind = "gate" => approval = item.approval /\ DecidedAs(item.approval, item.out)
      BY <1>3, <2>3 DEF Given, ItemAsks
    <3>2. kind = "gate" => DecidedAs(approval, out)
      BY <2>3, <3>1 DEF DecidedAs
    <3> QED BY <2>3, <3>2
  <2> QED BY <1>5, <2>1, <2>2, <2>3 DEF Judged
<1>6. CASE b.pc = "gate"
  <2>1. /\ b.mode = "gates" /\ kind = "gate" /\ item.approval # 0 /\ out = Answer(item.approval)
        /\ out # "waiting" /\ approval = item.approval /\ status \in {"SUCCEEDED", "FAILED"}
    BY <1>0, <1>1, <1>3, <1>6 DEF InCall, Judged
  <2>2. approval \in Asked /\ approval \in DOMAIN approvals /\ approvals[approval] \in Approval
    BY <1>0, <1>1, <2>1, Decided, RowFacts DEF ItemType
  <2>3. DecidedAs(approval, out)
    BY <2>1, <2>2 DEF DecidedAs, Answer, Approval
  <2> QED BY <2>1, <2>3
<1> QED BY <1>0, <1>5, <1>6

LEMMA ResultEnds ==
  ASSUME OneDriver, ResultInv, RouteInv', NEW d \in Drivers, NEW b, b = call[d], NEW c, Quiet,
         NEW status \in TerminalRun \cup {"WAITING_APPROVAL"}, NEW out \in Outcome \cup {"skipped"},
         NEW approval \in Asked, status = "WAITING_APPROVAL" => approval # 0,
         Ends(d, b, c, status, out, approval)
  PROVE  ResultInv'
<1>0. /\ Go(d, c) /\ StoreOK /\ BoundOnce /\ RunsRight /\ CallRight(b) /\ b \in Call /\ KnownIn(b)
      /\ c.wave = b.wave /\ c.mode = b.mode /\ c.cur = b.cur /\ b.pc \in {"apply", "gate"}
      /\ c.pc \in {"route", "consume", "finish"} /\ Judged(b, status, out, approval)
  BY ResultParts DEF Ends, Judged
<1>1. b.cur \in DOMAIN b.wave /\ BegunIn(b) = DOMAIN b.wave /\ Current(b).run \in DOMAIN runs
  BY <1>0, AheadEnds DEF ResultInv
<1>2. PICK r, item, place, n :
        r = Current(b).run /\ item = Current(b) /\ place = PlaceOf(r) /\ n = item.node
  OBVIOUS
<1>3. r \in DOMAIN runs /\ runs[r].node = n /\ n \in Nodes
  BY <1>0, <1>1, <1>2, RowFacts DEF KnownIn, Current, Run
<1>4. /\ DOMAIN runs' = DOMAIN runs
      /\ runs'[r].status = status /\ runs'[r].out = out /\ runs'[r].approval = approval
      /\ \A q \in DOMAIN runs : q # r => runs'[q] = runs[q]
      /\ runs'[r].node = n
      /\ \A q \in DOMAIN runs : IndexOf(q)' = IndexOf(q)
  <2>1. Complete(r, status, out, approval)
    BY <1>2 DEF Ends
  <2>2. StoreOK /\ r \in DOMAIN runs /\ runs[r].node = n
    BY <1>0, <1>3
  <2> HIDE DEF Ends
  <2>3. /\ DOMAIN runs' = DOMAIN runs
        /\ r \in DOMAIN runs =>
              /\ runs'[r].status = status /\ runs'[r].out = out /\ runs'[r].approval = approval
        /\ \A q \in DOMAIN runs : q # r => runs'[q] = runs[q]
        /\ \A q \in DOMAIN runs : runs'[q].node = runs[q].node
        /\ \A q \in DOMAIN runs : IndexOf(q)' = IndexOf(q)
    BY <2>1, <2>2, CompleteRow
  <2> QED BY <2>2, <2>3
<1>5. /\ Node[n].kind = "worker" /\ status = "SUCCEEDED" => SettledAs(place, out)
      /\ Node[n].kind = "gate" => DecidedAs(approval, out)
      /\ status = "WAITING_APPROVAL" => Node[n].kind = "gate"
  <2>1. PICK kind : kind = Node[item.node].kind
    OBVIOUS
  <2> QED BY <1>0, <1>2, <2>1, EndRight
<1>6. ASSUME NEW q \in DOMAIN runs'
      PROVE  RunRight(q)'
  <2>1. CASE q # r
    BY <1>0, <1>4, <2>1, QuietKeeps, RunStays DEF RunsRight
  <2>2. CASE q = r
    <3>1. PlaceOf(q)' = place
      BY <1>2, <1>3, <1>4, <2>2 DEF PlaceOf
    <3>2. /\ Node'[n].kind = "worker" /\ status = "SUCCEEDED" => SettledAs(place, out)'
          /\ Node'[n].kind = "gate" => DecidedAs(approval, out)'
          /\ status = "WAITING_APPROVAL" => Node'[n].kind = "gate"
      BY <1>5 DEF Quiet, Node, DecidedAs, SettledAs
    <3>3. /\ Node'[runs'[q].node].kind = "worker" /\ runs'[q].status = "SUCCEEDED" =>
               SettledAs(PlaceOf(q), runs[q].out)'
          /\ Node'[runs'[q].node].kind = "gate" => DecidedAs(runs[q].approval, runs[q].out)'
          /\ runs'[q].status = "WAITING_APPROVAL" => Node'[runs'[q].node].kind = "gate"
      BY <1>4, <2>2, <3>1, <3>2 DEF SettledAs, DecidedAs
    <3> QED BY <3>3 DEF RunRight
  <2> QED BY <2>1, <2>2
<1>7. RunsRight' /\ BoundOnce'
  BY <1>0, <1>6, QuietKeeps DEF RunsRight
<1>8. CallRight(c)
  <2>1. Ahead(c) \subseteq Ahead(b)
    BY <1>0, <1>1 DEF Ahead, BegunIn, Call
  <2> QED BY <1>0, <2>1 DEF CallRight, Waving
<1>9. CallRight(c)'
  BY <1>8, CallStays
<1> QED BY <1>0, <1>7, <1>9, ResultStep

(* What a driver does outside its threads and repeats leaves the jobs, the    *)
(* approvals and the items of its wave alone.                                *)
Unmoved(d, b) ==
  /\ call'[d].pc # "fresh"
  /\ call'[d].pc \in Waving => call'[d].wave = b.wave

LEMMA ResultShape ==
  ASSUME OneDriver, ResultInv, RouteInv', NEW d \in Drivers, NEW b, b = call[d], NEW c, Shape(d, b, c),
         Quiet, b.pc \in Waving \ {"create", "mark"} => Unmoved(d, b)
  PROVE  ResultInv'
<1>0. CallsOK
  BY ResultParts, Known DEF BaseInv
<1>1. CASE Inside(d, b, c)
  <2>1. call'[d] = c /\ b.pc \in Waving \ {"create", "mark"} /\ c.pc \in Waving
    BY <1>0, <1>1, GoFacts DEF Inside
  <2> QED BY <1>1, <2>1, ResultStill DEF Unmoved
<1>2. CASE Calm(d, c) \/ Gates(d, c) \/ Begins(d, c) \/ Resumes(d, c)
  BY <1>2, ResultStill
<1>3. CASE Creates(d, b, c)
  BY <1>3, ResultCreates
<1>4. CASE Marks(d, b, c)
  BY <1>4, ResultMarks
<1>5. CASE Sends(d, b, c) \/ Takes(d, b, c)
  BY <1>5, ResultHands
<1>6. CASE \E status \in TerminalRun \cup {"WAITING_APPROVAL"}, out \in Outcome \cup {"skipped"},
              approval \in Asked :
             /\ status = "WAITING_APPROVAL" => approval # 0
             /\ Ends(d, b, c, status, out, approval)
  BY <1>6, ResultEnds
<1> QED BY <1>1, <1>2, <1>3, <1>4, <1>5, <1>6 DEF Shape

(* One item of the wave is written anew, at the job of its own place.         *)
LEMMA RunsKept ==
  ASSUME StoreOK, RunsRight, SameKinds, KeepsDecisions, NEW S, KeepsJobs(S), UNCHANGED runs,
         \A r \in DOMAIN runs : runs[r].status = "SUCCEEDED" => PlaceOf(r) \notin S
  PROVE  RunsRight'
<1>1. \A r \in DOMAIN runs : IndexOf(r)' = IndexOf(r)
  BY DEF IndexOf, RunsOf
<1>2. ASSUME NEW r \in DOMAIN runs
      PROVE  RunRight(r)'
  BY <1>1, RunStays DEF RunsRight
<1> QED BY <1>2 DEF RunsRight

LEMMA ResultReturn ==
  ASSUME OneDriver, ResultInv, RouteInv', NEW d \in Drivers, Return(d), UNCHANGED <<snapshot, runs>>,
         KeepsDecisions, KeepsJobs({}), BoundOnce'
  PROVE  ResultInv'
<1>1. StoreOK /\ RunsRight /\ Go(d, NoCall)
  BY ResultParts, Known, ReturnFacts DEF BaseInv
<1>2. RunsRight'
  BY <1>1, KindsStay, RunsKept
<1>3. CallRight(NoCall)'
  BY DEF CallRight, NoCall, Waving
<1> QED BY <1>1, <1>2, <1>3, ResultStep

(* No other item, and no run that has succeeded, is at its place.            *)
LEMMA OwnPlace ==
  ASSUME ResultInv, NEW d \in Drivers, NEW b, b = call[d], b.pc \in Waving, b.mode # "gates",
         NEW k \in Ahead(b)
  PROVE  /\ k \in DOMAIN b.wave /\ b.wave[k].run \in DOMAIN runs
         /\ \A r \in DOMAIN runs : runs[r].status = "SUCCEEDED" => PlaceOf(r) # Place(b.wave[k])
         /\ \A j \in Ahead(b) : j # k => Place(b.wave[j]) # Place(b.wave[k])
<1>0. StoreOK /\ KnownIn(b) /\ ItemsRight(b)
  BY ResultParts
<1>1. \A j \in Ahead(b) : /\ j \in BegunIn(b) /\ j \in DOMAIN b.wave /\ b.wave[j].run \in DOMAIN runs
                          /\ PlaceOf(b.wave[j].run) = Place(b.wave[j])
                          /\ runs[b.wave[j].run].status \in Undone
  BY <1>0 DEF Ahead, BegunIn, KnownIn, ItemsRight, PlaceOf, Place
<1>2. ASSUME NEW r \in DOMAIN runs, runs[r].status = "SUCCEEDED", PlaceOf(r) = Place(b.wave[k])
      PROVE  FALSE
  <2>1. r = b.wave[k].run
    BY <1>0, <1>1, <1>2, IndexOnce
  <2> QED BY <1>1, <1>2, <2>1 DEF Undone
<1>3. ASSUME NEW j \in Ahead(b), j # k, Place(b.wave[j]) = Place(b.wave[k])
      PROVE  FALSE
  <2>1. b.wave[j].run = b.wave[k].run
    BY <1>0, <1>1, <1>3, IndexOnce
  <2> QED BY <1>0, <1>1, <1>3, <2>1 DEF KnownIn
<1> QED BY <1>1, <1>2, <1>3

LEMMA ResultItem ==
  ASSUME OneDriver, ResultInv, RouteInv', NEW d \in Drivers, NEW b, b = call[d], NEW k \in Ahead(b),
         b.pc \in {"apply", "execute", "again", "fresh"}, UNCHANGED <<snapshot, runs>>,
         NEW c, Go(d, c), c.pc \in {"execute", "again", "fresh"}, c.mode = b.mode,
         DOMAIN c.wave = DOMAIN b.wave, \A j \in DOMAIN b.wave : j # k => c.wave[j] = b.wave[j],
         NEW next, c.wave[k] = next, Ahead(c) \subseteq Ahead(b), c.pc = "fresh" => IsWorker(Current(c)),
         NEW place, place = Place(b.wave[k]), KeepsJobs({place}), KeepsDecisions, BoundOnce',
         ItemAsks(next)', ItemJob(next)'
  PROVE  ResultInv'
<1>0. StoreOK /\ RunsRight /\ CallRight(b) /\ InCall(d) /\ b \in Call /\ b.pc \in Waving
  BY ResultParts DEF Waving
<1>1. b.mode # "gates"
  BY <1>0 DEF InCall
<1>a. \A j \in DOMAIN b.wave : b.wave[j].node \in Nodes
  <2>1. \A j \in DOMAIN b.wave : b.wave[j] \in ItemType
    BY <1>0 DEF Call
  <2> QED BY <2>1 DEF ItemType
<1>b. /\ \A j \in DOMAIN b.wave : ItemAsks(b.wave[j])
      /\ \A j \in Ahead(b) : ItemJob(b.wave[j])
  BY <1>0 DEF CallRight
<1>2. /\ \A r \in DOMAIN runs : runs[r].status = "SUCCEEDED" => PlaceOf(r) \notin {place}
      /\ \A j \in Ahead(b) : j # k => Place(b.wave[j]) \notin {place}
  BY <1>0, <1>1, OwnPlace
<1>3. RunsRight'
  BY <1>0, <1>2, KindsStay, RunsKept
<1>4. ASSUME NEW j \in DOMAIN c.wave
      PROVE  ItemAsks(c.wave[j])'
  <2>1. CASE j # k
    <3>1. c.wave[j] = b.wave[j] /\ ItemAsks(b.wave[j]) /\ b.wave[j].node \in Nodes
      BY <1>4, <1>a, <1>b, <2>1
    <3> QED BY <3>1, KindsStay, AsksStays
  <2> QED BY <2>1
<1>5. ASSUME NEW j \in Ahead(c)
      PROVE  ItemJob(c.wave[j])'
  <2>1. CASE j # k
    <3>1. j \in Ahead(b) /\ j \in DOMAIN b.wave
      BY <1>5 DEF Ahead, BegunIn
    <3>2. c.wave[j] = b.wave[j] /\ ItemJob(b.wave[j]) /\ b.wave[j].node \in Nodes
      BY <1>a, <1>b, <2>1, <3>1
    <3>3. Place(b.wave[j]) \notin {place}
      BY <1>2, <2>1, <3>1
    <3> QED BY <3>2, <3>3, KindsStay, JobStays
  <2> QED BY <2>1
<1>6. c.pc = "fresh" => IsWorker(Current(c))'
  BY DEF IsWorker, Node
<1>7. Ahead(c)' = Ahead(c) /\ Current(c)' = Current(c)
  BY DEF Ahead, BegunIn, Current
<1>8. CallRight(c)'
  BY <1>1, <1>4, <1>5, <1>6, <1>7 DEF CallRight
<1> QED BY <1>3, <1>8, ResultStep

LEMMA ResultSet ==
  ASSUME OneDriver, ResultInv, RouteInv', NEW d \in Drivers, NEW b, b = call[d], NEW k \in Ahead(b),
         b.pc \in {"execute", "again"}, UNCHANGED <<snapshot, runs>>, NEW next, Set(d, k, next),
         NEW place, place = Place(b.wave[k]), KeepsJobs({place}), KeepsDecisions, BoundOnce',
         ItemAsks(next)', ItemJob(next)'
  PROVE  ResultInv'
<1> DEFINE c == [call[d] EXCEPT !.wave = [call[d].wave EXCEPT ![k] = next]]
<1>1. TypeOK /\ k \in DOMAIN call[d].wave
  BY ResultParts, Known DEF BaseInv, Ahead, BegunIn
<1>2. /\ Go(d, c) /\ c.pc = b.pc /\ c.mode = b.mode /\ c.cur = b.cur
      /\ DOMAIN c.wave = DOMAIN b.wave /\ c.wave[k] = next
      /\ \A j \in DOMAIN b.wave : j # k => c.wave[j] = b.wave[j]
  BY SMTT(20), <1>1, SetFacts
<1> HIDE DEF c
<1>3. Ahead(c) \subseteq Ahead(b)
  BY <1>2 DEF Ahead, BegunIn, Waving
<1> QED BY <1>2, <1>3, ResultItem

(* What the step of a thread does to its item, its job and the approvals.     *)
LEMMA StayKeeps ==
  /\ UNCHANGED approvals => KeepsDecisions
  /\ UNCHANGED <<jobs, bound>> => KeepsJobs({})
  /\ UNCHANGED bound => (BoundOnce => BoundOnce')
BY DEF KeepsDecisions, KeepsJobs, BoundOnce

LEMMA FewerKept == ASSUME KeepsJobs({}), NEW S PROVE KeepsJobs(S)
BY DEF KeepsJobs

LEMMA AskedKeeps ==
  ASSUME StoreOK, approvals' = Append(approvals, [decision |-> "pending", told |-> FALSE])
  PROVE  KeepsDecisions
BY AppendApproval DEF KeepsDecisions

LEMMA CreatedKeeps ==
  ASSUME StoreOK, NEW key \in Key, jobs' = Created(key), UNCHANGED bound
  PROVE  KeepsJobs({})
<1>1. \A j \in DOMAIN jobs : jobs'[j] = jobs[j]
  BY CreatedType
<1>2. \A p \in DOMAIN bound : bound[p] \in DOMAIN jobs
  BY DEF StoreOK, BoundOK
<1> QED BY <1>1, <1>2 DEF KeepsJobs

LEMMA ChangedKeeps ==
  ASSUME StoreOK, BoundOnce, NEW place \in DOMAIN bound, NEW j, j = bound[place],
         NEW state \in JobState, jobs' = [jobs EXCEPT ![j] = state], UNCHANGED bound
  PROVE  KeepsJobs({place}) /\ jobs'[bound'[place]] = state
<1>1. \A p \in DOMAIN bound : bound[p] \in DOMAIN jobs
  BY DEF StoreOK, BoundOK
<1>2. jobs'[j] = state /\ \A i \in DOMAIN jobs : i # j => jobs'[i] = jobs[i]
  BY <1>1, ChangedJob
<1>3. \A p \in DOMAIN bound : p # place => bound[p] # j
  BY DEF BoundOnce
<1> QED BY <1>1, <1>2, <1>3 DEF KeepsJobs

LEMMA BoundKeeps ==
  ASSUME BoundOnce, NEW place, place \notin DOMAIN bound, NEW j, j \notin Bound,
         bound' = Put(bound, place, j), UNCHANGED jobs
  PROVE  KeepsJobs({place}) /\ BoundOnce' /\ place \in DOMAIN bound' /\ bound'[place] = j
<1>1. PICK f, g : f = bound /\ g = Put(f, place, j)
  OBVIOUS
<1>2. /\ DOMAIN g = DOMAIN f \cup {place} /\ g[place] = j
      /\ \A p \in DOMAIN f : p # place => g[p] = f[p]
  BY <1>1 DEF Put
<1>3. \A p \in DOMAIN f : f[p] # j
  BY <1>1 DEF Bound
<1>4. bound' = g
  BY <1>1
<1> QED BY <1>1, <1>2, <1>3, <1>4 DEF KeepsJobs, BoundOnce

LEMMA ExecutedAhead ==
  ASSUME ResultInv, NEW d \in Drivers, NEW b, b = call[d], NEW k, NEW at, Executing(d, k, at)
  PROVE  /\ k \in Ahead(b) /\ b.pc \in {"execute", "again"} /\ b.wave[k].at = at
         /\ b.wave[k] \in ItemType /\ ItemAsks(b.wave[k]) /\ ItemJob(b.wave[k])
<1>1. CallRight(b) /\ b \in Call /\ k \in DOMAIN b.wave /\ b.wave[k].at = at /\ b.pc \in {"execute", "again"}
  BY ResultParts, ExecutingAt
<1>2. b.wave[k] \in ItemType
  BY <1>1 DEF Call
<1>3. k \in BegunIn(b)
  BY <1>1 DEF BegunIn, Waving
<1>4. b.pc = "again" => k = b.cur
  BY DEF Executing
<1>5. k \in Ahead(b)
  BY <1>1, <1>3, <1>4 DEF Ahead, Call
<1> QED BY <1>1, <1>2, <1>5 DEF CallRight, Waving

(* The answer of a worker that is no success; a program's or a gate's.       *)
LEMMA ResultAnswers ==
  ASSUME OneDriver, ResultInv, RouteInv', NEW d \in Drivers, NEW b, b = call[d], NEW k \in Ahead(b),
         b.pc \in {"execute", "again"}, UNCHANGED <<snapshot, runs>>, NEW out, Answers(d, k, out),
         NEW item \in ItemType, item = b.wave[k],
         KeepsJobs({Place(item)}), KeepsDecisions, BoundOnce',
         IsWorker(item) => out \notin Successes,
         out = "waiting" => Node[item.node].kind = "gate",
         Node[item.node].kind = "gate" => DecidedAs(item.approval, out)
  PROVE  ResultInv'
<1>1. PICK next, place : next = [item EXCEPT !.at = "done", !.out = out] /\ place = Place(item)
  OBVIOUS
<1>2. /\ next.node = item.node /\ next.approval = item.approval /\ next.at = "done" /\ next.out = out
      /\ item.node \in Nodes
  BY <1>1 DEF ItemType
<1>3. ItemAsks(next)
  BY <1>2 DEF ItemAsks
<1>4. ItemAsks(next)'
  BY <1>2, <1>3, KindsStay, AsksStays
<1>5. IsWorker(next)' => IsWorker(item)
  BY <1>2 DEF IsWorker, Node
<1>6. ItemJob(next)'
  BY <1>2, <1>5 DEF ItemJob
<1>7. Set(d, k, next) /\ KeepsJobs({place})
  BY <1>1 DEF Answers
<1> QED BY <1>1, <1>4, <1>6, <1>7, ResultSet

(* An item moves on; its job and the approvals stay.                         *)
LEMMA ResultMoves ==
  ASSUME OneDriver, ResultInv, RouteInv', NEW d \in Drivers, NEW b, b = call[d], NEW k \in Ahead(b),
         b.pc \in {"execute", "again"}, UNCHANGED <<snapshot, runs>>, NEW at, Moves(d, k, at),
         NEW item \in ItemType, item = b.wave[k], ItemAsks(item), ItemJob(item),
         at \in {"lease", "done"}, KeepsJobs({}), KeepsDecisions, BoundOnce',
         IsWorker(item), at = "lease" => item.at = "start"
  PROVE  ResultInv'
<1>1. PICK next, place : next = [item EXCEPT !.at = at] /\ place = Place(item)
  OBVIOUS
<1>2. /\ next.node = item.node /\ next.approval = item.approval /\ next.at = at /\ next.out = item.out
      /\ item.node \in Nodes /\ next.index = item.index /\ next.job = item.job
  BY <1>1 DEF ItemType
<1>3. ItemAsks(next)
  BY <1>2 DEF ItemAsks, IsWorker
<1>4. ItemAsks(next)'
  BY <1>2, <1>3, KindsStay, AsksStays
<1>5. ItemJob(next)
  BY <1>2 DEF ItemJob, IsWorker, Place
<1>6. ItemJob(next)'
  BY <1>2, <1>5, KindsStay, JobStays
<1>7. Set(d, k, next) /\ KeepsJobs({place})
  BY <1>1, FewerKept DEF Moves
<1> QED BY <1>1, <1>4, <1>6, <1>7, ResultSet

LEMMA ResultRefuse ==
  ASSUME OneDriver, ResultInv, RouteInv', NEW d \in Drivers, NEW b, b = call[d], NEW k \in Ahead(b),
         b.pc \in {"execute", "again"}, UNCHANGED <<snapshot, runs>>, Refuse(d, k),
         NEW item \in ItemType, item = b.wave[k], IsWorker(item),
         KeepsJobs({}), KeepsDecisions, BoundOnce'
  PROVE  ResultInv'
<1>1. CASE Return(d)
  BY <1>1, ResultReturn
<1>2. CASE Answers(d, k, "failed")
  <2>1. Node[item.node].kind # "gate" /\ "failed" \notin Successes
    BY DEF IsWorker, Successes
  <2>2. KeepsJobs({Place(item)})
    BY FewerKept
  <2> QED BY <1>2, <2>1, <2>2, ResultAnswers
<1> QED BY <1>1, <1>2 DEF Refuse

LEMMA ResultPrograms ==
  ASSUME OneDriver, ResultInv, RouteInv', NEW d \in Drivers, NEW b, b = call[d], NEW k,
         RunProgram(d, k) \/ RunGate(d, k)
  PROVE  ResultInv'
<1>0. PICK item : item = b.wave[k]
  OBVIOUS
<1>1. /\ StoreOK /\ BoundOnce /\ k \in Ahead(b) /\ b.pc \in {"execute", "again"} /\ item \in ItemType
      /\ UNCHANGED <<snapshot, runs, jobs, bound>>
  BY <1>0, ResultParts, ExecutedAhead DEF RunProgram, RunGate, storeVars
<1>2. KeepsJobs({}) /\ KeepsJobs({Place(item)}) /\ BoundOnce'
  BY <1>1, StayKeeps, FewerKept
<1>3. CASE RunProgram(d, k)
  <2>1. Node[item.node].kind \in {"validator", "scorecard"} /\ KeepsDecisions
    BY <1>0, <1>3, StayKeeps DEF RunProgram, storeVars
  <2>2. PICK out \in Node[item.node].outs : Answers(d, k, out)
    BY <1>0, <1>3 DEF RunProgram
  <2>3. out # "waiting"
    BY <1>1, OutsType DEF ItemType, Successes
  <2> QED BY <1>0, <1>1, <1>2, <2>1, <2>2, <2>3, ResultAnswers DEF IsWorker
<1>4. CASE RunGate(d, k)
  <2>1. Node[item.node].kind = "gate" /\ ~IsWorker(item)
    BY <1>0, <1>4 DEF RunGate, IsWorker
  <2>2. CASE item.approval # 0
    <3>1. Answers(d, k, Answer(item.approval)) /\ KeepsDecisions
      BY <1>0, <1>4, <2>2, StayKeeps DEF RunGate
    <3>2. item.approval \in Asked
      BY <1>1 DEF ItemType
    <3>3. item.approval \in DOMAIN approvals /\ approvals[item.approval] \in Approval
      BY <1>1, <2>2, <3>2, Decided, RowFacts
    <3>4. DecidedAs(item.approval, Answer(item.approval))
      BY <2>2, <3>3 DEF DecidedAs, Answer, Approval
    <3> QED BY <1>0, <1>1, <1>2, <2>1, <3>1, <3>4, ResultAnswers
  <2>3. CASE item.approval = 0
    <3>1. /\ KeepsDecisions
          /\ \/ Answers(d, k, "failed")
             \/ Set(d, k, [item EXCEPT !.at = "done", !.out = "waiting", !.approval = Len(approvals) + 1])
      BY <1>0, <1>1, <1>4, <2>3, AskedKeeps DEF RunGate
    <3>2. CASE Answers(d, k, "failed")
      BY <1>0, <1>1, <1>2, <2>1, <3>1, <3>2, ResultAnswers DEF DecidedAs
    <3>3. CASE Set(d, k, [item EXCEPT !.at = "done", !.out = "waiting", !.approval = Len(approvals) + 1])
      <4>1. PICK next, place : /\ next = [item EXCEPT !.at = "done", !.out = "waiting", !.approval = Len(approvals) + 1]
                               /\ place = Place(item)
        OBVIOUS
      <4>2. next.node = item.node /\ next.at = "done" /\ next.out = "waiting" /\ item.node \in Nodes
        BY <1>1, <4>1 DEF ItemType
      <4>3. ItemAsks(next) /\ ItemJob(next)
        BY <2>1, <4>2 DEF ItemAsks, ItemJob, IsWorker, DecidedAs, Successes
      <4>4. ItemAsks(next)' /\ ItemJob(next)'
        BY <1>1, <1>2, <3>1, <4>2, <4>3, KindsStay, AsksStays, JobStays
      <4>5. Set(d, k, next) /\ KeepsJobs({place})
        BY <1>2, <3>3, <4>1
      <4> QED BY <1>0, <1>1, <1>2, <3>1, <4>1, <4>4, <4>5, ResultSet
    <3> QED BY <3>1, <3>2, <3>3
  <2> QED BY <2>2, <2>3
<1> QED BY <1>3, <1>4

LEMMA ResultChoose ==
  ASSUME OneDriver, ResultInv, RouteInv', NEW d \in Drivers, NEW b, b = call[d], NEW k, Choose(d, k)
  PROVE  ResultInv'
<1>0. PICK item, place, own : item = b.wave[k] /\ place = Place(item) /\ own = <<item.node, item.index, 0>>
  OBVIOUS
<1>1. /\ StoreOK /\ BoundOnce /\ k \in Ahead(b) /\ b.pc \in {"execute", "again"} /\ item \in ItemType
      /\ ItemAsks(item) /\ ItemJob(item) /\ IsWorker(item)
      /\ UNCHANGED <<snapshot, runs, bound, approvals>>
  BY <1>0, ResultParts, ExecutedAhead DEF Choose
<1>2. own \in Key /\ item.node \in Nodes
  BY <1>0, <1>1, TemplateFacts DEF ItemType, Key, StoreOK
<1>3. KeepsJobs({}) /\ KeepsDecisions /\ BoundOnce'
  <2>1. UNCHANGED jobs \/ jobs' = Created(own)
    BY <1>0 DEF Choose
  <2> QED BY <1>1, <1>2, <2>1, StayKeeps, CreatedKeeps
<1>4. PICK at, key : /\ Set(d, k, [item EXCEPT !.at = at, !.job = key]) /\ at \in {"start", "bind"}
                     /\ at = "start" => place \in DOMAIN bound /\ key = bound[place]
  <2>1. CASE place \in DOMAIN bound
    <3>1. PICK at, key : at = "start" /\ key = bound[place]
      OBVIOUS
    <3>2. Set(d, k, [item EXCEPT !.at = at, !.job = key])
      BY <1>0, <2>1, <3>1 DEF Choose, Place
    <3> QED BY <2>1, <3>1, <3>2
  <2>2. CASE \E j : Set(d, k, [item EXCEPT !.at = "bind", !.job = j])
    <3>1. PICK at, key : at = "bind" /\ Set(d, k, [item EXCEPT !.at = "bind", !.job = key])
      BY <2>2
    <3>2. Set(d, k, [item EXCEPT !.at = at, !.job = key]) /\ at # "start"
      BY <3>1
    <3> QED BY <3>1, <3>2
  <2> QED BY <1>0, <2>1, <2>2 DEF Choose, Place
<1>5. PICK next : next = [item EXCEPT !.at = at, !.job = key]
  OBVIOUS
<1>6. /\ next.node = item.node /\ next.index = item.index /\ next.at = at /\ next.job = key
      /\ next.out = item.out /\ next.approval = item.approval
  BY <1>1, <1>5 DEF ItemType
<1>7. ItemAsks(next) /\ ItemJob(next)
  BY <1>0, <1>1, <1>4, <1>6 DEF ItemAsks, ItemJob, IsWorker, Place
<1>8. ItemAsks(next)' /\ ItemJob(next)'
  BY <1>1, <1>2, <1>3, <1>6, <1>7, KindsStay, AsksStays, JobStays
<1>9. KeepsJobs({place}) /\ Set(d, k, next)
  BY <1>3, <1>4, <1>5, FewerKept
<1> QED BY <1>0, <1>1, <1>3, <1>8, <1>9, ResultSet

LEMMA ResultBind ==
  ASSUME OneDriver, ResultInv, RouteInv', NEW d \in Drivers, NEW b, b = call[d], NEW k, Bind(d, k)
  PROVE  ResultInv'
<1>0. PICK item, place : item = b.wave[k] /\ place = Place(item)
  OBVIOUS
<1>1. /\ StoreOK /\ BoundOnce /\ k \in Ahead(b) /\ b.pc \in {"execute", "again"} /\ item \in ItemType
      /\ ItemAsks(item) /\ ItemJob(item) /\ IsWorker(item) /\ KeepsDecisions
      /\ UNCHANGED <<snapshot, runs, jobs, approvals>>
  BY <1>0, ResultParts, ExecutedAhead, StayKeeps DEF Bind, ItemAsks
<1>2. CASE Refuse(d, k) /\ UNCHANGED bound
  BY <1>0, <1>1, <1>2, StayKeeps, ResultRefuse
<1>3. CASE /\ place \notin DOMAIN bound /\ item.job \notin Bound
           /\ Moves(d, k, "start") /\ bound' = Put(bound, place, item.job)
  <2>1. PICK next, j : next = [item EXCEPT !.at = "start"] /\ j = item.job
    OBVIOUS
  <2>2. /\ next.node = item.node /\ next.index = item.index /\ next.at = "start" /\ next.job = j
        /\ next.out = item.out /\ next.approval = item.approval /\ item.node \in Nodes
    BY <1>1, <2>1 DEF ItemType
  <2>3. KeepsJobs({place}) /\ BoundOnce' /\ place \in DOMAIN bound' /\ bound'[place] = j
    BY <1>1, <1>3, <2>1, BoundKeeps
  <2>4. ItemAsks(next)
    BY <1>1, <2>2 DEF ItemAsks, IsWorker
  <2>5. ItemAsks(next)'
    BY <1>1, <2>2, <2>4, KindsStay, AsksStays
  <2>6. item.out \notin Successes
    BY <1>0, <1>1, <1>3 DEF ItemJob, SettledAs
  <2>7. Place(next) = place
    BY <1>0, <2>2 DEF Place
  <2>8. ItemJob(next)'
    BY <2>2, <2>3, <2>6, <2>7 DEF ItemJob, Place
  <2>9. Set(d, k, next)
    BY <1>0, <1>3, <2>1 DEF Moves
  <2> QED BY <1>0, <1>1, <2>3, <2>5, <2>8, <2>9, ResultSet
<1> QED BY <1>0, <1>2, <1>3 DEF Bind, Place

LEMMA ResultLease ==
  ASSUME OneDriver, ResultInv, RouteInv', NEW d \in Drivers, NEW b, b = call[d], NEW k,
         StartJob(d, k) \/ Lease(d, k)
  PROVE  ResultInv'
<1>0. PICK item, place, j : item = b.wave[k] /\ place = Place(item) /\ j = item.job
  OBVIOUS
<1>1. /\ StoreOK /\ BoundOnce /\ k \in Ahead(b) /\ b.pc \in {"execute", "again"} /\ item \in ItemType
      /\ item.at \in {"start", "lease"} /\ ItemAsks(item) /\ ItemJob(item) /\ IsWorker(item)
      /\ KeepsDecisions /\ BoundOnce' /\ UNCHANGED <<snapshot, runs, bound, approvals>>
  BY <1>0, ResultParts, ExecutedAhead, StayKeeps DEF StartJob, Lease, ItemAsks
<1>2. CASE Refuse(d, k) /\ UNCHANGED jobs
  BY <1>0, <1>1, <1>2, StayKeeps, ResultRefuse
<1>3. CASE StartJob(d, k) /\ Moves(d, k, "lease")
  <2>1. KeepsJobs({}) /\ item.at = "start"
    BY <1>0, <1>3, StayKeeps, ExecutedAhead DEF StartJob
  <2> QED BY <1>0, <1>1, <1>3, <2>1, ResultMoves
<1>4. CASE Moves(d, k, "run") /\ jobs[j] = "queued" /\ jobs' = [jobs EXCEPT ![j] = "leased"]
  <2>1. PICK next : next = [item EXCEPT !.at = "run"]
    OBVIOUS
  <2>2. /\ next.node = item.node /\ next.index = item.index /\ next.at = "run" /\ next.job = j
        /\ next.out = item.out /\ next.approval = item.approval /\ item.node \in Nodes
    BY <1>0, <1>1, <2>1 DEF ItemType
  <2>3. place \in DOMAIN bound /\ bound[place] = j
    BY <1>0, <1>1 DEF ItemJob
  <2>4. KeepsJobs({place})
    BY <1>1, <1>4, <2>3, ChangedKeeps DEF JobState
  <2>5. item.out \notin Successes
    BY <1>0, <1>1, <1>4, <2>3 DEF ItemJob, SettledAs, Successes
  <2>6. ItemAsks(next)
    BY <1>1, <2>2 DEF ItemAsks, IsWorker
  <2>7. ItemAsks(next)'
    BY <1>1, <2>2, <2>6, KindsStay, AsksStays
  <2>8. Place(next) = place
    BY <1>0, <2>2 DEF Place
  <2>9. ItemJob(next)'
    BY <1>1, <2>2, <2>3, <2>5, <2>8 DEF ItemJob, Place
  <2>10. Set(d, k, next)
    BY <1>0, <1>4, <2>1 DEF Moves
  <2> QED BY <1>0, <1>1, <2>4, <2>7, <2>9, <2>10, ResultSet
<1> QED BY <1>0, <1>2, <1>3, <1>4 DEF StartJob, Lease

LEMMA ResultWork ==
  ASSUME OneDriver, ResultInv, RouteInv', NEW d \in Drivers, NEW b, b = call[d], NEW k, Work(d, k)
  PROVE  ResultInv'
<1>0. PICK item, place, j : item = b.wave[k] /\ place = Place(item) /\ j = item.job
  OBVIOUS
<1>1. /\ StoreOK /\ BoundOnce /\ k \in Ahead(b) /\ b.pc \in {"execute", "again"} /\ item \in ItemType
      /\ item.at = "run" /\ ItemAsks(item) /\ ItemJob(item) /\ IsWorker(item)
      /\ KeepsDecisions /\ BoundOnce' /\ UNCHANGED <<snapshot, runs, bound, approvals>>
  BY <1>0, ResultParts, ExecutedAhead, StayKeeps DEF Work, ItemAsks
<1>2. place \in DOMAIN bound /\ bound[place] = j
  BY <1>0, <1>1 DEF ItemJob
<1>3. ASSUME NEW state \in JobState, jobs' = [jobs EXCEPT ![j] = state]
      PROVE  KeepsJobs({place}) /\ jobs'[bound'[place]] = state
  BY <1>1, <1>2, <1>3, ChangedKeeps
<1>4. ASSUME NEW state \in JobState, jobs' = [jobs EXCEPT ![j] = state],
             NEW out \in {"failed", "canceled"}, Answers(d, k, out)
      PROVE  ResultInv'
  <2>1. Node[item.node].kind # "gate" /\ out \notin Successes /\ out # "waiting"
    BY <1>1 DEF IsWorker, Successes
  <2>2. KeepsJobs({Place(item)})
    BY <1>0, <1>3, <1>4
  <2> QED BY <1>0, <1>1, <1>4, <2>1, <2>2, ResultAnswers
<1>5. ASSUME NEW out \in Successes, jobs' = [jobs EXCEPT ![j] = out],
             Set(d, k, [item EXCEPT !.at = "report", !.out = out])
      PROVE  ResultInv'
  <2>1. PICK next : next = [item EXCEPT !.at = "report", !.out = out]
    OBVIOUS
  <2>2. /\ next.node = item.node /\ next.index = item.index /\ next.at = "report" /\ next.out = out
        /\ next.approval = item.approval /\ item.node \in Nodes
    BY <1>1, <2>1 DEF ItemType
  <2>3. out \in JobState /\ out # "waiting"
    BY DEF JobState, Successes
  <2>4. KeepsJobs({place}) /\ jobs'[bound'[place]] = out
    BY <1>3, <1>5, <2>3
  <2>5. ItemAsks(next)
    BY <1>1, <2>2, <2>3 DEF ItemAsks, IsWorker
  <2>6. ItemAsks(next)'
    BY <1>1, <2>2, <2>5, KindsStay, AsksStays
  <2>7. Place(next) = place
    BY <1>0, <2>2 DEF Place
  <2>8. ItemJob(next)'
    BY <1>1, <1>2, <1>5, <2>2, <2>4, <2>7 DEF ItemJob, Place, SettledAs
  <2>9. Set(d, k, next)
    BY <1>5, <2>1
  <2> QED BY <1>0, <1>1, <2>4, <2>6, <2>8, <2>9, ResultSet
<1>6. PICK out \in Node[item.node].outs :
          \/ /\ out \in Successes
             /\ jobs' = [jobs EXCEPT ![j] = out]
             /\ Set(d, k, [item EXCEPT !.at = "report", !.out = out])
          \/ jobs' = [jobs EXCEPT ![j] = "canceled"] /\ Answers(d, k, "canceled")
          \/ /\ jobs' = [jobs EXCEPT ![j] = IF out = "failed" THEN "failed" ELSE "queued"]
             /\ Answers(d, k, "failed")
  BY <1>0 DEF Work
<1>7. {"failed", "queued", "canceled"} \subseteq JobState
  BY DEF JobState
<1> QED BY <1>4, <1>5, <1>6, <1>7

LEMMA ResultReport ==
  ASSUME OneDriver, ResultInv, RouteInv', NEW d \in Drivers, NEW b, b = call[d], NEW k, Report(d, k)
  PROVE  ResultInv'
<1>0. PICK item : item = b.wave[k]
  OBVIOUS
<1>1. /\ StoreOK /\ BoundOnce /\ k \in Ahead(b) /\ b.pc \in {"execute", "again"} /\ item \in ItemType
      /\ ItemAsks(item) /\ ItemJob(item) /\ IsWorker(item) /\ BoundOnce' /\ KeepsJobs({})
      /\ UNCHANGED <<snapshot, runs, jobs, bound>>
  BY <1>0, ResultParts, ExecutedAhead, StayKeeps DEF Report, ItemAsks
<1>2. KeepsDecisions
  BY <1>1, StayKeeps, AskedKeeps DEF Report
<1>3. Moves(d, k, "done") \/ Refuse(d, k)
  BY DEF Report
<1>4. CASE Moves(d, k, "done")
  BY <1>0, <1>1, <1>2, <1>4, ResultMoves
<1>5. CASE Refuse(d, k)
  BY <1>0, <1>1, <1>2, <1>5, ResultRefuse
<1> QED BY <1>3, <1>4, <1>5

LEMMA ResultTooLate ==
  ASSUME OneDriver, ResultInv, RouteInv', NEW d \in Drivers, NEW b, b = call[d], NEW k, TooLate(d, k)
  PROVE  ResultInv'
<1>0. PICK item, next, place :
        item = b.wave[k] /\ next = [item EXCEPT !.out = "failed"] /\ place = Place(item)
  OBVIOUS
<1>1. /\ b.pc = "execute" /\ k \in DOMAIN b.wave /\ b \in Call /\ CallRight(b) /\ StoreOK /\ BoundOnce
      /\ IsWorker(item) /\ item.at = "done" /\ Quiet /\ UNCHANGED runs
  BY <1>0, ResultParts DEF TooLate, At, storeVars, Quiet
<1>2. k \in Ahead(b) /\ item \in ItemType
  BY <1>0, <1>1 DEF Ahead, BegunIn, Waving, Call
<1>3. next.node = item.node /\ next.at = "done" /\ next.out = "failed" /\ item.node \in Nodes
  BY <1>0, <1>1, <1>2 DEF ItemType
<1>4. ItemAsks(next) /\ ItemJob(next)
  BY <1>1, <1>3 DEF ItemAsks, ItemJob, IsWorker, Successes
<1>5. SameKinds /\ KeepsDecisions /\ KeepsJobs({}) /\ KeepsJobs({place}) /\ BoundOnce'
  BY <1>1, QuietKeeps, FewerKept
<1>6. ItemAsks(next)' /\ ItemJob(next)'
  BY <1>3, <1>4, <1>5, AsksStays, JobStays
<1>7. Set(d, k, next) /\ UNCHANGED snapshot
  BY <1>0, <1>1 DEF TooLate, Quiet
<1> QED BY <1>0, <1>1, <1>2, <1>5, <1>6, <1>7, ResultSet

LEMMA ResultRepeats ==
  ASSUME OneDriver, ResultInv, RouteInv', NEW d \in Drivers, NEW b, b = call[d],
         ApplyRetry(d) \/ Fresh(d)
  PROVE  ResultInv'
<1>0. /\ UNCHANGED <<snapshot, runs, approvals>> /\ b \in Call /\ b.pc \in {"apply", "fresh"}
      /\ b.wave \in Seq(ItemType) /\ b.cur \in DOMAIN b.wave /\ b.cur \in Nat /\ Item(d) \in ItemType
      /\ StoreOK /\ BoundOnce /\ CallRight(b) /\ InCall(d)
  BY ResultParts, Known, CurrentItem DEF ApplyRetry, Fresh, At, Waving, Call, BaseInv
<1>1. PICK W, k, item, place, key : /\ W = b.wave /\ k = b.cur /\ item = W[k] /\ place = Place(item)
                                    /\ key = <<Item(d).node, Item(d).index, call[d].tries>>
  OBVIOUS
<1>2. item = Item(d) /\ item \in ItemType /\ item.node \in Nodes /\ k \in DOMAIN b.wave /\ item = b.wave[k]
  BY <1>0, <1>1 DEF Item, ItemType
<1>3. k \in Ahead(b) /\ BegunIn(b) = DOMAIN b.wave
  <2>1. BegunIn(b) = DOMAIN b.wave
    BY <1>0 DEF BegunIn, Waving
  <2> QED BY <1>0, <1>1, <1>2, <2>1 DEF Ahead
<1>4. ItemAsks(item) /\ ItemJob(item)
  BY <1>0, <1>2, <1>3 DEF CallRight, Waving
<1>5. ASSUME NEW next, NEW c, Go(d, c), c.pc \in {"again", "fresh"}, c.mode = b.mode, c.cur = b.cur,
             c.wave = [W EXCEPT ![k] = next], c.pc = "fresh" => IsWorker(next),
             KeepsJobs({place}), BoundOnce', next.node = item.node, ItemAsks(next), ItemJob(next)'
      PROVE  ResultInv'
  <2>1. /\ DOMAIN c.wave = DOMAIN b.wave /\ c.wave[k] = next
        /\ \A j \in DOMAIN b.wave : j # k => c.wave[j] = b.wave[j]
    BY <1>0, <1>1, <1>5
  <2>2. Ahead(c) \subseteq Ahead(b)
    <3>1. BegunIn(c) = DOMAIN b.wave
      BY <1>5, <2>1 DEF BegunIn, Waving
    <3> QED BY <1>0, <1>3, <1>5, <3>1 DEF Ahead
  <2>3. KeepsDecisions /\ SameKinds
    BY <1>0, StayKeeps, KindsStay
  <2>4. ItemAsks(next)'
    BY <1>2, <1>5, <2>3, AsksStays
  <2>5. c.pc = "fresh" => IsWorker(Current(c))
    BY <1>1, <1>5, <2>1 DEF Current
  <2>6. /\ b.pc \in {"apply", "execute", "again", "fresh"} /\ c.pc \in {"execute", "again", "fresh"}
        /\ UNCHANGED <<snapshot, runs>> /\ place = Place(b.wave[k]) /\ k \in Ahead(b)
    BY <1>0, <1>1, <1>2, <1>3, <1>5
  <2>7. KeepsJobs({place}) /\ BoundOnce' /\ ItemJob(next)' /\ Go(d, c) /\ c.mode = b.mode
    BY <1>5
  <2> QED BY <2>1, <2>2, <2>3, <2>4, <2>5, <2>6, <2>7, ResultItem
<1>6. CASE ApplyRetry(d)
  <2>1. PICK next, tries, label :
          /\ next = [item EXCEPT !.at = "todo"] /\ tries = call[d].tries + 1
          /\ label = IF IsWorker(Item(d)) THEN "fresh" ELSE "again"
    OBVIOUS
  <2>2. PICK V : V = [W EXCEPT ![k] = next]
    OBVIOUS
  <2>3. PICK c : c = [call[d] EXCEPT !.pc = label, !.tries = tries, !.wave = V]
    OBVIOUS
  <2>4. c.pc = label /\ c.wave = V /\ c.mode = b.mode /\ c.cur = b.cur
    BY <1>0, <2>3 DEF Call
  <2>5. Go(d, c)
    <3>1. V = [call[d].wave EXCEPT ![call[d].cur].at = "todo"]
      BY <1>1, <2>1, <2>2
    <3> QED BY <1>1, <1>6, <2>1, <2>3, <3>1 DEF ApplyRetry
  <2>6. next.node = item.node /\ next.at = "todo" /\ next.out = item.out /\ next.approval = item.approval
    BY <1>2, <2>1 DEF ItemType
  <2>7. item.out \in Failures
    BY <1>2, <1>6 DEF ApplyRetry
  <2>8. ItemAsks(next)
    BY <1>4, <2>6 DEF ItemAsks
  <2>9. ItemJob(next)'
    BY <2>6, <2>7 DEF ItemJob, Successes, Failures
  <2>10. bound' = [p \in DOMAIN bound \ {place} |-> bound[p]] /\ UNCHANGED jobs
    BY <1>1, <1>2, <1>6 DEF ApplyRetry, Place
  <2>11. KeepsJobs({place}) /\ BoundOnce'
    BY <1>0, <2>10 DEF KeepsJobs, BoundOnce
  <2>12. label = "fresh" => IsWorker(next)
    BY <1>2, <2>1, <2>6 DEF IsWorker
  <2>13. label \in {"again", "fresh"}
    BY <2>1
  <2> QED BY <1>5, <2>2, <2>4, <2>5, <2>6, <2>8, <2>9, <2>11, <2>12, <2>13
<1>7. CASE Fresh(d)
  <2>1. PICK next : next = [item EXCEPT !.at = "bind", !.job = key]
    OBVIOUS
  <2>2. PICK V : V = [W EXCEPT ![k] = next]
    OBVIOUS
  <2>3. PICK c : c = [call[d] EXCEPT !.pc = "again", !.wave = V]
    OBVIOUS
  <2>4. c.pc = "again" /\ c.wave = V /\ c.mode = b.mode /\ c.cur = b.cur
    BY <1>0, <2>3 DEF Call
  <2>5. Go(d, c)
    <3>1. V = [call[d].wave EXCEPT ![call[d].cur].at = "bind", ![call[d].cur].job = key]
      BY <1>0, <1>1, <1>2, <2>1, <2>2
    <3> QED BY <1>1, <1>7, <2>3, <3>1 DEF Fresh
  <2>6. /\ next.node = item.node /\ next.index = item.index /\ next.at = "bind" /\ next.out = item.out
        /\ next.approval = item.approval
    BY <1>2, <2>1 DEF ItemType
  <2>7. IsWorker(item)
    BY <1>0, <1>1, <1>7 DEF CallRight, Waving, Current, Fresh, At
  <2>8. ItemAsks(next)
    BY <1>4, <2>6, <2>7 DEF ItemAsks, IsWorker
  <2>9. ItemJob(next)
    BY <1>4, <2>6 DEF ItemJob, IsWorker, Place
  <2>10. KeepsJobs({}) /\ BoundOnce'
    <3>1. key \in Key
      BY <1>0, <1>1, <1>2, TemplateFacts DEF ItemType, Key, StoreOK, Call
    <3>2. jobs' = Created(key) /\ UNCHANGED bound
      BY <1>1, <1>7 DEF Fresh
    <3> QED BY <1>0, <3>1, <3>2, CreatedKeeps, StayKeeps
  <2>11. ItemJob(next)' /\ KeepsJobs({place})
    BY <1>0, <1>2, <2>6, <2>9, <2>10, KindsStay, JobStays, FewerKept
  <2> QED BY <1>5, <2>2, <2>4, <2>5, <2>6, <2>8, <2>10, <2>11
<1> QED BY <1>6, <1>7

(* All other steps of a driver leave jobs, approvals and items alone.         *)
LEMMA MovedCall ==
  ASSUME CallsOK, NEW d \in Drivers, NEW b, b = call[d], NEW c, Go(d, c), c.pc # "fresh",
         c.pc \in Waving => c.wave = b.wave
  PROVE  Unmoved(d, b)
BY GoFacts DEF Unmoved

LEMMA MovedGoto ==
  ASSUME BaseInv, NEW d \in Drivers, NEW b, b = call[d], NEW label, label # "fresh",
         Return(d) \/ Goto(d, label)
  PROVE  Unmoved(d, b)
<1>0. CallsOK /\ b \in Call
  BY Known DEF BaseInv
<1>1. CASE Return(d)
  BY <1>0, <1>1, ReturnFacts, MovedCall DEF NoCall, Waving
<1>2. CASE Goto(d, label)
  <2>1. PICK c : c = [call[d] EXCEPT !.pc = label]
    OBVIOUS
  <2>2. c.pc = label /\ c.wave = b.wave
    BY <1>0, <2>1 DEF Call
  <2>3. Go(d, c)
    BY <1>2, <2>1 DEF Goto
  <2> QED BY <1>0, <2>2, <2>3, MovedCall
<1> QED BY <1>1, <1>2

LEMMA MovedApply ==
  ASSUME BaseInv, NEW d \in Drivers, NEW b, b = call[d],
         \/ Prepare(d) \/ Repeated(d) \/ Collect(d) \/ Consume(d) \/ CountStep(d)
         \/ ApplyWaiting(d) \/ ApplySuccess(d)
  PROVE  Unmoved(d, b)
<1>0. CallsOK /\ b \in Call
  BY Known DEF BaseInv
<1>1. ASSUME NEW c, Go(d, c), c.pc # "fresh", c.wave = b.wave
      PROVE  Unmoved(d, b)
  BY <1>0, <1>1, MovedCall
<1>2. CASE Prepare(d) \/ Repeated(d) \/ Consume(d) \/ ApplyWaiting(d)
  <2>1. Return(d) \/ \E label \in {"execute", "apply", "next", "consume"} : Goto(d, label)
    BY <1>2 DEF Prepare, Repeated, Consume, ApplyWaiting
  <2> QED BY <2>1, MovedGoto
<1>3. CASE Collect(d)
  <2>1. PICK c : c = [call[d] EXCEPT !.pc = "apply", !.cur = 1]
    OBVIOUS
  <2>2. Go(d, c)
    BY <1>3, <2>1 DEF Collect
  <2>3. c.pc = "apply" /\ c.wave = b.wave
    BY <1>0, <2>1 DEF Call
  <2> QED BY <1>1, <2>2, <2>3
<1>4. CASE CountStep(d)
  <2>1. PICK c : c = [call[d] EXCEPT !.pc = "finish", !.goal = "waiting"]
    OBVIOUS
  <2>2. Go(d, c) \/ Goto(d, "settle")
    BY <1>4, <2>1 DEF CountStep
  <2>3. c.pc = "finish" /\ c.wave = b.wave
    BY <1>0, <2>1 DEF Call
  <2> QED BY <1>1, <2>2, <2>3, MovedGoto
<1>5. CASE ApplySuccess(d)
  <2>1. PICK c : c = [call[d] EXCEPT !.pc = "route", !.via = 1]
    OBVIOUS
  <2>2. Go(d, c)
    BY <1>5, <2>1 DEF ApplySuccess
  <2>3. c.pc = "route" /\ c.wave = b.wave
    BY <1>0, <2>1 DEF Call
  <2> QED BY <1>1, <2>2, <2>3
<1> QED BY <1>2, <1>3, <1>4, <1>5

LEMMA MovedRoute ==
  ASSUME BaseInv, NEW d \in Drivers, NEW b, b = call[d],
         ApplyFailure(d) \/ Route(d) \/ HandOver(d) \/ NextItem(d) \/ ResumeGate(d)
  PROVE  Unmoved(d, b)
<1>0. CallsOK /\ b \in Call
  BY Known DEF BaseInv
<1>1. ASSUME NEW c, Go(d, c), c.pc # "fresh", c.wave = b.wave
      PROVE  Unmoved(d, b)
  BY <1>0, <1>1, MovedCall
<1>2. ASSUME NEW label \in {"consume", "finish", "next"}, NEW goal,
             Go(d, [call[d] EXCEPT !.pc = label, !.goal = goal])
      PROVE  Unmoved(d, b)
  <2>1. PICK c : c = [call[d] EXCEPT !.pc = label, !.goal = goal]
    OBVIOUS
  <2>2. c.pc = label /\ c.wave = b.wave
    BY <1>0, <2>1 DEF Call
  <2> QED BY <1>1, <1>2, <2>1, <2>2
<1>3. ASSUME Go(d, [call[d] EXCEPT !.pc = "route", !.via = 1])
      PROVE  Unmoved(d, b)
  <2>1. PICK c : c = [call[d] EXCEPT !.pc = "route", !.via = 1]
    OBVIOUS
  <2>2. c.pc = "route" /\ c.wave = b.wave
    BY <1>0, <2>1 DEF Call
  <2> QED BY <1>1, <1>3, <2>1, <2>2
<1>4. CASE ApplyFailure(d) \/ ResumeGate(d)
  <2>1. \/ \E label \in {"consume", "finish", "next"} :
             Go(d, [call[d] EXCEPT !.pc = label, !.goal = "unhandled_node_outcome"])
        \/ \E label \in {"consume", "finish", "next"} :
             Go(d, [call[d] EXCEPT !.pc = label, !.goal = "waiting"])
        \/ Go(d, [call[d] EXCEPT !.pc = "route", !.via = 1])
    BY <1>4 DEF ApplyFailure, ResumeGate
  <2> QED BY <1>2, <1>3, <2>1
<1>5. CASE Route(d) \/ HandOver(d)
  <2>1. \/ \E goal : Routed(d, goal)
        \/ \E via : Go(d, [call[d] EXCEPT !.via = via])
        \/ \E via, room : Go(d, [call[d] EXCEPT !.via = via, !.room = room])
    BY <1>5 DEF Route, HandOver, Counted
  <2>2. CASE \E goal : Routed(d, goal)
    BY <1>2, <2>2 DEF Routed
  <2>3. CASE \E via : Go(d, [call[d] EXCEPT !.via = via])
    <3>1. PICK via : Go(d, [call[d] EXCEPT !.via = via])
      BY <2>3
    <3>2. PICK c : c = [call[d] EXCEPT !.via = via]
      OBVIOUS
    <3>3. c.pc = b.pc /\ c.wave = b.wave /\ b.pc = "route"
      BY <1>0, <1>5, <3>2 DEF Call, Route, HandOver, At
    <3> QED BY <1>1, <3>1, <3>2, <3>3
  <2>4. CASE \E via, room : Go(d, [call[d] EXCEPT !.via = via, !.room = room])
    <3>1. PICK via, room : Go(d, [call[d] EXCEPT !.via = via, !.room = room])
      BY <2>4
    <3>2. PICK c : c = [call[d] EXCEPT !.via = via, !.room = room]
      OBVIOUS
    <3>3. c.pc = b.pc /\ c.wave = b.wave /\ b.pc = "route"
      BY <1>0, <1>5, <3>2 DEF Call, Route, HandOver, At
    <3> QED BY <1>1, <3>1, <3>2, <3>3
  <2> QED BY <2>1, <2>2, <2>3, <2>4
<1>6. CASE NextItem(d)
  <2>1. PICK cur, label : /\ cur = call[d].cur + 1
                          /\ label = IF call[d].mode = "gates" THEN "gate" ELSE "apply"
    OBVIOUS
  <2>2. PICK c : c = [call[d] EXCEPT !.pc = label, !.cur = cur, !.tries = 0]
    OBVIOUS
  <2>3. (\E l \in {"finish", "reopen", "count"} : Goto(d, l)) \/ Go(d, c)
    BY <1>6, <2>1, <2>2 DEF NextItem
  <2>4. c.pc = label /\ c.wave = b.wave /\ label # "fresh"
    BY <1>0, <2>1, <2>2 DEF Call
  <2> QED BY <1>1, <2>3, <2>4, MovedGoto
<1> QED BY <1>4, <1>5, <1>6

LEMMA ResultDriver ==
  ASSUME OneDriver, ResultInv, RouteInv', NEW d \in Drivers, NEW b, b = call[d],
         Driver(d) \/ Crash(d) \/ \E k \in DOMAIN call[d].wave : TooLate(d, k)
  PROVE  ResultInv'
<1>0. BaseInv
  BY ResultParts
<1>1. CASE \E k \in DOMAIN call[d].wave : Thread(d, k) \/ TooLate(d, k)
  BY <1>1, ResultPrograms, ResultChoose, ResultBind, ResultLease, ResultWork, ResultReport,
     ResultTooLate DEF Thread
<1>2. CASE ApplyRetry(d) \/ Fresh(d)
  BY <1>2, ResultRepeats
<1>3. CASE \/ Prepare(d) \/ Repeated(d) \/ Collect(d) \/ Consume(d) \/ CountStep(d)
           \/ ApplyWaiting(d) \/ ApplySuccess(d)
  <2>1. Quiet
    BY <1>3 DEF Prepare, Repeated, Collect, Consume, CountStep, ApplyWaiting, ApplySuccess, Quiet, storeVars
  <2>2. Unmoved(d, b) /\ \E c : Shape(d, b, c)
    BY <1>0, <1>3, MovedApply, DriverShape DEF Driver
  <2> QED BY <2>1, <2>2, ResultShape
<1>4. CASE ApplyFailure(d) \/ Route(d) \/ HandOver(d) \/ NextItem(d) \/ ResumeGate(d)
  <2>1. Quiet
    BY <1>4 DEF ApplyFailure, Route, HandOver, NextItem, ResumeGate, Quiet, storeVars
  <2>2. Unmoved(d, b) /\ \E c : Shape(d, b, c)
    BY <1>0, <1>4, MovedRoute, DriverShape DEF Driver
  <2> QED BY <2>1, <2>2, ResultShape
<1>5. CASE \/ Start(d) \/ Wake(d) \/ Look(d) \/ Scan(d) \/ Rounds(d)
           \/ Plan(d) \/ Settle(d) \/ Finish(d) \/ CompleteMission(d) \/ FailMission(d)
           \/ CreateRun(d) \/ MarkRunning(d) \/ Resume(d) \/ Reopen(d)
  <2>1. Quiet
    BY <1>5 DEF Start, Wake, Look, Scan, Rounds, Plan, Settle, Finish, CompleteMission, FailMission,
       CreateRun, MarkRunning, Resume, Reopen, Quiet, storeVars
  <2>2. b.pc \notin Waving \ {"create", "mark"}
    BY <1>5 DEF Start, Wake, Look, Scan, Rounds, Plan, Settle, Finish, CompleteMission, FailMission,
       CreateRun, MarkRunning, Resume, Reopen, At, Waving
  <2>3. \E c : Shape(d, b, c)
    BY <1>0, <1>5, DriverShape DEF Driver
  <2> QED BY <2>1, <2>2, <2>3, ResultShape
<1>6. CASE Crash(d)
  <2>1. Return(d) /\ Quiet /\ UNCHANGED <<snapshot, runs>> /\ BoundOnce
    BY <1>6, ResultParts DEF Crash, Quiet, storeVars
  <2> QED BY <2>1, QuietKeeps, ResultReturn
<1> QED BY <1>1, <1>2, <1>3, <1>4, <1>5, <1>6 DEF Driver

LEMMA CallKept ==
  ASSUME SameKinds, KeepsDecisions, KeepsJobs({}), NEW c \in Call, CallRight(c),
         c.pc \in Waving => c.cur \in DOMAIN c.wave
  PROVE  CallRight(c)'
<1>0. \A k \in DOMAIN c.wave : c.wave[k].node \in Nodes
  <2>1. \A k \in DOMAIN c.wave : c.wave[k] \in ItemType
    BY DEF Call
  <2> QED BY <2>1 DEF ItemType
<1> SUFFICES ASSUME c.pc \in Waving
             PROVE  CallRight(c)'
  BY DEF CallRight
<1>1. ASSUME NEW k \in DOMAIN c.wave
      PROVE  ItemAsks(c.wave[k])'
  BY <1>0, <1>1, AsksStays DEF CallRight
<1>2. ASSUME NEW k \in Ahead(c)
      PROVE  ItemJob(c.wave[k])'
  <2>1. k \in DOMAIN c.wave
    BY <1>2 DEF Ahead, BegunIn
  <2> QED BY <1>0, <1>2, <2>1, JobStays DEF CallRight
<1>3. \A k \in DOMAIN c.wave : Node'[c.wave[k].node].kind = Node[c.wave[k].node].kind
  BY <1>0 DEF SameKinds
<1>4. c.pc = "fresh" => IsWorker(Current(c))'
  BY <1>3 DEF CallRight, IsWorker, Current
<1>5. Ahead(c)' = Ahead(c) /\ Current(c)' = Current(c)
  BY DEF Ahead, BegunIn, Current
<1> QED BY <1>1, <1>2, <1>3, <1>4, <1>5 DEF CallRight

LEMMA ResultOutside ==
  ASSUME ResultInv, RouteInv', UNCHANGED call, SameKinds, KeepsDecisions, KeepsJobs({}), BoundOnce',
         RunsRight'
  PROVE  ResultInv'
<1>1. ASSUME NEW d \in Drivers
      PROVE  CallRight(call[d])'
  <2>1. PICK c : c = call[d]
    OBVIOUS
  <2>2. c \in Call /\ CallRight(c) /\ (c.pc \in Waving => c.cur \in DOMAIN c.wave)
    BY <2>1, ResultParts, Known, CurrentItem DEF BaseInv
  <2>3. CallRight(c)'
    BY <2>2, CallKept
  <2>4. call'[d] = c
    BY <2>1
  <2> QED BY <2>3, <2>4
<1> QED BY <1>1 DEF ResultInv

LEMMA ResultPassed ==
  ASSUME ResultInv, NEW n \in Nodes, Passed(n), SameKinds, KeepsDecisions, KeepsJobs({})
  PROVE  RunsRight'
<1>0. StoreOK /\ RunsRight
  BY BaseStore DEF ResultInv, RouteInv
<1>1. ASSUME NEW r \in DOMAIN runs
      PROVE  RunRight(r)'
  <2>1. runs'[r] = runs[r] /\ IndexOf(r)' = IndexOf(r)
    BY DEF Passed
  <2> QED BY <1>0, <2>1, RunStays DEF RunsRight
<1>2. ASSUME NEW r, r = Len(runs) + 1
      PROVE  RunRight(r)'
  <2>1. runs'[r] = Skipped(n)
    BY <1>2 DEF Passed
  <2>2. runs'[r].status = "SKIPPED" /\ runs'[r].out = "canceled"
    BY <2>1 DEF Skipped
  <2> QED BY <2>2 DEF RunRight, DecidedAs
<1>3. DOMAIN runs' = DOMAIN runs \cup {Len(runs) + 1}
  BY DEF Passed
<1> QED BY <1>1, <1>2, <1>3 DEF RunsRight

LEMMA ResultOthers ==
  ASSUME OneDriver, ResultInv, RouteInv', Reviewer \/ Recovery \/ CancelMission \/ Intervention
  PROVE  ResultInv'
<1>0. StoreOK /\ BoundOnce /\ RunsRight
  BY BaseStore DEF ResultInv, RouteInv
<1>1. ASSUME UNCHANGED <<runs, bound, call>>, SameKinds, KeepsDecisions, KeepsJobs({})
      PROVE  ResultInv'
  <2>1. RunsRight' /\ BoundOnce'
    BY <1>0, <1>1, RunsKept, StayKeeps
  <2> QED BY <1>1, <2>1, ResultOutside
<1>2. CASE Reviewer
  <2>1. PICK a \in DOMAIN approvals : Decide(a) \/ Tell(a)
    BY <1>2 DEF Reviewer
  <2>2. UNCHANGED <<snapshot, runs, bound, jobs, call>>
    BY <2>1 DEF Decide, Tell
  <2>3. KeepsDecisions
    <3>1. approvals \in Seq(Approval)
      BY <1>0 DEF StoreOK
    <3>2. \A i \in DOMAIN approvals : approvals[i] \in Approval
      BY <3>1
    <3>3. CASE Decide(a)
      BY <2>1, <3>1, <3>2, <3>3 DEF Decide, KeepsDecisions, Approval
    <3>4. CASE Tell(a)
      BY <2>1, <3>1, <3>2, <3>4 DEF Tell, KeepsDecisions, Approval
    <3> QED BY <2>1, <3>3, <3>4
  <2> QED BY <1>1, <2>2, <2>3, KindsStay, StayKeeps
<1>3. CASE CancelMission
  <2>1. UNCHANGED <<snapshot, runs, bound, jobs, approvals, call>>
    BY <1>3 DEF CancelMission
  <2> QED BY <1>1, <2>1, KindsStay, StayKeeps
<1>4. CASE Recovery
  <2>1. PICK j \in DOMAIN jobs : RecoverJob(j)
    BY <1>4 DEF Recovery
  <2>2. UNCHANGED <<snapshot, runs, bound, approvals, call>> /\ jobs[j] = "leased"
    BY <2>1 DEF RecoverJob
  <2>3. PICK status : jobs' = [jobs EXCEPT ![j] = status]
    BY <2>1 DEF RecoverJob
  <2>4. \A p \in DOMAIN bound : bound[p] \in DOMAIN jobs
    BY <1>0 DEF StoreOK, BoundOK
  <2>5. \A i \in DOMAIN jobs : jobs[i] \in Successes => jobs'[i] = jobs[i]
    BY <1>0, <2>2, <2>3 DEF StoreOK, JobsOK, Successes
  <2>6. KeepsJobs({})
    BY <2>2, <2>4, <2>5 DEF KeepsJobs
  <2> QED BY <1>1, <2>2, <2>6, KindsStay, StayKeeps
<1>5. ASSUME NEW key \in Keys, Refused(key)
      PROVE  ResultInv'
  <2>1. UNCHANGED <<snapshot, runs, bound, jobs, approvals, call>>
    BY <1>5 DEF Refused, storeVars
  <2> QED BY <1>1, <2>1, KindsStay, StayKeeps
<1>6. ASSUME NEW key \in Keys, NEW n \in Nodes, RetryNode(key, n)
      PROVE  ResultInv'
  <2>1. UNCHANGED <<runs, bound, jobs, approvals, call>>
    BY <1>6 DEF RetryNode
  <2>2. SameKinds
    BY <1>0, <1>6, RetryTemplate DEF SameKinds
  <2> QED BY <1>1, <2>1, <2>2, StayKeeps
<1>7. ASSUME NEW key \in Keys, NEW n \in Nodes, CancelBranch(key, n)
      PROVE  ResultInv'
  <2>1. UNCHANGED <<snapshot, bound, jobs, approvals, call>> /\ Passed(n)
    BY <1>0, <1>7, SkipEffect DEF CancelBranch
  <2>2. SameKinds /\ KeepsDecisions /\ KeepsJobs({}) /\ BoundOnce'
    BY <1>0, <2>1, KindsStay, StayKeeps
  <2>3. RunsRight'
    BY <2>1, <2>2, ResultPassed
  <2> QED BY <2>1, <2>2, <2>3, ResultOutside
<1> QED BY <1>2, <1>3, <1>4, <1>5, <1>6, <1>7 DEF Intervention

LEMMA ResultNext ==
  ASSUME OneDriver, ResultInv, [Next]_vars
  PROVE  ResultInv'
<1>0. RouteInv'
  BY RouteNext DEF ResultInv
<1>1. CASE Next
  BY <1>0, <1>1, ResultDriver, ResultOthers DEF Next
<1>2. CASE UNCHANGED vars
  <2>1. UNCHANGED <<snapshot, runs, bound, jobs, approvals, call>> /\ BoundOnce /\ RunsRight /\ StoreOK
    BY <1>2, BaseStore DEF vars, storeVars, ResultInv, RouteInv
  <2>2. SameKinds /\ KeepsDecisions /\ KeepsJobs({}) /\ BoundOnce'
    BY <2>1, KindsStay, StayKeeps
  <2>3. RunsRight'
    BY <2>1, <2>2, RunsKept
  <2> QED BY <1>0, <2>1, <2>2, <2>3, ResultOutside
<1> QED BY <1>1, <1>2

LEMMA ResultInit ==
  ASSUME Init
  PROVE  ResultInv
<1>1. RouteInv
  BY RouteInit
<1>2. runs = <<>> /\ bound = <<>> /\ \A d \in Drivers : call[d] = NoCall
  BY DEF Init
<1>3. BoundOnce /\ RunsRight
  BY <1>2 DEF BoundOnce, RunsRight
<1>4. \A d \in Drivers : CallRight(call[d])
  BY <1>2 DEF CallRight, NoCall, Waving
<1> QED BY <1>1, <1>3, <1>4 DEF ResultInv

LEMMA ResultHolds == ASSUME OneDriver PROVE Spec => []ResultInv
<1>1. Init => ResultInv
  BY ResultInit
<1>2. ResultInv /\ [Next]_vars => ResultInv'
  BY ResultNext
<1> QED BY <1>1, <1>2, PTL DEF Spec

(* A worker's node run succeeds only with the outcome of the job of its own   *)
(* place, and a gate only says what was decided about the approval it shows:  *)
(* the result travels from the worker's thread over the item of the wave to   *)
(* the row of the run, and on the way its future may time out, the job be     *)
(* unbound and replaced by a fresh one, the lease be recovered, the driver    *)
(* die and the next call resume the run from the job's row                    *)
(* (_execute_worker, _apply_wave_results, _resume_requeued_worker_wave,       *)
(* _resume_waiting_gates).                                                    *)
THEOREM ResultsHold == ASSUME OneDriver PROVE Spec => []ResultsTrue
<1>1. ASSUME ResultInv
      PROVE  ResultsTrue
  <2>1. RunsRight /\ SentRight
    BY <1>1 DEF ResultInv, RouteInv
  <2>2. ASSUME NEW r \in DOMAIN runs, Node[runs[r].node].kind = "worker", runs[r].status = "SUCCEEDED"
        PROVE  /\ <<runs[r].node, IndexOf(r)>> \in DOMAIN bound
               /\ jobs[bound[<<runs[r].node, IndexOf(r)>>]] = runs[r].out
    BY <2>1, <2>2 DEF RunsRight, RunRight, SettledAs, PlaceOf
  <2>3. ASSUME NEW r \in DOMAIN runs, Node[runs[r].node].kind = "gate"
        PROVE  /\ runs[r].out \in {"approved", "rejected"} =>
                     approvals[runs[r].approval].decision = runs[r].out
               /\ (\E h \in DOMAIN handoffs : handoffs[h].source = r /\ ~handoffs[h].synthetic) =>
                     runs[r].status \in TerminalRun
    BY <2>1, <2>3 DEF RunsRight, RunRight, DecidedAs, SentRight
  <2> QED BY <2>2, <2>3 DEF ResultsTrue
<1>2. ResultInv => ResultsTrue
  BY <1>1
<1> QED BY <1>2, ResultHolds, PTL
=============================================================================
