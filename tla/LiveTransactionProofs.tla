------------------------ MODULE LiveTransactionProofs ------------------------
(***************************************************************************)
(* Proofs about LiveTransaction, for any inventory of objects, any table of *)
(* commands that satisfies its assumptions, and any number of calls, edits, *)
(* faults and kills: a call changes only what is as it was shown, what it   *)
(* verifies is what was shown, a failure that is said to be undone leaves   *)
(* nothing behind, and a careful rollback deletes nothing of others.        *)
(***************************************************************************)
EXTENDS LiveTransaction, TLAPS

-----------------------------------------------------------------------------
(* The table *)

(* The record of the command that is at work is one of the table.           *)
LEMMA Command ==
  ASSUME cmd \in Commands
  PROVE  /\ H \in HandlerType /\ H.plan # << >>
         /\ H.check.names \cup H.check.values \subseteq H.watch.names \cup H.watch.values
         /\ H.check.values \subseteq H.watch.values \cup Adds(H)
         /\ \A x \in Planned(H) :
              \/ x \in H.watch.values
              \/ x \in H.watch.names /\ x \in Adds(H)
              \/ x \notin H.watch.names \cup H.always /\ H.record = "never"
         /\ \A x \in Moves(H) :
              x \in H.watch.values /\ ~H.native /\ \A i, j \in Calls(H, x) : i = j
         /\ \A i \in DOMAIN H.plan : \A x \in DOMAIN H.plan[i] :
              H.plan[i][x] = "back" => x \in H.watch.values
         /\ \A x \in Planned(H) : Last(H, x) = "back" => First(H, x) \notin {"add", "put"}
         /\ H.proves => ~H.native /\ H.always = {}
<1>1. PICK c \in Commands : c = cmd
  OBVIOUS
<1>2. H = Handlers[c]
  BY <1>1 DEF H
<1> QED
  BY <1>2, HandlersAssumption, PlansAssumption, ZenonT(60)

(* What a handler of the table consists of.                                 *)
LEMMA Fields ==
  ASSUME NEW h \in HandlerType
  PROVE  /\ h.plan \in Seq(Items)
         /\ h.watch \in Scope /\ h.check \in Scope /\ h.judge \in Scope
         /\ h.always \in SUBSET Names /\ h.fresh \in SUBSET Names
         /\ h.proves \in BOOLEAN /\ h.native \in BOOLEAN /\ h.made \in BOOLEAN
BY DEF HandlerType

LEMMA Scopes ==
  ASSUME NEW s \in Scope
  PROVE  s.names \subseteq Names /\ s.values \subseteq Names
BY DEF Scope

(* An item gives some objects an effect each.                               *)
LEMMA ItemOfPlan ==
  ASSUME NEW h \in HandlerType, NEW i \in DOMAIN h.plan
  PROVE  /\ h.plan[i] \in [DOMAIN h.plan[i] -> Effects]
         /\ DOMAIN h.plan[i] \subseteq Names /\ DOMAIN h.plan[i] # {}
         /\ DOMAIN h.plan[i] \subseteq Planned(h)
         /\ \A x \in DOMAIN h.plan[i] : i \in Calls(h, x)
<1>1. h.plan \in Seq(Items)
  BY Fields
<1>2. h.plan[i] \in Items
  BY <1>1
<1>3. PICK S \in (SUBSET Names) \ {{}} : h.plan[i] \in [S -> Effects]
  BY <1>2 DEF Items
<1>4. DOMAIN h.plan[i] = S
  BY <1>3
<1>5. DOMAIN h.plan[i] \subseteq Planned(h)
  <2> DEFINE D == {DOMAIN h.plan[j] : j \in DOMAIN h.plan}
  <2>1. DOMAIN h.plan[i] \in D
    OBVIOUS
  <2> HIDE DEF D
  <2>2. DOMAIN h.plan[i] \subseteq UNION D
    BY <2>1
  <2> QED
    BY <2>2 DEF Planned, D
<1>6. \A x \in DOMAIN h.plan[i] : i \in Calls(h, x)
  BY DEF Calls
<1> QED
  BY <1>3, <1>4, <1>5, <1>6

(* A plan works on objects of the inventory.                                *)
LEMMA PlannedNames ==
  ASSUME NEW h \in HandlerType
  PROVE  Planned(h) \subseteq Names
BY ItemOfPlan DEF Planned

(* The command does not change.                                             *)
LEMMA SameCommand == Next => cmd' = cmd
BY DEF Next, Others, Edit, Solve, Preview, Apply, RefuseBusy, RefuseStale, Begin, Work, Step,
       Rename, Verified, NotVerified, NativeUndo, Undo, Judge, Kill

(* What a snapshot shows of an object.                                      *)
LEMMA SeenValue ==
  ASSUME NEW s \in Scope, NEW w
  PROVE  /\ DOMAIN Seen(s, w) = s.names \cup s.values
         /\ \A x \in s.values : Seen(s, w)[x] = w[x]
         /\ \A x \in s.names : Seen(s, w)[x] \in {w[x], "some"}
         /\ \A x \in s.names \cup s.values : Seen(s, w)[x] = "none" <=> w[x] = "none"
BY DEF Seen

(* A design seen within the inventory gives a view of the right type.       *)
LEMMA SeenType ==
  ASSUME NEW s \in Scope, NEW w \in [Names -> Values]
  PROVE  Seen(s, w) \in [s.names \cup s.values -> Read]
BY Scopes DEF Seen, Read

(* What the preview of a call says of objects whose value it has read.      *)
LEMMA ViewValue ==
  ASSUME TypeOK, ViewsTrue
  PROVE  /\ DOMAIN View = H.watch.names \cup H.watch.values
         /\ \A x \in H.watch.values : View[x] = using.shown[x] /\ View[x] \in Values
         /\ \A x \in DOMAIN View :
              View[x] \in {using.shown[x], "some"} /\ (View[x] = "none" <=> using.shown[x] = "none")
<1>1. H \in HandlerType /\ H.watch \in Scope
  BY Command, Fields DEF TypeOK
<1>2. using.shown \in [Names -> Values] /\ View = Seen(H.watch, using.shown)
  BY DEF TypeOK, ViewsTrue, View
<1>3. H.watch.values \subseteq Names
  BY <1>1, Scopes
<1>4. /\ DOMAIN View = H.watch.names \cup H.watch.values
      /\ \A x \in H.watch.values : View[x] = using.shown[x]
      /\ \A x \in H.watch.names : View[x] \in {using.shown[x], "some"}
      /\ \A x \in H.watch.names \cup H.watch.values : View[x] = "none" <=> using.shown[x] = "none"
  <2> DEFINE s == H.watch
             w == using.shown
  <2>1. s \in Scope /\ View = Seen(s, w)
    BY <1>1, <1>2
  <2> HIDE DEF s, w
  <2>2. /\ DOMAIN View = s.names \cup s.values
        /\ \A x \in s.values : View[x] = w[x]
        /\ \A x \in s.names : View[x] \in {w[x], "some"}
        /\ \A x \in s.names \cup s.values : View[x] = "none" <=> w[x] = "none"
    BY <2>1, SeenValue
  <2> QED
    BY <2>2 DEF s, w
<1>5. \A x \in H.watch.values : View[x] \in Values
  BY <1>2, <1>3, <1>4
<1> QED
  BY <1>4, <1>5

-----------------------------------------------------------------------------
(* Types *)

LEMMA InitTypes == Init => TypeOK
<1> SUFFICES ASSUME Init PROVE TypeOK
  OBVIOUS
<1>1. H \in HandlerType /\ H.plan \in Seq(Items) /\ H.plan # << >> /\ H.watch \in Scope
  BY Command, Fields DEF Init
<1>2. world \in [Names -> Values]
  BY DEF Init, Worlds, Values
<1>3. \A p \in previews \cup {using} :
        p.view \in [H.watch.names \cup H.watch.values -> Read] /\ p.shown \in [Names -> Values]
  <2>1. previews = {} /\ using = [view |-> Seen(H.watch, world), shown |-> world]
    BY DEF Init, H
  <2>2. Seen(H.watch, world) \in [H.watch.names \cup H.watch.values -> Read]
    BY <1>1, <1>2, SeenType
  <2> QED
    BY <1>2, <2>1, <2>2
<1>4. at \in DOMAIN H.plan
  BY <1>1 DEF Init
<1>5. used \in [Uses -> Nat] /\ \A k \in Uses : used[k] \in 0 .. Limit[k]
  BY LimitAssumption DEF Init
<1> QED
  BY <1>2, <1>3, <1>4, <1>5 DEF Init, TypeOK

(* A use of a bound stays within it.                                        *)
LEMMA UseTypes ==
  ASSUME TypeOK, NEW k \in Uses, Use(k)
  PROVE  used' \in [Uses -> Nat] /\ \A j \in Uses : used'[j] \in 0 .. Limit[j]
<1>1. used \in [Uses -> Nat] /\ (\A j \in Uses : used[j] \in 0 .. Limit[j]) /\ Limit[k] \in Nat
  BY LimitAssumption DEF TypeOK
<1>2. used[k] < Limit[k] /\ used' = [used EXCEPT ![k] = @ + 1]
  BY DEF Use
<1>3. used'[k] = used[k] + 1 /\ used' \in [Uses -> Nat]
  BY <1>1, <1>2
<1> QED
  BY <1>1, <1>2, <1>3

LEMMA ChangeTypes ==
  ASSUME TypeOK, NEW w \in [Names -> Values], Change(w)
  PROVE  world' \in [Names -> Values] /\ earlier' \in [Names -> Values]
BY DEF TypeOK, Change

(* A change by others, a call that is refused and a killed worker keep the  *)
(* types.                                                                   *)
LEMMA EditTypes == ASSUME TypeOK, NEW x \in Names, Edit(x) PROVE TypeOK'
<1>1. PICK v \in {"none", "theirs"} : Change([world EXCEPT ![x] = v])
  BY DEF Edit
<1>2. world' \in [Names -> Values] /\ earlier' \in [Names -> Values]
  BY <1>1, ChangeTypes DEF Values, TypeOK
<1>3. used' \in [Uses -> Nat] /\ \A j \in Uses : used'[j] \in 0 .. Limit[j]
  BY UseTypes DEF Edit, Uses
<1> QED
  BY <1>2, <1>3 DEF Edit, callVars, H, TypeOK

LEMMA RefusedTypes ==
  ASSUME TypeOK, NEW p \in previews, RefuseBusy(p) \/ RefuseStale(p)
  PROVE  TypeOK'
<1>1. used' \in [Uses -> Nat] /\ \A j \in Uses : used'[j] \in 0 .. Limit[j]
  BY UseTypes DEF RefuseBusy, RefuseStale, Uses
<1>2. previews' \subseteq previews
  BY DEF RefuseBusy, RefuseStale
<1>3. answer' \in {"refused", "stale"}
  BY DEF RefuseBusy, RefuseStale
<1> QED
  BY <1>1, <1>2, <1>3 DEF RefuseBusy, RefuseStale, callVars, H, TypeOK

LEMMA KillTypes == ASSUME TypeOK, Kill PROVE TypeOK'
<1>1. used' \in [Uses -> Nat] /\ \A j \in Uses : used'[j] \in 0 .. Limit[j]
  BY UseTypes DEF Kill, Uses
<1> QED
  BY <1>1 DEF Kill, callVars, H, TypeOK

(* A preview, and the start of a call, keep the types.                      *)
LEMMA StartTypes ==
  ASSUME TypeOK, Preview \/ \E p \in previews : Begin(p)
  PROVE  TypeOK'
<1> USE DEF TypeOK
<1>1. H \in HandlerType /\ H.plan \in Seq(Items) /\ H.plan # << >> /\ H.watch \in Scope
  BY Command, Fields
<1>2. CASE Preview
  <2>1. Seen(H.watch, world) \in [H.watch.names \cup H.watch.values -> Read]
    BY <1>1, SeenType
  <2>2. \A p \in previews' :
          p.view \in [H.watch.names \cup H.watch.values -> Read] /\ p.shown \in [Names -> Values]
    BY <1>2, <2>1 DEF Preview
  <2> QED
    BY <1>2, <2>2 DEF Preview, callVars, H
<1>3. ASSUME NEW p \in previews, Begin(p) PROVE TypeOK'
  <2>1. used' \in [Uses -> Nat] /\ \A j \in Uses : used'[j] \in 0 .. Limit[j]
    BY <1>3, UseTypes DEF Begin, Uses
  <2>2. 1 \in DOMAIN H.plan /\ H' = H
    BY <1>1, <1>3 DEF Begin, H
  <2> QED
    BY <1>3, <2>1, <2>2 DEF Begin
<1> QED
  BY <1>2, <1>3

(* What a rollback goes over is in the inventory.                           *)
LEMMA TodoNames ==
  ASSUME TypeOK, NEW w, NEW rec \in SUBSET Names, NEW mk \in SUBSET Names
  PROVE  Todo(w, rec, mk) \subseteq Names
<1>1. H \in HandlerType /\ H.always \in SUBSET Names /\ H.fresh \in SUBSET Names
  BY Command, Fields DEF TypeOK
<1>2. Adds(H) \subseteq Names
  BY <1>1, PlannedNames DEF Adds
<1> QED
  BY <1>1, <1>2 DEF Todo

LEMMA FailTypes ==
  ASSUME TypeOK, NEW w, NEW rec \in SUBSET Names, NEW mk \in SUBSET Names, Fail(w, rec, mk)
  PROVE  pc' \in {"native", "undo"} /\ todo' \in SUBSET Names /\ errors' \in BOOLEAN
<1>1. H \in HandlerType /\ H.proves \in BOOLEAN
  BY Command, Fields DEF TypeOK
<1> QED
  <2>1. errors' = Doubtful(w, rec, mk)
    BY DEF Fail
  <2>2. Doubtful(w, rec, mk) \in BOOLEAN
    BY <1>1 DEF Doubtful
  <2>3. \/ pc' = "native" /\ todo' = {}
        \/ pc' = "undo" /\ (todo' = {} \/ todo' = Todo(w, rec, mk))
    BY DEF Fail, Rollback
  <2> QED
    BY <2>1, <2>2, <2>3, TodoNames

LEMMA ProceedTypes ==
  ASSUME TypeOK, Proceed
  PROVE  pc' \in {"step", "verify"} /\ at' \in DOMAIN H.plan /\ todo' = todo /\ errors' = errors
<1>1. H.plan \in Seq(Items)
  BY Command, Fields DEF TypeOK
<1> QED
  BY <1>1 DEF Proceed, TypeOK

(* A call of the plan keeps the types.                                      *)
LEMMA StepTypes == ASSUME TypeOK, ViewsTrue, Step PROVE TypeOK'
<1>1. H \in HandlerType /\ H' = H /\ cmd' = cmd
  BY Command DEF TypeOK, Step, H
<1>2. at \in DOMAIN H.plan /\ DOMAIN Item \subseteq Names /\ Item \in [DOMAIN Item -> Effects]
  BY <1>1, ItemOfPlan DEF TypeOK, Item
<1>3. PICK acted, odd, fault, report, w :
        /\ acted \in SUBSET DOMAIN Item /\ odd \in BOOLEAN
        /\ w = [x \in Names |->
                   IF x \notin acted THEN world[x]
                   ELSE IF odd THEN "odd"
                   ELSE Result(Item[x], world[x],
                               IF x \in DOMAIN View THEN View[x] ELSE world[x])]
        /\ IF fault THEN Use("fault") ELSE used' = used
        /\ Change(w)
        /\ ours' = ours \cup acted
        /\ recorded' = Record(w, report)
        /\ made' = made
        /\ IF report = "ok" /\ Looked(w)
           THEN Proceed
           ELSE at' = at /\ Fail(w, recorded', made)
  BY DEF Step
<1>4. \A x \in DOMAIN Item :
        Item[x] = "back" => x \in H.watch.values
  BY <1>1, <1>2, Command DEF TypeOK, Item
<1>5. \A x \in Names : w[x] \in Values
  <2> SUFFICES ASSUME NEW x \in Names PROVE w[x] \in Values
    OBVIOUS
  <2>1. world[x] \in Values /\ "odd" \in Values
    BY DEF TypeOK, Values
  <2>2. CASE x \in acted /\ Item[x] = "back"
    <3>1. x \in DOMAIN View /\ View[x] \in Values
      BY <2>2, <1>3, <1>4, ViewValue
    <3> QED
      BY <3>1, <2>1, <2>2, <1>3 DEF Result
  <2>3. CASE x \in acted /\ Item[x] # "back"
    BY <2>3, <2>1, <1>3 DEF Result, Moved, Values
  <2> QED
    BY <1>3, <2>1, <2>2, <2>3
<1>6. world' \in [Names -> Values] /\ earlier' \in [Names -> Values]
  BY <1>3, <1>5, ChangeTypes
<1>7. used' \in [Uses -> Nat] /\ \A j \in Uses : used'[j] \in 0 .. Limit[j]
  BY <1>3, UseTypes DEF Uses, TypeOK
<1>8. recorded' \in SUBSET Names /\ made' \in SUBSET Names /\ ours' \in SUBSET Names
  BY <1>2, <1>3 DEF Record, TypeOK
<1>9. /\ pc' \in {"step", "verify", "native", "undo"} /\ at' \in DOMAIN H.plan
      /\ todo' \in SUBSET Names /\ errors' \in BOOLEAN
  BY <1>2, <1>3, <1>8, FailTypes, ProceedTypes DEF TypeOK
<1> QED
  BY <1>1, <1>6, <1>7, <1>8, <1>9 DEF TypeOK, Step

(* So does a call that AEDT answers with another name.                      *)
LEMMA RenameTypes == ASSUME TypeOK, Rename PROVE TypeOK'
<1>1. H \in HandlerType /\ H' = H
  BY Command DEF TypeOK, Rename, H
<1>2. at \in DOMAIN H.plan /\ DOMAIN Item \subseteq Names
  BY <1>1, ItemOfPlan DEF TypeOK, Item
<1>3. PICK x \in Names, y \in Names \ Planned(H) :
        /\ IF world[x] = "none" THEN Use("fault") ELSE used' = used
        /\ Change([world EXCEPT ![y] = "odd"])
        /\ ours' = ours \cup {y}
        /\ made' = {y}
        /\ recorded' = CASE H.record = "returned" -> recorded \cup {y}
                         [] H.record \in {"seen", "gone"} -> Record(world', "ok")
                         [] OTHER -> recorded
        /\ IF ~H.named /\ Looked(world')
           THEN Proceed
           ELSE at' = at /\ Fail(world', recorded', {y})
  BY DEF Rename
<1>4. world' \in [Names -> Values] /\ earlier' \in [Names -> Values]
  BY <1>3, ChangeTypes DEF Values, TypeOK
<1>5. used' \in [Uses -> Nat] /\ \A j \in Uses : used'[j] \in 0 .. Limit[j]
  BY <1>3, UseTypes DEF Uses, TypeOK
<1>6. recorded' \in SUBSET Names /\ made' \in SUBSET Names /\ ours' \in SUBSET Names
  BY <1>2, <1>3 DEF Record, TypeOK
<1>7. /\ pc' \in {"step", "verify", "native", "undo"} /\ at' \in DOMAIN H.plan
      /\ todo' \in SUBSET Names /\ errors' \in BOOLEAN
  BY <1>2, <1>3, <1>6, FailTypes, ProceedTypes DEF TypeOK
<1> QED
  BY <1>1, <1>4, <1>5, <1>6, <1>7 DEF TypeOK, Rename

(* What an undo puts back is the value the preview has read.                *)
LEMMA RestoredValue ==
  ASSUME TypeOK, ViewsTrue, Working, UndoesKnown, pc = "undo", NEW x \in todo
  PROVE  /\ Restored(x) \in Values
         /\ begun[x] = "none" => Restored(x) = "none"
         /\ Restored(x) = "twice" => using.shown[x] = "twice"
<1>1. H \in HandlerType /\ x \in Names /\ H.watch \in Scope
  BY Command, Fields DEF TypeOK
<1>2. CASE Created(x)
  BY <1>2 DEF Restored, Values
<1>3. CASE ~Created(x) /\ First(H, x) = "move"
  BY <1>3 DEF Restored, Unmoved, Values, Created
<1>4. CASE ~Created(x) /\ First(H, x) # "move"
  <2>1. x \in Planned(H) /\ begun[x] # "none" /\ Restored(x) = View[x]
    BY <1>4 DEF Created, Restored
  <2>2. ~(x \in H.watch.names /\ x \in Adds(H))
    <3> SUFFICES ASSUME x \in H.watch.names, x \in Adds(H) PROVE FALSE
      OBVIOUS
    <3>1. using.shown[x] = "none"
      BY DEF ViewsTrue, Adds, Possible
    <3>2. View[x] = "none"
      BY <3>1, ViewValue
    <3>3. Seen(H.watch, begun)[x] = "none"
      BY <3>2 DEF Working
    <3>4. begun[x] = "none"
      BY <3>3, <1>1, ZenonT(60), SeenValue
    <3> QED
      BY <3>4, <2>1
  <2>3. x \in H.watch.values
    BY <2>1, <2>2, Command DEF UndoesKnown, TypeOK
  <2> QED
    BY <2>1, <2>3, ViewValue
<1> QED
  BY <1>2, <1>3, <1>4

(* The readback, the rollback and the answer keep the types.                *)
LEMMA EndTypes ==
  ASSUME TypeOK, ViewsTrue, Working, UndoesKnown,
         Verified \/ NotVerified \/ NativeUndo \/ (\E x \in Names : Undo(x)) \/ Judge
  PROVE  TypeOK'
<1>1. H' = H
  BY DEF H, Verified, NotVerified, NativeUndo, Undo, Judge
<1>2. CASE Verified
  <2>1. previews' \subseteq previews
    BY <1>2 DEF Verified, Drop
  <2> QED
    BY <1>1, <1>2, <2>1 DEF Verified, callVars, TypeOK
<1>3. CASE NotVerified
  <2>1. used' \in [Uses -> Nat] /\ \A j \in Uses : used'[j] \in 0 .. Limit[j]
    BY <1>3, UseTypes DEF NotVerified, Uses, TypeOK
  <2>2. pc' \in {"native", "undo"} /\ todo' \in SUBSET Names /\ errors' \in BOOLEAN
    BY <1>3, FailTypes DEF NotVerified, TypeOK
  <2> QED
    BY <1>1, <1>3, <2>1, <2>2 DEF NotVerified, TypeOK
<1>4. CASE NativeUndo
  <2>1. used' \in [Uses -> Nat] /\ \A j \in Uses : used'[j] \in 0 .. Limit[j]
    BY <1>4, UseTypes DEF NativeUndo, Uses, TypeOK
  <2>2. pc' = "undo" /\ (todo' = {} \/ todo' = Todo(world', recorded, made))
    BY <1>4 DEF NativeUndo, Rollback
  <2>3. todo' \subseteq Names
    <3>1. recorded \in SUBSET Names /\ made \in SUBSET Names
      BY DEF TypeOK
    <3>2. Todo(world', recorded, made) \subseteq Names
      BY <3>1, TodoNames
    <3> QED
      BY <2>2, <3>2
  <2>4. world' \in [Names -> Values] /\ errors' \in BOOLEAN
    BY <1>4 DEF NativeUndo, TypeOK
  <2> QED
    BY <1>1, <1>4, <2>1, <2>2, <2>3, <2>4 DEF NativeUndo, TypeOK
<1>5. ASSUME NEW x \in Names, Undo(x) PROVE TypeOK'
  <2>1. Restored(x) \in Values /\ x \in todo
    BY <1>5, RestoredValue DEF Undo
  <2>2. world' \in [Names -> Values] /\ earlier' \in [Names -> Values]
    <3>1. CASE Change([world EXCEPT ![x] = Restored(x)])
      BY <3>1, <2>1, ChangeTypes DEF TypeOK
    <3>2. CASE UNCHANGED <<world, earlier>>
      BY <3>2 DEF TypeOK
    <3> QED
      BY <1>5, <3>1, <3>2 DEF Undo
  <2>3. used' \in [Uses -> Nat] /\ \A j \in Uses : used'[j] \in 0 .. Limit[j]
    BY <1>5, UseTypes DEF Undo, Uses, TypeOK
  <2>4. errors' \in BOOLEAN /\ todo' \subseteq Names
    BY <1>5 DEF Undo, TypeOK
  <2> QED
    BY <1>1, <1>5, <2>2, <2>3, <2>4 DEF Undo, TypeOK
<1>6. CASE Judge
  <2>1. previews' \subseteq previews
    BY <1>6 DEF Judge, Drop
  <2>2. answer' \in {"failed", "incomplete"}
    BY <1>6 DEF Judge
  <2> QED
    BY <1>1, <1>6, <2>1, <2>2 DEF Judge, callVars, TypeOK
<1> QED
  BY <1>2, <1>3, <1>4, <1>5, <1>6

(* Every step keeps the types.                                              *)
LEMMA NextTypes ==
  ASSUME TypeOK, ViewsTrue, Working, UndoesKnown, Next
  PROVE  TypeOK'
<1>1. CASE Others
  <2>1. CASE Solve
    <3>1. used' \in [Uses -> Nat] /\ \A j \in Uses : used'[j] \in 0 .. Limit[j]
      BY <2>1, UseTypes DEF Solve, Uses
    <3> QED
      BY <2>1, <3>1 DEF Solve, callVars, H, TypeOK
  <2>2. ASSUME NEW x \in Names, Edit(x) PROVE TypeOK'
    BY <2>2, EditTypes
  <2> QED
    BY <1>1, <2>1, <2>2 DEF Others
<1>2. CASE Preview
  BY <1>2, StartTypes
<1>3. CASE Apply
  <2> PICK p \in previews : RefuseBusy(p) \/ RefuseStale(p) \/ Begin(p)
    BY <1>3 DEF Apply
  <2> QED
    BY StartTypes, RefusedTypes
<1>4. CASE Work
  BY <1>4, StepTypes, RenameTypes, EndTypes DEF Work
<1>5. CASE Kill
  BY <1>5, KillTypes
<1> QED
  BY <1>1, <1>2, <1>3, <1>4, <1>5 DEF Next

-----------------------------------------------------------------------------
(* What a step does *)

(* Nothing but a preview adds to the previews, nothing but the start of a   *)
(* call chooses one.                                                        *)
LEMMA PreviewStep ==
  ASSUME Next
  PROVE  /\ using' = using \/ \E p \in previews : Begin(p) /\ using' = p
         /\ \A p \in previews' :
              \/ p \in previews
              \/ /\ p = [view |-> Seen(H.watch, world), shown |-> world]
                 /\ \A x \in Planned(H) : Possible(First(H, x), world[x])
<1>1. CASE Others
  BY <1>1 DEF Others, Edit, Solve, callVars
<1>2. CASE Preview
  BY <1>2 DEF Preview, callVars
<1>3. CASE Apply
  BY <1>3 DEF Apply, RefuseBusy, RefuseStale, Begin, callVars
<1>4. CASE Work
  <2>1. using' = using
    BY <1>4 DEF Work, Step, Rename, Verified, NotVerified, NativeUndo, Undo, Judge, callVars
  <2>2. previews' \subseteq previews
    BY <1>4 DEF Work, Step, Rename, Verified, NotVerified, NativeUndo, Undo, Judge, Drop
  <2> QED
    BY <2>1, <2>2
<1>5. CASE Kill
  BY <1>5 DEF Kill, callVars
<1> QED
  BY <1>1, <1>2, <1>3, <1>4, <1>5 DEF Next

(* What one step makes of one object.                                       *)
LEMMA WorldStep ==
  ASSUME TypeOK, Next, NEW x \in Names
  PROVE  /\ \/ world'[x] = world[x]
            \/ world'[x] \in {"none", "theirs"} /\ Edit(x)
            \/ world'[x] \in {"none", "odd", "new"} /\ pc = "step" /\ x \in ours'
            \/ /\ pc = "step" /\ x \in DOMAIN Item /\ x \in ours'
               /\ \/ Item[x] = "move" /\ world'[x] = Moved(world[x])
                  \/ Item[x] = "back" /\ x \in H.watch.values /\ world'[x] = View[x]
            \/ pc = "native" /\ world' = earlier
            \/ pc = "undo" /\ x \in todo /\ world'[x] = Restored(x) /\ Undo(x)
         /\ earlier'[x] \in {earlier[x], world[x]}
<1> USE DEF Change
<1>1. CASE Others
  <2>1. CASE Solve
    BY <2>1 DEF Solve
  <2>2. ASSUME NEW y \in Names, Edit(y)
        PROVE /\ world'[x] = world[x] \/ (world'[x] \in {"none", "theirs"} /\ x = y)
              /\ earlier'[x] \in {earlier[x], world[x]}
    BY <2>2 DEF Edit, TypeOK
  <2> QED
    BY <1>1, <2>1, <2>2 DEF Others
<1>2. CASE Preview \/ Apply \/ Kill \/ Verified \/ NotVerified \/ Judge
  BY <1>2 DEF Preview, Apply, RefuseBusy, RefuseStale, Begin, Kill, Verified, NotVerified, Judge
<1>3. CASE Step
  <2>1. H \in HandlerType /\ at \in DOMAIN H.plan
    BY Command DEF TypeOK
  <2>2. PICK acted, odd, w :
          /\ acted \in SUBSET DOMAIN Item /\ odd \in BOOLEAN
          /\ w = [y \in Names |->
                     IF y \notin acted THEN world[y]
                     ELSE IF odd THEN "odd"
                     ELSE Result(Item[y], world[y],
                                 IF y \in DOMAIN View THEN View[y] ELSE world[y])]
          /\ Change(w)
          /\ ours' = ours \cup acted
    BY <1>3 DEF Step
  <2>3. /\ world'[x] = w[x] /\ pc = "step"
        /\ earlier'[x] \in {earlier[x], world[x]}
    BY <1>3, <2>2 DEF Step
  <2>4. x \in DOMAIN Item /\ Item[x] = "back" => x \in H.watch.values
    BY <2>1, Command DEF TypeOK, Item
  <2>5. CASE x \in acted /\ ~odd /\ Item[x] = "back"
    <3>1. x \in H.watch.values
      BY <2>2, <2>4, <2>5
    <3>2. \A y \in H.watch.values : y \in DOMAIN View
      BY <2>1, Fields DEF TypeOK, View
    <3>3. w[x] = View[x]
      BY <2>2, <2>5, <3>1, <3>2 DEF Result
    <3> QED
      BY <2>2, <2>3, <2>5, <3>1, <3>3
  <2>6. CASE x \in acted /\ ~odd /\ Item[x] = "move"
    BY <2>2, <2>3, <2>6 DEF Result
  <2>7. CASE x \in acted /\ ~odd /\ Item[x] \notin {"back", "move"}
    BY <2>2, <2>3, <2>7 DEF Result
  <2>8. CASE x \notin acted \/ odd
    BY <2>2, <2>3, <2>8
  <2> QED
    BY <2>5, <2>6, <2>7, <2>8
<1>4. CASE Rename
  <2>1. PICK y \in Names : Change([world EXCEPT ![y] = "odd"]) /\ ours' = ours \cup {y}
    BY <1>4 DEF Rename
  <2> QED
    BY <1>4, <2>1 DEF Rename, TypeOK
<1>5. CASE NativeUndo
  BY <1>5 DEF NativeUndo
<1>6. ASSUME NEW y \in Names, Undo(y)
      PROVE  /\ world'[x] = world[x] \/ (world'[x] = Restored(x) /\ x = y)
             /\ earlier'[x] \in {earlier[x], world[x]}
             /\ pc = "undo" /\ y \in todo
  BY <1>6 DEF Undo, TypeOK
<1> QED
  BY <1>1, <1>2, <1>3, <1>4, <1>5, <1>6 DEF Next, Work

(* A call begins, or it goes on with the preview and the answer it has, or  *)
(* nothing works afterwards.                                                *)
LEMMA CallStep ==
  ASSUME TypeOK, Next, pc' # "idle"
  PROVE  \/ \E p \in previews : Begin(p)
         \/ pc # "idle" /\ using' = using /\ begun' = begun /\ answer' = answer
<1>1. CASE Others
  BY <1>1 DEF Others, Edit, Solve, callVars
<1>2. CASE Preview \/ Kill
  BY <1>2 DEF Preview, Kill
<1>3. CASE Apply
  BY <1>3 DEF Apply, RefuseBusy, RefuseStale
<1>4. CASE Work
  BY <1>4 DEF Work, Step, Rename, Verified, NotVerified, NativeUndo, Undo, Judge
<1> QED
  BY <1>1, <1>2, <1>3, <1>4 DEF Next

(* Only a call of the plan goes on to the next item.                        *)
LEMMA ItemStep ==
  ASSUME TypeOK, Next, pc' = "step"
  PROVE  \/ \E p \in previews : Begin(p)
         \/ pc = "step" /\ at' = at /\ (Others \/ Preview)
         \/ (Step \/ Rename) /\ at' = at + 1
<1>1. CASE Others
  BY <1>1 DEF Others, Edit, Solve, callVars
<1>2. CASE Preview \/ Kill
  BY <1>2 DEF Preview, Kill, callVars
<1>3. CASE Apply
  BY <1>3 DEF Apply, RefuseBusy, RefuseStale
<1>4. CASE Step \/ Rename
  BY <1>4 DEF Step, Rename, Fail, Rollback, Proceed
<1>5. CASE Work /\ ~Step /\ ~Rename
  BY <1>5 DEF Work, Verified, NotVerified, NativeUndo, Undo, Judge, Fail, Rollback
<1> QED
  BY <1>1, <1>2, <1>3, <1>4, <1>5 DEF Next

-----------------------------------------------------------------------------
(* The parts of the invariant *)

LEMMA ViewsTrueStep ==
  ASSUME TypeOK, ViewsTrue, Next
  PROVE  ViewsTrue'
<1>1. H' = H
  BY SameCommand DEF H
<1>2. \A p \in previews' \cup {using'} :
        /\ p.view = Seen(H.watch, p.shown)
        /\ \A x \in Planned(H) : Possible(First(H, x), p.shown[x])
  BY PreviewStep DEF ViewsTrue
<1> QED
  BY <1>1, <1>2 DEF ViewsTrue

LEMMA WorkingStep ==
  ASSUME TypeOK, Working, Next
  PROVE  Working'
<1> SUFFICES ASSUME pc' # "idle" PROVE Seen(H.watch, begun') = using'.view /\ answer' = "none"
  BY SameCommand DEF Working, View, H
<1>1. CASE \E p \in previews : Begin(p)
  BY <1>1 DEF Begin, Fresh
<1>2. CASE pc # "idle" /\ using' = using /\ begun' = begun /\ answer' = answer
  BY <1>2 DEF Working, View
<1> QED
  BY <1>1, <1>2, CallStep

(* An object the command moves is in one item of the plan, and is watched.  *)
LEMMA MovedItem ==
  ASSUME TypeOK, NEW x \in DOMAIN Item, Item[x] = "move"
  PROVE  x \in Moves(H) /\ (\A i \in Calls(H, x) : i = at) /\ ~H.native
<1>1. H \in HandlerType /\ at \in DOMAIN H.plan /\ cmd \in Commands
  BY Command DEF TypeOK
<1>2. x \in Planned(H) /\ at \in Calls(H, x) /\ H.plan[at][x] = "move"
  BY <1>1, ItemOfPlan DEF Item
<1>3. x \in Moves(H)
  BY <1>2 DEF Moves
<1> QED
  BY <1>1, <1>2, <1>3, Command

LEMMA MovedOnlyStep ==
  ASSUME TypeOK, ViewsTrue, Working, UndoesKnown, MovedOnly, Next
  PROVE  MovedOnly'
<1> SUFFICES ASSUME NEW x \in Names, x \notin Moves(H)
             PROVE  /\ world'[x] # "twice" /\ earlier'[x] # "twice"
                    /\ \A p \in previews' \cup {using'} : p.shown[x] # "twice"
  BY SameCommand DEF MovedOnly, H
<1>1. /\ world[x] # "twice" /\ earlier[x] # "twice"
      /\ \A p \in previews \cup {using} : p.shown[x] # "twice"
  BY DEF MovedOnly
<1>2. \A p \in previews' \cup {using'} : p.shown[x] # "twice"
  BY <1>1, PreviewStep
<1>3. earlier'[x] # "twice"
  BY <1>1, WorldStep
<1>4. world'[x] # "twice"
  <2>1. ASSUME x \in DOMAIN Item, Item[x] = "move" PROVE FALSE
    BY <2>1, MovedItem
  <2>2. ASSUME x \in H.watch.values PROVE View[x] # "twice"
    BY <1>1, <2>2, ViewValue
  <2>3. ASSUME pc = "undo", x \in todo PROVE Restored(x) # "twice"
    BY <1>1, <2>3, RestoredValue
  <2> QED
    BY <1>1, <2>1, <2>2, <2>3, WorldStep
<1> QED
  BY <1>2, <1>3, <1>4

LEMMA MovedOnceStep ==
  ASSUME TypeOK, ViewsTrue, Working, UndoesKnown, UndoesOwn, MovedOnly, MovedOnce, Next
  PROVE  MovedOnce'
<1> SUFFICES ASSUME pc' # "idle", NEW x \in Names
             PROVE  /\ world'[x] = "twice" => using'.shown[x] \in {"new", "twice"}
                    /\ /\ pc' = "step" /\ x \in Moves(H)
                       /\ \A i \in Calls(H, x) : at' <= i
                       /\ world'[x] = "new"
                       => using'.shown[x] = "new"
  BY SameCommand DEF MovedOnce, H
<1>a. H \in HandlerType /\ H.watch \in Scope /\ cmd \in Commands
  BY Command, Fields DEF TypeOK
<1>b. /\ H.plan \in Seq(Items) /\ at \in Nat
      /\ \A i \in Calls(H, x) : i \in Nat
  BY <1>a, Fields DEF TypeOK, Calls
<1>c. x \in Moves(H) => x \in H.watch.values /\ ~H.native /\ \A i, j \in Calls(H, x) : i = j
  BY <1>a, Command
<1>1. ASSUME NEW p \in previews, Begin(p)
      PROVE  x \in Moves(H) => world'[x] = using'.shown[x]
  <2> SUFFICES ASSUME x \in Moves(H) PROVE world'[x] = using'.shown[x]
    OBVIOUS
  <2>1. Seen(H.watch, world)[x] = Seen(H.watch, p.shown)[x]
    BY <1>1 DEF Begin, Fresh, ViewsTrue
  <2>2. ASSUME NEW v PROVE Seen(H.watch, v)[x] = v[x]
    <3>1. \A y \in H.watch.values : Seen(H.watch, v)[y] = v[y]
      BY <1>a, SeenValue
    <3> QED
      BY <1>c, <3>1
  <2>3. world[x] = p.shown[x]
    BY <2>1, <2>2
  <2> QED
    BY <1>1, <2>3 DEF Begin
<1>2. CASE \E p \in previews : Begin(p)
  <2>1. x \notin Moves(H) => world'[x] # "twice"
    BY MovedOnlyStep, SameCommand DEF MovedOnly, H
  <2> QED
    BY <1>1, <1>2, <2>1
<1>3. CASE pc # "idle" /\ using' = using /\ begun' = begun
  <2>1. ASSUME world'[x] = "twice" PROVE using.shown[x] \in {"new", "twice"}
    <3>1. x \in Moves(H)
      BY <2>1, MovedOnlyStep, SameCommand DEF MovedOnly, H
    <3>2. ASSUME pc = "step", x \in DOMAIN Item, Item[x] = "move", Moved(world[x]) = "twice"
          PROVE  using.shown[x] = "new"
      <4>1. world[x] = "new"
        BY <3>2 DEF Moved
      <4>2. \A i \in Calls(H, x) : at <= i
        BY <3>2, <1>b, MovedItem
      <4> QED
        BY <1>3, <3>1, <3>2, <4>1, <4>2 DEF MovedOnce
    <3>3. View[x] = using.shown[x]
      BY <1>c, <3>1, ViewValue
    <3>4. ASSUME pc = "undo", x \in todo, Restored(x) = "twice" PROVE using.shown[x] = "twice"
      BY <3>4, RestoredValue
    <3>5. pc # "native"
      BY <1>c, <3>1 DEF UndoesOwn
    <3>6. world[x] = "twice" => using.shown[x] \in {"new", "twice"}
      BY <1>3 DEF MovedOnce
    <3>7. \/ world'[x] = world[x]
          \/ /\ pc = "step" /\ x \in DOMAIN Item
             /\ \/ Item[x] = "move" /\ world'[x] = Moved(world[x])
                \/ world'[x] = View[x]
          \/ pc = "undo" /\ x \in todo /\ world'[x] = Restored(x)
      BY <2>1, <3>5, WorldStep
    <3> QED
      BY <2>1, <3>2, <3>3, <3>4, <3>6, <3>7
  <2>2. ASSUME pc' = "step", x \in Moves(H), \A i \in Calls(H, x) : at' <= i, world'[x] = "new"
        PROVE  using.shown[x] = "new"
    <3>1. PICK i \in Calls(H, x) : H.plan[i][x] = "move"
      BY <2>2 DEF Moves
    <3>2. CASE pc = "step" /\ at' = at /\ (Others \/ Preview)
      <4>1. world'[x] = world[x]
        BY <3>2, <2>2 DEF Others, Edit, Solve, Preview, Change, TypeOK
      <4> QED
        BY <1>3, <2>2, <3>2, <4>1 DEF MovedOnce
    <3>3. CASE (Step \/ Rename) /\ at' = at + 1
      <4>1. at \notin Calls(H, x) /\ pc = "step"
        BY <2>2, <3>3, <1>b DEF Step, Rename
      <4>2. x \notin DOMAIN Item
        BY <4>1, <1>a, ItemOfPlan DEF TypeOK, Item
      <4>3. \A j \in Calls(H, x) : at <= j
        BY <2>2, <3>3, <1>b
      <4>4. x \in Planned(H)
        BY <2>2 DEF Moves
      <4>5. world'[x] = world[x]
        <5>1. CASE Step
          BY <5>1, <4>2 DEF Step, Change, TypeOK
        <5>2. CASE Rename
          BY <5>2, <4>4 DEF Rename, Change, TypeOK
        <5> QED
          BY <3>3, <5>1, <5>2
      <4> QED
        BY <1>3, <2>2, <4>1, <4>3, <4>5 DEF MovedOnce
    <3>4. CASE \E p \in previews : Begin(p)
      BY <1>3, <3>4 DEF Begin
    <3> QED
      BY <2>2, <3>2, <3>3, <3>4, ItemStep
  <2> QED
    BY <1>3, <2>1, <2>2
<1> QED
  BY <1>2, <1>3, CallStep

(* Nothing a call has changed is forgotten before the next one begins.      *)
LEMMA OursStep ==
  ASSUME TypeOK, Next
  PROVE  ours \subseteq ours' \/ \E p \in previews : Begin(p)
<1>1. CASE Others
  BY <1>1 DEF Others, Edit, Solve, callVars
<1>2. CASE Preview \/ Kill
  BY <1>2 DEF Preview, Kill, callVars
<1>3. CASE Apply
  BY <1>3 DEF Apply, RefuseBusy, RefuseStale, callVars
<1>4. CASE Step \/ Rename
  BY <1>4 DEF Step, Rename
<1>5. CASE Work /\ ~Step /\ ~Rename
  BY <1>5 DEF Work, Verified, NotVerified, NativeUndo, Undo, Judge, callVars
<1> QED
  BY <1>1, <1>2, <1>3, <1>4, <1>5 DEF Next

LEMMA MadeByCallStep ==
  ASSUME TypeOK, ViewsTrue, Working, UndoesKnown, UndoesOwn, MadeByCall, Next
  PROVE  MadeByCall'
<1> SUFFICES ASSUME pc' # "idle", ~H.native, NEW x \in Names,
                    begun'[x] = "none", world'[x] = "new"
             PROVE  x \in ours'
  BY SameCommand DEF MadeByCall, H
<1>1. CASE \E p \in previews : Begin(p)
  BY <1>1 DEF Begin
<1>2. CASE pc # "idle" /\ begun' = begun /\ ours \subseteq ours'
  <2>1. world[x] = "new" => x \in ours
    BY <1>2 DEF MadeByCall
  <2>2. pc # "native"
    BY DEF UndoesOwn
  <2>3. pc = "undo" /\ x \in todo => Restored(x) = "none"
    BY <1>2, RestoredValue
  <2> QED
    BY <1>2, <2>1, <2>2, <2>3, WorldStep
<1> QED
  BY <1>1, <1>2, CallStep, OursStep

(* What a rollback sets out to undo.                                        *)
LEMMA RollbackTodo ==
  ASSUME TypeOK, NEW w, NEW rec, NEW mk, Rollback(w, rec, mk)
  PROVE  /\ \A x \in todo' : x \in rec \cup H.always \/ begun[x] = "none"
         /\ H.proves => \A x \in todo' : w[x] = "new"
         /\ Careful(H) /\ ~H.proves => todo' \subseteq rec
<1>1. todo' = {} \/ (todo' = Todo(w, rec, mk) /\ ~Doubtful(w, rec, mk))
  BY DEF Rollback
<1>2. \A x \in Todo(w, rec, mk) : x \in rec \cup H.always \/ begun[x] = "none"
  BY DEF Todo
<1>3. H.proves /\ ~Doubtful(w, rec, mk) => \A x \in Todo(w, rec, mk) : w[x] = "new"
  BY DEF Doubtful
<1>4. Careful(H) /\ ~H.proves => Todo(w, rec, mk) \subseteq rec
  BY DEF Careful, Todo
<1> QED
  BY <1>1, <1>2, <1>3, <1>4

(* A rollback begins, or goes on with less to undo.                         *)
LEMMA UndoStep ==
  ASSUME TypeOK, UndoesOwn, Next, pc' = "undo"
  PROVE  /\ begun' = begun
         /\ \/ pc = "undo" /\ todo' \subseteq todo /\ recorded' = recorded /\ ours' = ours
            \/ /\ \A x \in todo' : x \in recorded' \cup H.always \/ begun[x] = "none"
               /\ H.proves => \A x \in todo' : world'[x] = "new"
               /\ Careful(H) /\ ~H.proves => todo' \subseteq recorded'
<1>1. CASE Others
  BY <1>1 DEF Others, Edit, Solve, callVars
<1>2. CASE Preview \/ Kill
  BY <1>2 DEF Preview, Kill, callVars
<1>3. CASE Apply
  BY <1>3 DEF Apply, RefuseBusy, RefuseStale, Begin, callVars
<1>4. CASE Step
  <2>1. PICK w : /\ world' = w /\ begun' = begun
                 /\ Fail(w, recorded', made) \/ Proceed
    BY <1>4 DEF Step, Change
  <2>2. PICK rec : rec = recorded'
    OBVIOUS
  <2>3. Rollback(w, rec, made)
    BY <2>1, <2>2 DEF Fail, Proceed
  <2> QED
    BY <2>1, <2>2, <2>3, RollbackTodo
<1>5. CASE Rename
  <2>1. PICK w, rec, y : /\ world' = w /\ begun' = begun /\ rec = recorded'
                         /\ Fail(w, rec, {y}) \/ Proceed
    BY <1>5 DEF Rename
  <2>2. Rollback(w, rec, {y})
    BY <2>1 DEF Fail, Proceed
  <2> QED
    BY <2>1, <2>2, RollbackTodo
<1>6. CASE NotVerified
  <2>1. Rollback(world, recorded, made)
    BY <1>6 DEF NotVerified, Fail
  <2>2. world' = world /\ recorded' = recorded /\ begun' = begun
    BY <1>6 DEF NotVerified, Fail
  <2> QED
    BY <2>1, <2>2, RollbackTodo
<1>7. CASE NativeUndo
  <2>1. PICK w : w = world' /\ Rollback(w, recorded, made) /\ recorded' = recorded /\ begun' = begun
    BY <1>7 DEF NativeUndo
  <2> QED
    BY <2>1, RollbackTodo
<1>8. CASE Verified \/ Judge \/ \E x \in Names : Undo(x)
  BY <1>8 DEF Verified, Judge, Undo
<1> QED
  BY <1>1, <1>2, <1>3, <1>4, <1>5, <1>6, <1>7, <1>8 DEF Next, Work

LEMMA UndoesKnownStep ==
  ASSUME TypeOK, UndoesKnown, UndoesOwn, Next
  PROVE  UndoesKnown'
<1>1. H' = H
  BY SameCommand DEF H
<1>2. ASSUME H.record = "never" PROVE recorded' = {}
  <2> USE <1>2 DEF UndoesKnown
  <2>1. CASE Others
    BY <2>1 DEF Others, Edit, Solve, callVars
  <2>2. CASE Preview \/ Kill
    BY <2>2 DEF Preview, Kill, callVars
  <2>3. CASE Apply
    BY <2>3 DEF Apply, RefuseBusy, RefuseStale, Begin, callVars
  <2>4. CASE Step
    <3>1. \A w, report : Record(w, report) = recorded
      BY DEF Record
    <3> QED
      BY <2>4, <3>1 DEF Step
  <2>5. CASE Rename
    BY <2>5 DEF Rename
  <2>6. CASE Work /\ ~Step /\ ~Rename
    BY <2>6 DEF Work, Verified, NotVerified, NativeUndo, Undo, Judge, callVars
  <2> QED
    BY <2>1, <2>2, <2>3, <2>4, <2>5, <2>6 DEF Next
<1>3. ASSUME pc' = "undo" PROVE \A x \in todo' : x \in recorded' \cup H.always \/ begun'[x] = "none"
  BY <1>3, UndoStep DEF UndoesKnown
<1> QED
  BY <1>1, <1>2, <1>3 DEF UndoesKnown

LEMMA UndoesOwnStep ==
  ASSUME TypeOK, ViewsTrue, Working, UndoesKnown, UndoesOwn, MadeByCall, Next
  PROVE  UndoesOwn'
<1>1. H' = H /\ cmd \in Commands
  BY SameCommand DEF H, TypeOK
<1>2. ASSUME pc' = "native" PROVE H.native
  <2>1. CASE Others
    BY <1>2, <2>1 DEF Others, Edit, Solve, UndoesOwn
  <2>2. CASE Preview \/ Kill \/ Apply
    BY <1>2, <2>2 DEF Preview, Kill, Apply, RefuseBusy, RefuseStale, Begin, UndoesOwn
  <2>3. CASE Work
    BY <1>2, <2>3 DEF Work, Step, Rename, Verified, NotVerified, NativeUndo, Undo, Judge,
                      Fail, Rollback, Proceed
  <2> QED
    BY <2>1, <2>2, <2>3 DEF Next
<1>3. ASSUME pc' = "undo", Careful(H) PROVE todo' \subseteq ours' \cup recorded'
  <2>1. CASE pc = "undo" /\ todo' \subseteq todo /\ recorded' = recorded /\ ours' = ours
    BY <1>3, <2>1 DEF UndoesOwn
  <2>2. CASE Careful(H) /\ ~H.proves /\ todo' \subseteq recorded'
    BY <2>2
  <2>3. CASE /\ \A x \in todo' : x \in recorded' \cup H.always \/ begun[x] = "none"
             /\ H.proves /\ \A x \in todo' : world'[x] = "new"
    <3>1. ~H.native /\ H.always = {}
      BY <1>1, <2>3, Command
    <3>2. begun' = begun /\ MadeByCall'
      BY <1>3, UndoStep, MadeByCallStep
    <3>3. \A x \in Names : begun'[x] = "none" /\ world'[x] = "new" => x \in ours'
      BY <1>1, <1>3, <3>1, <3>2 DEF MadeByCall
    <3>4. todo' \subseteq Names
      BY NextTypes DEF TypeOK
    <3> QED
      BY <2>3, <3>1, <3>2, <3>3, <3>4
  <2> QED
    BY <1>3, <2>1, <2>2, <2>3, UndoStep
<1> QED
  BY <1>1, <1>2, <1>3 DEF UndoesOwn

-----------------------------------------------------------------------------
(* What is verified *)

(* An object whose value is read back had, in the preview, the value it was  *)
(* shown with.                                                              *)
LEMMA CheckedValue ==
  ASSUME TypeOK, ViewsTrue, NEW x \in H.check.values
  PROVE  View[x] = using.shown[x]
<1>1. CASE x \in H.watch.values
  BY <1>1, ViewValue
<1>2. CASE x \notin H.watch.values
  <2>1. x \in Adds(H) /\ x \in H.watch.names
    BY <1>2, Command DEF TypeOK
  <2>2. using.shown[x] = "none"
    BY <2>1 DEF ViewsTrue, Adds, Possible
  <2> QED
    BY <2>1, <2>2, ViewValue
<1> QED
  BY <1>1, <1>2

(* The readback has found what the plan makes of what was shown.            *)
LEMMA VerifiedNow ==
  ASSUME TypeOK, ViewsTrue, AsExpected, ~H.counts
  PROVE  /\ \A x \in H.check.values :
              world[x] = IF x \in Planned(H)
                         THEN Result(Last(H, x), using.shown[x], using.shown[x])
                         ELSE using.shown[x]
         /\ \A x \in H.check.names :
              (world[x] = "none") <=> IF x \in Planned(H) THEN Last(H, x) = "remove"
                                                         ELSE using.shown[x] = "none"
<1>1. /\ H \in HandlerType /\ H.check \in Scope /\ cmd \in Commands
      /\ H.check.names \cup H.check.values \subseteq DOMAIN View
  BY Command, Fields, ViewValue DEF TypeOK
<1>2. Seen(H.check, world) = Seen(H.check, Expected(H, View))
  BY DEF AsExpected
<1>3. \A x \in DOMAIN View :
        Expected(H, View)[x] = IF x \in Planned(H) THEN Result(Last(H, x), View[x], View[x])
                                                   ELSE View[x]
  BY DEF Expected
<1>4. ASSUME NEW x \in H.check.values
      PROVE  world[x] = IF x \in Planned(H)
                        THEN Result(Last(H, x), using.shown[x], using.shown[x])
                        ELSE using.shown[x]
  <2>1. world[x] = Expected(H, View)[x]
    <3>1. ASSUME NEW w PROVE \A y \in H.check.values : Seen(H.check, w)[y] = w[y]
      BY <1>1, SeenValue
    <3> QED
      BY <1>2, <3>1
  <2> QED
    BY <1>1, <1>3, <2>1, CheckedValue
<1>5. ASSUME NEW x \in H.check.names
      PROVE  (world[x] = "none") <=> IF x \in Planned(H) THEN Last(H, x) = "remove"
                                                        ELSE using.shown[x] = "none"
  <2>1. world[x] = "none" <=> Expected(H, View)[x] = "none"
    <3>1. ASSUME NEW w PROVE Seen(H.check, w)[x] = "none" <=> w[x] = "none"
      BY <1>1, SeenValue
    <3> QED
      BY <1>2, <3>1
  <2>2. View[x] = "none" <=> using.shown[x] = "none"
    BY <1>1, ViewValue
  <2>3. ASSUME x \in Planned(H)
        PROVE  Result(Last(H, x), View[x], View[x]) = "none" <=> Last(H, x) = "remove"
    <3>1. CASE Last(H, x) = "back"
      <4>1. First(H, x) \notin {"add", "put"}
        BY <1>1, <2>3, <3>1, Command
      <4>2. using.shown[x] # "none"
        BY <2>3, <4>1 DEF ViewsTrue, Possible
      <4> QED
        BY <2>2, <3>1, <4>2 DEF Result
    <3>2. CASE Last(H, x) # "back"
      BY <3>2 DEF Result, Moved
    <3> QED
      BY <3>1, <3>2
  <2> QED
    BY <1>1, <1>3, <2>1, <2>2, <2>3
<1> QED
  BY <1>4, <1>5

(* Afterwards only others change it, until the next call begins.            *)
LEMMA VerifiedStep ==
  ASSUME TypeOK, ViewsTrue, Working, VerifiedAsShown, Next
  PROVE  VerifiedAsShown'
<1> SUFFICES ASSUME answer' = "verified", ~H.counts
             PROVE  /\ \A x \in H.check.values \ touched' :
                         world'[x] = IF x \in Planned(H)
                                     THEN Result(Last(H, x), using'.shown[x], using'.shown[x])
                                     ELSE using'.shown[x]
                    /\ \A x \in H.check.names \ touched' :
                         (world'[x] = "none") <=> IF x \in Planned(H) THEN Last(H, x) = "remove"
                                                                     ELSE using'.shown[x] = "none"
  BY SameCommand DEF VerifiedAsShown, H
<1>1. CASE Verified
  BY <1>1, VerifiedNow DEF Verified, callVars
<1>2. CASE answer = "verified" /\ ~Verified
  <2>1. pc = "idle"
    BY <1>2 DEF Working
  <2>2. Others \/ Preview
    BY <1>2, <2>1 DEF Next, Apply, RefuseBusy, RefuseStale, Begin, Kill, Work, Step, Rename,
                      NotVerified, NativeUndo, Undo, Judge
  <2>3. using' = using /\ touched \subseteq touched'
    BY <2>2 DEF Others, Edit, Solve, Preview, callVars
  <2>4. H.check.names \subseteq Names /\ H.check.values \subseteq Names
    BY Command, Fields, Scopes DEF TypeOK
  <2>5. \A x \in Names \ touched' : world'[x] = world[x]
    BY <2>2 DEF Others, Edit, Solve, Preview, Change, TypeOK
  <2> QED
    BY <1>2, <2>3, <2>4, <2>5 DEF VerifiedAsShown
<1>3. CASE answer # "verified" /\ ~Verified
  BY <1>3 DEF Next, Others, Edit, Solve, Preview, Apply, RefuseBusy, RefuseStale, Begin, Kill,
              Work, Step, Rename, NotVerified, NativeUndo, Undo, Judge
<1> QED
  BY <1>1, <1>2, <1>3

-----------------------------------------------------------------------------
(* What is left behind by a failure *)

(* What a command compares that compares what it may have changed.          *)
LEMMA Compared ==
  ASSUME cmd \in Commands, Compares(H)
  PROVE  /\ H.judge.names \cup H.judge.values \subseteq H.watch.names \cup H.watch.values
         /\ H.judge.values \subseteq H.watch.values
         /\ \A x \in Planned(H) : x \in H.judge.values \cup (H.judge.names \cap Adds(H))
         /\ H.always \subseteq Planned(H)
         /\ H.native => Names \subseteq H.judge.values
         /\ \/ Names \subseteq H.judge.names \cup H.judge.values
            \/ H.named /\ H.record = "returned" /\ H.errors /\ ~H.proves
            \/ \A i \in DOMAIN H.plan, x \in Names : H.plan[i] # [z \in {x} |-> "add"]
<1>1. PICK c \in Commands : c = cmd
  OBVIOUS
<1>2. H = Handlers[c]
  BY <1>1 DEF H
<1>3. /\ H.judge.names \cup H.judge.values \subseteq H.watch.names \cup H.watch.values
      /\ H.judge.values \subseteq H.watch.values
  BY <1>2, HandlersAssumption, Zenon
<1> QED
  BY <1>2, <1>3, ComparesAssumption, Zenon

(* Nobody else's change is forgotten before the next call begins.           *)
LEMMA TouchedStep ==
  ASSUME Next
  PROVE  touched \subseteq touched' \/ \E p \in previews : Begin(p)
<1>1. CASE Others
  BY <1>1 DEF Others, Edit, Solve
<1>2. CASE Preview \/ Kill
  BY <1>2 DEF Preview, Kill
<1>3. CASE Apply
  BY <1>3 DEF Apply, RefuseBusy, RefuseStale
<1>4. CASE Work
  BY <1>4 DEF Work, Step, Rename, Verified, NotVerified, NativeUndo, Undo, Judge
<1> QED
  BY <1>1, <1>2, <1>3, <1>4 DEF Next

(* What a call records is of the item it is at.                             *)
LEMMA RecordedItem ==
  ASSUME NEW w, NEW report
  PROVE  Record(w, report) \subseteq recorded \cup DOMAIN Item
BY DEF Record

(* Outside its plan a call makes an object only where there is none, when    *)
(* AEDT gives the object another name, and takes away only what it undoes.  *)
LEMMA OutsideStep ==
  ASSUME TypeOK, Next, NEW x \in Names \ Planned(H)
  PROVE  /\ \/ world'[x] = world[x]
            \/ Edit(x)
            \/ Rename /\ world[x] = "none"
            \/ pc = "native"
            \/ pc = "undo" /\ Undo(x) /\ x \in todo /\ world'[x] = "none"
         /\ x \in recorded' => x \in recorded \/ (Rename /\ world[x] = "none")
<1> USE DEF Change
<1>0. /\ H \in HandlerType /\ at \in DOMAIN H.plan
      /\ x \notin DOMAIN Item
  <2>1. H \in HandlerType /\ at \in DOMAIN H.plan
    BY Command DEF TypeOK
  <2> QED
    BY <2>1, ItemOfPlan DEF Item
<1>1. CASE Others
  <2>1. CASE Solve
    BY <2>1 DEF Solve, callVars
  <2>2. ASSUME NEW y \in Names, Edit(y)
        PROVE (world'[x] = world[x] \/ x = y) /\ recorded' = recorded
    BY <2>2 DEF Edit, TypeOK, callVars
  <2> QED
    BY <1>1, <2>1, <2>2 DEF Others
<1>2. CASE Preview \/ Apply \/ Kill \/ Verified \/ NotVerified \/ Judge
  <2>1. world' = world
    BY <1>2 DEF Preview, Apply, RefuseBusy, RefuseStale, Begin, Kill, Verified, NotVerified, Judge
  <2>2. recorded' = recorded \/ recorded' = {}
    BY <1>2 DEF Preview, Apply, RefuseBusy, RefuseStale, Begin, Kill, Verified, NotVerified, Judge,
                callVars
  <2> QED
    BY <2>1, <2>2
<1>3. CASE Step
  <2>1. PICK acted, odd, w :
          /\ acted \in SUBSET DOMAIN Item /\ odd \in BOOLEAN
          /\ w = [y \in Names |->
                     IF y \notin acted THEN world[y]
                     ELSE IF odd THEN "odd"
                     ELSE Result(Item[y], world[y],
                                 IF y \in DOMAIN View THEN View[y] ELSE world[y])]
          /\ Change(w)
    BY <1>3 DEF Step
  <2>2. world'[x] = world[x]
    BY <1>0, <2>1
  <2>3. recorded' \subseteq recorded \cup DOMAIN Item
    BY <1>3, RecordedItem DEF Step
  <2> QED
    BY <1>0, <2>2, <2>3
<1>4. CASE Rename
  <2>1. PICK y \in Names :
          /\ world[y] = "none" /\ world' = [world EXCEPT ![y] = "odd"]
          /\ recorded' = CASE H.record = "returned" -> recorded \cup {y}
                           [] H.record \in {"seen", "gone"} -> Record(world', "ok")
                           [] OTHER -> recorded
    BY <1>4 DEF Rename
  <2>2. recorded' \subseteq recorded \cup DOMAIN Item \cup {y}
    <3>1. PICK w : w = world'
      OBVIOUS
    <3>2. Record(w, "ok") \subseteq recorded \cup DOMAIN Item
      BY RecordedItem
    <3> QED
      BY <2>1, <3>1, <3>2
  <2>3. x # y => world'[x] = world[x]
    BY <2>1 DEF TypeOK
  <2> QED
    BY <1>0, <1>4, <2>1, <2>2, <2>3
<1>5. CASE NativeUndo
  BY <1>5 DEF NativeUndo
<1>6. ASSUME NEW y \in Names, Undo(y)
      PROVE  /\ world'[x] = world[x] \/ (world'[x] = "none" /\ x = y)
             /\ pc = "undo" /\ y \in todo /\ recorded' = recorded
  <2>1. Restored(x) = "none"
    BY DEF Restored, Created
  <2> QED
    BY <1>6, <2>1 DEF Undo, TypeOK
<1> QED
  BY <1>1, <1>2, <1>3, <1>4, <1>5, <1>6 DEF Next, Work

LEMMA KeptOutsideStep ==
  ASSUME TypeOK, UndoesKnown, UndoesOwn, KeptOutside, Next
  PROVE  KeptOutside'
<1> SUFFICES ASSUME pc' # "idle", Compares(H), ~H.native,
                    NEW x \in Names \ (touched' \cup Planned(H))
             PROVE  /\ world'[x] = begun'[x] \/ begun'[x] = "none"
                    /\ x \in recorded' => begun'[x] = "none"
  BY SameCommand DEF KeptOutside, H
<1>1. CASE \E p \in previews : Begin(p)
  BY <1>1 DEF Begin
<1>2. CASE pc # "idle" /\ begun' = begun /\ touched \subseteq touched'
  <2>1. /\ world[x] = begun[x] \/ begun[x] = "none"
        /\ x \in recorded => begun[x] = "none"
    BY <1>2 DEF KeptOutside
  <2>2. ~Edit(x) /\ pc # "native"
    BY DEF Edit, UndoesOwn
  <2>3. pc = "undo" /\ x \in todo => begun[x] = "none"
    BY <2>1, Compared DEF TypeOK, UndoesKnown
  <2> QED
    BY <1>2, <2>1, <2>2, <2>3, OutsideStep
<1> QED
  BY <1>1, <1>2, CallStep, TouchedStep

(* A call that goes on with its rollback has less to undo, or has met an     *)
(* error.                                                                   *)
LEMMA RollbackGoesOn ==
  ASSUME Next, pc = "undo", pc' # "idle", NEW x \in Names
  PROVE  /\ pc' = "undo" /\ (errors => errors')
         /\ x \in todo /\ x \notin todo' => Undo(x)
<1>1. CASE Others
  BY <1>1 DEF Others, Edit, Solve, callVars
<1>2. CASE Preview \/ Kill \/ Apply
  BY <1>2 DEF Preview, Kill, Apply, RefuseBusy, RefuseStale, Begin, callVars
<1>3. CASE Step \/ Rename \/ Verified \/ NotVerified \/ NativeUndo \/ Judge
  BY <1>3 DEF Step, Rename, Verified, NotVerified, NativeUndo, Judge
<1>4. ASSUME NEW y \in Names, Undo(y)
      PROVE  pc' = "undo" /\ (errors => errors') /\ todo' = todo \ {y}
  BY <1>4 DEF Undo
<1> QED
  BY <1>1, <1>2, <1>3, <1>4 DEF Next, Work

(* An object that got another name, and is not compared, is to be deleted.   *)
LEMMA RenamedIsUndone ==
  ASSUME TypeOK, Compares(H), ~H.native, Rename,
         NEW x \in Names \ (H.judge.names \cup H.judge.values), world'[x] # world[x]
  PROVE  pc' = "undo" /\ H.errors /\ x \in todo'
<1>1. PICK z \in Names, y \in Names :
        /\ Item = [u \in {z} |-> "add"]
        /\ world' = [world EXCEPT ![y] = "odd"]
        /\ recorded' = CASE H.record = "returned" -> recorded \cup {y}
                         [] H.record \in {"seen", "gone"} -> Record(world', "ok")
                         [] OTHER -> recorded
        /\ IF ~H.named /\ Looked(world')
           THEN Proceed
           ELSE at' = at /\ Fail(world', recorded', {y})
  BY DEF Rename, Change
<1>2. H.named /\ H.record = "returned" /\ H.errors /\ ~H.proves
  BY <1>1, Compared DEF TypeOK, Item
<1>3. x = y
  BY <1>1 DEF TypeOK
<1>4. PICK w, rec : w = world' /\ rec = recorded'
  OBVIOUS
<1>5. x \in rec /\ Fail(w, rec, {y})
  BY <1>1, <1>2, <1>3, <1>4
<1>6. ~Doubtful(w, rec, {y}) /\ x \in Todo(w, rec, {y})
  BY <1>2, <1>5 DEF Doubtful, Todo
<1> QED
  BY <1>2, <1>5, <1>6 DEF Fail, Rollback

LEMMA UnjudgedKeptStep ==
  ASSUME TypeOK, UndoesKnown, UndoesOwn, KeptOutside, UnjudgedKept, Next
  PROVE  UnjudgedKept'
<1> SUFFICES ASSUME pc' # "idle", Compares(H),
                    NEW x \in Names \ (touched' \cup Planned(H) \cup H.judge.names \cup H.judge.values)
             PROVE  \/ world'[x] = begun'[x]
                    \/ pc' = "undo" /\ H.errors /\ (x \in todo' \/ errors')
  BY SameCommand DEF UnjudgedKept, H
<1>1. CASE \E p \in previews : Begin(p)
  BY <1>1 DEF Begin
<1>2. CASE pc # "idle" /\ begun' = begun /\ touched \subseteq touched'
  <2>1. ~H.native /\ pc # "native" /\ ~Edit(x)
    BY Compared DEF TypeOK, UndoesOwn, Edit
  <2>2. x \in recorded => begun[x] = "none"
    BY <1>2, <2>1 DEF KeptOutside
  <2>3. pc = "undo" /\ x \in todo => begun[x] = "none"
    BY <2>2, Compared DEF TypeOK, UndoesKnown
  <2>4. CASE world[x] = begun[x]
    <3>1. CASE Rename /\ world'[x] # world[x]
      BY <2>1, <3>1, RenamedIsUndone
    <3> QED
      BY <1>2, <2>1, <2>3, <2>4, <3>1, OutsideStep
  <2>5. CASE pc = "undo" /\ H.errors /\ (x \in todo \/ errors)
    <3>1. pc' = "undo" /\ (errors => errors') /\ (x \in todo /\ x \notin todo' => Undo(x))
      BY <2>5, RollbackGoesOn
    <3>2. ASSUME Undo(x)
          PROVE  world'[x] = "none" \/ errors'
      <4>1. Restored(x) = "none"
        BY DEF Restored, Created
      <4> QED
        BY <3>2, <4>1 DEF Undo, Change, TypeOK
    <3>3. Undo(x) => x \in todo
      BY DEF Undo
    <3> QED
      BY <1>2, <2>3, <2>5, <3>1, <3>2, <3>3
  <2> QED
    BY <1>2, <2>4, <2>5 DEF UnjudgedKept
<1> QED
  BY <1>1, <1>2, CallStep, TouchedStep

(* A rollback that is found complete has left every object as the call found *)
(* it.                                                                      *)
LEMMA CompleteIsClean ==
  ASSUME TypeOK, ViewsTrue, Working, KeptOutside, UnjudgedKept, Compares(H),
         pc = "undo", todo = {}, Complete, NEW x \in Names \ touched
  PROVE  world[x] = begun[x]
<1>1. /\ H \in HandlerType /\ H.watch \in Scope /\ H.judge \in Scope /\ cmd \in Commands
      /\ H.judge.names \cup H.judge.values \subseteq H.watch.names \cup H.watch.values
      /\ H.judge.values \subseteq H.watch.values
  BY Command, Fields, Compared DEF TypeOK
<1>2. Seen(H.judge, world) = Seen(H.judge, View) /\ View = Seen(H.watch, begun)
  BY DEF Complete, Judged, Compares, Working
<1>3. ASSUME NEW s \in Scope, NEW w
      PROVE  /\ \A y \in s.values : Seen(s, w)[y] = w[y]
             /\ \A y \in s.names \cup s.values : Seen(s, w)[y] = "none" <=> w[y] = "none"
  BY DEF Seen
<1>4. \A y \in H.judge.values : world[y] = begun[y]
  <2> TAKE y \in H.judge.values
  <2>1. Seen(H.judge, world)[y] = world[y] /\ Seen(H.judge, View)[y] = View[y]
    BY <1>1, <1>3
  <2>2. Seen(H.watch, begun)[y] = begun[y]
    BY <1>1, <1>3
  <2> QED
    BY <1>2, <2>1, <2>2
<1>5. \A y \in H.judge.names : world[y] = "none" <=> begun[y] = "none"
  <2> TAKE y \in H.judge.names
  <2>1. /\ Seen(H.judge, world)[y] = "none" <=> world[y] = "none"
        /\ Seen(H.judge, View)[y] = "none" <=> View[y] = "none"
    BY <1>1, <1>3
  <2>2. Seen(H.watch, begun)[y] = "none" <=> begun[y] = "none"
    BY <1>1, <1>3
  <2> QED
    BY <1>2, <2>1, <2>2
<1>6. CASE x \in Planned(H) /\ x \notin H.judge.values
  <2>1. x \in H.judge.names /\ x \in Adds(H) /\ x \in DOMAIN View
    BY <1>1, <1>6, Compared, ViewValue
  <2>2. using.shown[x] = "none"
    BY <2>1 DEF ViewsTrue, Adds, Possible
  <2>3. Seen(H.watch, begun)[x] = "none"
    BY <1>2, <2>1, <2>2, ViewValue
  <2>4. begun[x] = "none"
    BY <1>1, <1>3, <2>1, <2>3
  <2> QED
    BY <1>5, <2>1, <2>4
<1>7. CASE x \notin Planned(H) /\ x \in H.judge.names /\ x \notin H.judge.values
  <2>1. ~H.native
    BY <1>1, <1>7, Compared
  <2>2. world[x] = begun[x] \/ begun[x] = "none"
    BY <1>7, <2>1 DEF KeptOutside
  <2> QED
    BY <1>5, <1>7, <2>2
<1>8. CASE x \notin Planned(H) \cup H.judge.names \cup H.judge.values
  BY <1>8 DEF UnjudgedKept, Complete
<1> QED
  BY <1>4, <1>6, <1>7, <1>8

LEMMA CleanFailureStep ==
  ASSUME TypeOK, ViewsTrue, Working, KeptOutside, UnjudgedKept, CleanFailure, Next
  PROVE  CleanFailure'
<1> SUFFICES ASSUME answer' = "failed", Compares(H), NEW x \in Names \ touched'
             PROVE  world'[x] = begun'[x]
  BY SameCommand DEF CleanFailure, H
<1>1. CASE Judge
  <2>1. /\ pc = "undo" /\ todo = {} /\ Complete
        /\ world' = world /\ begun' = begun /\ touched' = touched
    BY <1>1 DEF Judge, Compares, callVars
  <2> QED
    BY <2>1, CompleteIsClean
<1>2. CASE answer = "failed"
  <2>1. pc = "idle" /\ \A y \in Names \ touched : world[y] = begun[y]
    BY <1>2 DEF Working, CleanFailure
  <2>2. CASE Others
    <3>1. CASE Solve
      BY <2>1, <3>1 DEF Solve, callVars
    <3>2. ASSUME NEW y \in Names, Edit(y)
          PROVE  world'[x] = begun'[x]
      BY <2>1, <3>2 DEF Edit, Change, TypeOK, callVars
    <3> QED
      BY <2>2, <3>1, <3>2 DEF Others
  <2>3. CASE Preview
    BY <2>1, <2>3 DEF Preview, callVars
  <2>4. ~Apply /\ ~Work /\ ~Kill
    BY <2>1 DEF Apply, RefuseBusy, RefuseStale, Begin, Kill, Work, Step, Rename, Verified,
                NotVerified, NativeUndo, Undo, Judge
  <2> QED
    BY <2>2, <2>3, <2>4 DEF Next
<1>3. CASE answer # "failed" /\ ~Judge
  BY <1>3 DEF Next, Others, Edit, Solve, Preview, Apply, RefuseBusy, RefuseStale, Begin, Kill,
              Work, Step, Rename, Verified, NotVerified, NativeUndo, Undo
<1> QED
  BY <1>1, <1>2, <1>3

-----------------------------------------------------------------------------
(* The theorems *)

LEMMA InitInvariant == Init => IInv
<1> SUFFICES ASSUME Init PROVE IInv
  OBVIOUS
<1>1. TypeOK
  BY InitTypes
<1>2. \A x \in Planned(H) : Possible(First(H, x), world[x])
  <2>1. Planned(H) \subseteq Names
    BY <1>1, Command, PlannedNames DEF TypeOK
  <2> QED
    BY <2>1 DEF Init, Worlds, H
<1>3. using = [view |-> Seen(H.watch, world), shown |-> world] /\ previews = {}
  BY DEF Init, H
<1>4. ViewsTrue
  BY <1>2, <1>3 DEF ViewsTrue
<1>5. \A x \in Names : world[x] \in {"none", "old"} /\ earlier = world
  BY DEF Init, Worlds
<1>6. MovedOnly
  BY <1>3, <1>5 DEF MovedOnly
<1> QED
  BY <1>1, <1>4, <1>6 DEF Init, IInv, Working, MovedOnce, MadeByCall, UndoesKnown, UndoesOwn,
                          VerifiedAsShown, KeptOutside, UnjudgedKept, CleanFailure

LEMMA StepInvariant == IInv /\ [Next]_vars => IInv'
<1> SUFFICES ASSUME IInv, [Next]_vars PROVE IInv'
  OBVIOUS
<1>1. CASE Next
  BY <1>1, NextTypes, ViewsTrueStep, WorkingStep, MovedOnlyStep, MovedOnceStep, MadeByCallStep,
     UndoesKnownStep, UndoesOwnStep, VerifiedStep, KeptOutsideStep, UnjudgedKeptStep,
     CleanFailureStep DEF IInv
<1>2. CASE UNCHANGED vars
  <2>1. H' = H /\ View' = View
    BY <1>2 DEF vars, callVars, H, View
  <2>2. /\ TypeOK' /\ ViewsTrue' /\ Working' /\ MovedOnly'
    BY <1>2, <2>1 DEF IInv, vars, callVars, TypeOK, ViewsTrue, Working, MovedOnly
  <2>3. MovedOnce' /\ MadeByCall'
    BY <1>2, <2>1 DEF IInv, vars, callVars, MovedOnce, MadeByCall
  <2>4. UndoesKnown' /\ UndoesOwn' /\ VerifiedAsShown'
    BY <1>2, <2>1 DEF IInv, vars, callVars, UndoesKnown, UndoesOwn, VerifiedAsShown
  <2>5. KeptOutside' /\ UnjudgedKept' /\ CleanFailure'
    BY <1>2, <2>1 DEF IInv, vars, callVars, KeptOutside, UnjudgedKept, CleanFailure
  <2> QED
    BY <2>2, <2>3, <2>4, <2>5 DEF IInv
<1> QED
  BY <1>1, <1>2

(* The inductive invariant holds in every reachable state.                  *)
THEOREM Invariance == Spec => []IInv
BY InitInvariant, StepInvariant, PTL DEF Spec

(* What the last call has verified is what was shown for approval, whatever  *)
(* the command, as long as nobody else has changed it.                      *)
THEOREM VerificationIsTrue == Spec => []VerifiedAsShown
<1>1. IInv => VerifiedAsShown
  BY DEF IInv
<1> QED
  BY <1>1, Invariance, PTL

(* A failure that is reported without "rollback is incomplete" has left      *)
(* nothing behind: every object is as the call found it, unless somebody     *)
(* else has changed it.                                                     *)
THEOREM FailureIsClean == Spec => []CleanFailure
<1>1. IInv => CleanFailure
  BY DEF IInv
<1> QED
  BY <1>1, Invariance, PTL

(* By the views of the previews and of the call at work.                     *)
LEMMA BegunFresh == IInv => BegunAsShown
<1> SUFFICES ASSUME IInv, pc # "idle"
             PROVE  /\ \A x \in Planned(H) \cap DOMAIN View : begun[x] = using.shown[x]
                    /\ \A x \in Names : world[x] = "twice" => using.shown[x] \in {"new", "twice"}
  BY DEF BegunAsShown
<1> USE DEF IInv
<1>1. /\ H \in HandlerType /\ H.watch \in Scope /\ cmd \in Commands
      /\ DOMAIN View = H.watch.names \cup H.watch.values
  BY Command, Fields, ViewValue DEF TypeOK
<1>2. Seen(H.watch, begun) = Seen(H.watch, using.shown)
  BY DEF Working, ViewsTrue, View
<1>3. ASSUME NEW x \in Planned(H) \cap DOMAIN View PROVE begun[x] = using.shown[x]
  <2>1. CASE x \in H.watch.values
    <3>1. ASSUME NEW w PROVE \A y \in H.watch.values : Seen(H.watch, w)[y] = w[y]
      BY <1>1, SeenValue
    <3> QED
      BY <1>2, <2>1, <3>1
  <2>2. CASE x \notin H.watch.values
    <3>1. x \in Adds(H)
      BY <1>1, <1>3, <2>2, Command
    <3>2. using.shown[x] = "none"
      BY <3>1 DEF ViewsTrue, Adds, Possible
    <3>3. ASSUME NEW w PROVE Seen(H.watch, w)[x] = "none" <=> w[x] = "none"
      BY <1>1, <1>3, SeenValue
    <3> QED
      BY <1>2, <3>2, <3>3
  <2> QED
    BY <2>1, <2>2
<1> QED
  BY <1>3 DEF MovedOnce

(* A call that works on the design has found every object of its plan that   *)
(* it watches as it was shown for approval, and moves nothing a second time. *)
THEOREM BeginningIsFresh == Spec => []BegunAsShown
BY BegunFresh, Invariance, PTL

(* What a careful rollback undoes the call has changed itself, or AEDT has   *)
(* confirmed to it.                                                         *)
LEMMA UndoKeepsOthers ==
  ASSUME IInv, [Next]_vars, pc = "undo", Careful(H), used'["edit"] = used["edit"],
         NEW x \in Names \ (ours \cup recorded), world[x] = "theirs"
  PROVE  world'[x] = "theirs"
<1>1. ASSUME Edit(x) PROVE FALSE
  BY <1>1 DEF Edit, Use, IInv, TypeOK, Uses
<1>2. CASE Next
  BY <1>1, <1>2, WorldStep DEF IInv, UndoesOwn
<1>3. CASE UNCHANGED vars
  BY <1>3 DEF vars
<1> QED
  BY <1>2, <1>3

(* A careful rollback deletes nothing that others have made or edited, in    *)
(* any step of any command.                                                 *)
THEOREM RollbackKeepsOthers == Spec => OthersKept
<1>1. IInv /\ [Next]_vars =>
        [pc = "undo" /\ Careful(H) /\ used'["edit"] = used["edit"] =>
           \A x \in Names \ (ours \cup recorded) : world[x] = "theirs" => world'[x] = "theirs"]_vars
  BY UndoKeepsOthers
<1> QED
  BY <1>1, Invariance, PTL DEF Spec, OthersKept
=============================================================================
