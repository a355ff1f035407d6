--------------------------- MODULE LiveTransaction ---------------------------
(***************************************************************************)
(* How a command of the live AEDT backend (live/backend.py) changes an open *)
(* design.  Every command that changes something has the same life: a       *)
(* preview reads what the command depends on and keeps it under an id; an   *)
(* apply with that id reads it again, refuses when it is not the same, then *)
(* calls AEDT once per item of its plan, reads the result back and answers  *)
(* "verified"; when anything goes wrong it undoes what it has recorded,     *)
(* reads once more and answers that it failed, or that it failed and could  *)
(* not be undone.                                                           *)
(*                                                                          *)
(* What distinguishes the commands (what they read, record, check, undo and *)
(* compare) is the record Handlers[c]; LiveCommands.tla gives it for every  *)
(* command.  AEDT is shared: the engineer at the screen and other clients   *)
(* change the same design between any two calls, a call may do nothing, do  *)
(* its work and report a failure, do half of it or something else, and the  *)
(* worker process may be killed in the middle.                              *)
(***************************************************************************)
EXTENDS Naturals, Sequences, FiniteSets

CONSTANTS Names,      \* the objects of the inventory a command works on
          Commands,   \* the commands
          Handlers,   \* what is particular to each, see HandlerType
          Limit       \* how often each of Uses may happen

\* How an object is: absent, as it was, as the command makes it, moved a second
\* time, not as asked for, or as somebody else made it.  "some" is an object
\* whose presence was read and nothing else.
Values == {"none", "old", "new", "twice", "odd", "theirs"}
Read == Values \cup {"some"}
Effects == {"add", "set", "put", "remove", "move", "back"}
Uses == {"call", "edit", "fault", "kill"}

\* What a snapshot reads: the presence of some objects, the values of some.
Scope == [names : SUBSET Names, values : SUBSET Names]

Seen(s, w) ==
  [x \in s.names \cup s.values |->
     IF x \in s.values \/ w[x] = "none" THEN w[x] ELSE "some"]

Items == UNION {[S -> Effects] : S \in (SUBSET Names) \ {{}}}

HandlerType ==
  [plan    : Seq(Items),       \* the AEDT calls, in order, and what each does
   idle    : BOOLEAN,          \* refused while a simulation runs
   watch   : Scope,            \* what preview and apply compare
   named   : BOOLEAN,          \* the name AEDT returns must be the one asked for
   looks   : BOOLEAN,          \* each call is followed by a look for its object
   record  : {"never", "before", "success", "seen", "returned", "gone"},
   check   : Scope,            \* what is read back in the end
   counts  : BOOLEAN,          \* only the number of new objects is read back
   keeps   : BOOLEAN,          \* a failure leaves the preview usable
   always  : SUBSET Names,     \* undone whether recorded or not
   made    : BOOLEAN,          \* deletes the returned name, or the planned one
   fresh   : SUBSET Names,     \* deleted when they were absent before the call
   proves  : BOOLEAN,          \* deletes only what it reads back as its own
   native  : BOOLEAN,          \* calls AEDT's own Undo first
   judge   : Scope,            \* what is compared after the undo
   own     : BOOLEAN,          \* of it, only what was recorded
   errors  : BOOLEAN,          \* an error of the undo makes it incomplete
   silent  : BOOLEAN]          \* never says that the undo was incomplete

Planned(h) == UNION {DOMAIN h.plan[i] : i \in DOMAIN h.plan}
Calls(h, x) == {i \in DOMAIN h.plan : x \in DOMAIN h.plan[i]}
First(h, x) == h.plan[CHOOSE i \in Calls(h, x) : \A j \in Calls(h, x) : i <= j][x]
Last(h, x) == h.plan[CHOOSE i \in Calls(h, x) : \A j \in Calls(h, x) : i >= j][x]
Adds(h) == {x \in Planned(h) : First(h, x) = "add"}
Moves(h) == {x \in Planned(h) : \E i \in Calls(h, x) : h.plan[i][x] = "move"}

\* The table gives every command a plan, undoes no value it has not read, and
\* judges nothing it has not watched.
ASSUME HandlersAssumption ==
  \A c \in Commands :
    LET h == Handlers[c] IN
    /\ h \in HandlerType
    /\ h.plan # << >>
    /\ h.judge.names \cup h.judge.values \subseteq h.watch.names \cup h.watch.values
    /\ h.judge.values \subseteq h.watch.values
    /\ h.check.names \cup h.check.values \subseteq h.watch.names \cup h.watch.values
    /\ h.check.values \subseteq h.watch.values \cup Adds(h)
    /\ \A x \in h.always : First(h, x) # "add" => x \in h.watch.values

\* It watches what it is asked to change, unless it keeps no record of it; what it
\* moves it moves once; what it puts back was there; and a rollback that deletes only
\* what it reads back as its own does nothing else.
ASSUME PlansAssumption ==
  \A c \in Commands :
    LET h == Handlers[c] IN
    /\ \A x \in Planned(h) :
         \/ x \in h.watch.values
         \/ x \in h.watch.names /\ x \in Adds(h)
         \/ x \notin h.watch.names \cup h.always /\ h.record = "never"
    /\ \A x \in Moves(h) :
         x \in h.watch.values /\ ~h.native /\ \A i, j \in Calls(h, x) : i = j
    /\ \A i \in DOMAIN h.plan : \A x \in DOMAIN h.plan[i] :
         h.plan[i][x] = "back" => x \in h.watch.values
    /\ \A x \in Planned(h) : Last(h, x) = "back" => First(h, x) \notin {"add", "put"}
    /\ h.proves => ~h.native /\ h.always = {}

\* The commands that compare the whole plan again before they say that it failed.
Compares(h) == ~h.silent /\ ~h.own

\* They compare what they may have changed: the objects of the plan, and any object
\* that AEDT may have made under another name, unless they stop at the name it returned
\* and say so when they cannot delete it.  Who calls AEDT's Undo compares everything.
ASSUME ComparesAssumption ==
  \A c \in Commands :
    LET h == Handlers[c] IN
    Compares(h) =>
      /\ \A x \in Planned(h) : x \in h.judge.values \cup (h.judge.names \cap Adds(h))
      /\ h.always \subseteq Planned(h)
      /\ h.native => Names \subseteq h.judge.values
      /\ \/ Names \subseteq h.judge.names \cup h.judge.values
         \/ h.named /\ h.record = "returned" /\ h.errors /\ ~h.proves
         \/ \A i \in DOMAIN h.plan, x \in Names : h.plan[i] # [z \in {x} |-> "add"]

ASSUME LimitAssumption == Limit \in [Uses -> Nat]

VARIABLES
  cmd,        \* the command
  world,      \* the objects of the design
  earlier,    \* the design before its last change, for AEDT's Undo
  running,    \* a simulation is running
  previews,   \* self._previews: the state each holds; its id is the digest of that state
  pc,         \* where the apply call is
  using,      \* the preview it was called with
  begun,      \* the design as the call first read it
  at,         \* the item of the plan it is at
  recorded,   \* the items it has recorded as done
  made,       \* a name AEDT returned for one it asked for
  todo,       \* what it has still to undo
  errors,     \* an undo call has failed
  answer,     \* what the last call answered
  used,       \* bounds: how often each of Uses has happened
  touched,    \* history: objects changed by others since the call began
  ours        \* history: objects this call has changed

callVars == <<using, begun, at, recorded, made, todo, errors, ours>>
vars == <<cmd, world, earlier, running, previews, pc, answer, used, touched, callVars>>

H == Handlers[cmd]
Item == H.plan[at]
View == using.view

Moved(v) == CASE v = "old" -> "new" [] v = "new" -> "twice" [] OTHER -> "odd"
Unmoved(v) == CASE v = "new" -> "old" [] v = "twice" -> "new" [] OTHER -> "odd"

\* What an effect makes of an object that is v, and was w when previewed.
Result(e, v, w) ==
  CASE e = "remove" -> "none"
    [] e = "move"   -> Moved(v)
    [] e = "back"   -> w
    [] OTHER        -> "new"

Possible(e, v) == CASE e = "add" -> v = "none" [] e = "put" -> TRUE [] OTHER -> v # "none"

\* The view a command expects to read when all went well.
Expected(h, v) ==
  [x \in DOMAIN v |-> IF x \in Planned(h) THEN Result(Last(h, x), v[x], v[x]) ELSE v[x]]

Use(k) == used[k] < Limit[k] /\ used' = [used EXCEPT ![k] = @ + 1]

Change(w) == /\ world' = w
             /\ earlier' = IF H.native /\ w # world THEN world ELSE earlier

-----------------------------------------------------------------------------
(* The engineer at the screen, other clients, the solver *)

Edit(x) ==
  /\ Use("edit")
  /\ \E v \in {"none", "theirs"} \ {world[x]} : Change([world EXCEPT ![x] = v])
  /\ touched' = touched \cup {x}
  /\ UNCHANGED <<cmd, running, previews, pc, answer, callVars>>

Solve ==
  /\ Use("edit")
  /\ running' = ~running
  /\ UNCHANGED <<cmd, world, earlier, previews, pc, answer, touched, callVars>>

-----------------------------------------------------------------------------
(* Preview and the start of apply *)

\* The objects must be there, or not be there; the state read is kept under the
\* digest of the specification and of that state.
Preview ==
  /\ pc = "idle"
  /\ ~(H.idle /\ running)
  /\ \A x \in Planned(H) : Possible(First(H, x), world[x])
  /\ LET v == Seen(H.watch, world) IN
     previews' = {p \in previews : p.view # v} \cup {[view |-> v, shown |-> world]}
  /\ UNCHANGED <<cmd, world, earlier, running, pc, answer, used, touched, callVars>>

RefuseBusy(p) ==
  /\ pc = "idle" /\ H.idle /\ running
  /\ Use("call")
  /\ answer' = "refused"
  /\ UNCHANGED <<cmd, world, earlier, running, previews, pc, touched, callVars>>

\* Mutant: only the names are compared.
FreshNames(p) ==
  \A x \in DOMAIN p.view : (world[x] = "none") <=> (p.view[x] = "none")

Fresh(p) == Seen(H.watch, world) = p.view

RefuseStale(p) ==
  /\ pc = "idle" /\ ~(H.idle /\ running) /\ ~Fresh(p)
  /\ Use("call")
  /\ answer' = "stale"
  /\ previews' = IF H.keeps THEN previews ELSE previews \ {p}
  /\ UNCHANGED <<cmd, world, earlier, running, pc, touched, callVars>>

Begin(p) ==
  /\ pc = "idle" /\ ~(H.idle /\ running) /\ Fresh(p)
  /\ Use("call")
  /\ pc' = "step"
  /\ using' = p
  /\ begun' = world
  /\ at' = 1
  /\ recorded' = {} /\ made' = {} /\ todo' = {} /\ errors' = FALSE
  /\ ours' = {} /\ touched' = {} /\ answer' = "none"
  /\ UNCHANGED <<cmd, world, earlier, running, previews>>

-----------------------------------------------------------------------------
(* The calls to AEDT *)

\* What the rollback goes over: what was recorded, what is undone in any case,
\* and objects that are there and were absent before the call.
Todo(w, rec, mk) ==
  rec \cup H.always
      \cup {x \in H.fresh \cup (IF ~H.made THEN {} ELSE IF mk # {} THEN mk ELSE Adds(H)) :
              begun[x] = "none" /\ w[x] # "none"}

\* Mutant: the object that carries the name is taken for its own.
DoubtfulNever(w, rec, mk) == FALSE

\* Something of that is not what the command makes: nothing is deleted then.
Doubtful(w, rec, mk) == H.proves /\ \E x \in Todo(w, rec, mk) : w[x] # "new"

Rollback(w, rec, mk) ==
  /\ pc' = "undo"
  /\ todo' = IF Doubtful(w, rec, mk) THEN {} ELSE Todo(w, rec, mk)

Fail(w, rec, mk) ==
  /\ IF H.native THEN pc' = "native" /\ todo' = {} ELSE Rollback(w, rec, mk)
  /\ errors' = Doubtful(w, rec, mk)

Proceed ==
  /\ IF at < Len(H.plan) THEN at' = at + 1 /\ pc' = "step"
                         ELSE at' = at /\ pc' = "verify"
  /\ todo' = todo /\ errors' = errors

Record(w, report) ==
  CASE H.record = "before"   -> recorded \cup DOMAIN Item
    [] H.record = "success"  -> IF report = "ok" THEN recorded \cup DOMAIN Item ELSE recorded
    [] H.record = "returned" -> IF report = "ok" THEN recorded \cup DOMAIN Item ELSE recorded
    [] H.record = "seen"     -> IF report = "raise" THEN recorded
                                ELSE recorded \cup {x \in DOMAIN Item : w[x] # "none"}
    [] H.record = "gone"     -> recorded \cup {x \in DOMAIN Item : w[x] = "none"}
    [] OTHER                 -> recorded

\* A look at the inventory after the call finds the object, or no longer finds it.
Looked(w) ==
  H.looks => \A x \in DOMAIN Item : (w[x] = "none") <=> (Item[x] = "remove")

\* One call works on every object of its item.  Without a fault it does so, or it
\* does nothing because an object is in the way or gone.  With a fault it does
\* nothing, or part, or something else, and reports what it likes.
Step ==
  /\ pc = "step"
  /\ \E acted \in SUBSET DOMAIN Item, odd, fault \in BOOLEAN, report \in {"ok", "false", "raise"} :
       LET able == \A x \in DOMAIN Item : Possible(Item[x], world[x])
           w == [x \in Names |->
                   IF x \notin acted THEN world[x]
                   ELSE IF odd THEN "odd"
                   ELSE Result(Item[x], world[x],
                               IF x \in DOMAIN View THEN View[x] ELSE world[x])]
       IN
       /\ \A x \in acted : Possible(Item[x], world[x])
       /\ odd => fault /\ \A x \in acted : Item[x] # "remove"
       /\ ~fault => \/ able /\ acted = DOMAIN Item /\ report = "ok"
                    \/ ~able /\ acted = {} /\ report # "ok"
       /\ IF fault THEN Use("fault") ELSE used' = used
       /\ Change(w)
       /\ ours' = ours \cup acted
       /\ recorded' = Record(w, report)
       /\ made' = made
       /\ IF report = "ok" /\ Looked(w)
          THEN Proceed
          ELSE at' = at /\ Fail(w, recorded', made)
  /\ UNCHANGED <<cmd, running, previews, answer, touched, using, begun>>

\* AEDT gives the new object another name, by itself when the name is taken.
Rename ==
  /\ pc = "step"
  /\ \E x \in Names, y \in Names \ Planned(H) :
       /\ Item = [z \in {x} |-> "add"]
       /\ world[y] = "none"
       /\ IF world[x] = "none" THEN Use("fault") ELSE used' = used
       /\ Change([world EXCEPT ![y] = "odd"])
       /\ ours' = ours \cup {y}
       /\ made' = {y}
       /\ recorded' = CASE H.record = "returned" -> recorded \cup {y}
                        [] H.record \in {"seen", "gone"} -> Record(world', "ok")
                        [] OTHER -> recorded
       /\ IF ~H.named /\ Looked(world')
          THEN Proceed
          ELSE at' = at /\ Fail(world', recorded', {y})
  /\ UNCHANGED <<cmd, running, previews, answer, touched, using, begun>>

-----------------------------------------------------------------------------
(* Readback *)

NewNames(v) == {x \in DOMAIN v : v[x] = "none" /\ world[x] # "none"}
LostNames(v) == {x \in DOMAIN v : v[x] # "none" /\ world[x] = "none"}

\* Mutant: only the names are read back.
AsExpectedNames ==
  \A x \in H.check.names \cup H.check.values :
    (world[x] = "none") <=> (Expected(H, View)[x] = "none")

AsExpected ==
  IF H.counts
  THEN LostNames(View) = {} /\ Cardinality(NewNames(View)) = Cardinality(Adds(H))
  ELSE Seen(H.check, world) = Seen(H.check, Expected(H, View))

Drop(p) == previews' = {q \in previews : q.view # p.view}

Verified ==
  /\ pc = "verify" /\ AsExpected
  /\ pc' = "idle"
  /\ answer' = "verified"
  /\ Drop(using)
  /\ UNCHANGED <<cmd, world, earlier, running, used, touched, callVars>>

\* The readback differs, or cannot be read.
NotVerified ==
  /\ pc = "verify"
  /\ IF AsExpected THEN Use("fault") ELSE used' = used
  /\ Fail(world, recorded, made)
  /\ UNCHANGED <<cmd, world, earlier, running, previews, answer, touched,
                 using, begun, at, recorded, made, ours>>

-----------------------------------------------------------------------------
(* Rollback *)

\* AEDT's Undo takes back the last change of the design, whoever made it; it is
\* called when the last call of the plan seems to have had an effect.
Undone ==
  /\ at = Len(H.plan)
  /\ \E x \in DOMAIN Item : IF Item[x] = "remove" THEN world[x] = "none"
                                                  ELSE world[x] # View[x]

NativeUndo ==
  /\ pc = "native"
  /\ \/ ~Undone /\ UNCHANGED <<world, errors, used>>
     \/ Undone /\ world' = earlier /\ UNCHANGED <<errors, used>>
     \/ Undone /\ Use("fault") /\ errors' = TRUE /\ world' = world
  /\ Rollback(world', recorded, made)
  /\ UNCHANGED <<cmd, earlier, running, previews, answer, touched,
                 using, begun, at, recorded, made, ours>>

\* An object that was not there is deleted; another one is put back, if it is
\* still there, or if it was removed and its name is free.
Created(x) == x \in Planned(H) => begun[x] = "none"

Restored(x) ==
  CASE Created(x) -> "none"
    [] ~Created(x) /\ First(H, x) = "move" -> Unmoved(world[x])
    [] OTHER -> View[x]

CanRestore(x) == ~Created(x) => ((world[x] = "none") <=> (First(H, x) = "remove"))

Undo(x) ==
  /\ pc = "undo" /\ x \in todo
  /\ todo' = todo \ {x}
  /\ \/ /\ CanRestore(x)
        /\ Change([world EXCEPT ![x] = Restored(x)])
        /\ UNCHANGED <<errors, used>>
     \/ /\ ~Created(x) \/ world[x] # "none"
        /\ IF CanRestore(x) THEN Use("fault") ELSE used' = used
        /\ errors' = TRUE
        /\ UNCHANGED <<world, earlier>>
  /\ UNCHANGED <<cmd, running, previews, pc, answer, touched, using, begun, at, recorded, made, ours>>

Judged ==
  IF H.own THEN [names |-> {}, values |-> H.judge.values \cap recorded] ELSE H.judge

\* Mutant: a rollback without an error is complete.
CompleteWithoutErrors == ~(H.errors /\ errors)

Complete ==
  /\ Seen(Judged, world) = Seen(Judged, View)
  /\ ~(H.errors /\ errors)

\* The answer, and whether the preview may be applied again.
Judge ==
  /\ pc = "undo" /\ todo = {}
  /\ pc' = "idle"
  /\ answer' = IF Complete \/ H.silent THEN "failed" ELSE "incomplete"
  /\ IF H.keeps THEN previews' = previews ELSE Drop(using)
  /\ UNCHANGED <<cmd, world, earlier, running, used, touched, callVars>>

\* The broker kills a worker whose answer is late; the previews die with it.
Kill ==
  /\ pc # "idle"
  /\ Use("kill")
  /\ pc' = "idle" /\ answer' = "lost" /\ previews' = {}
  /\ UNCHANGED <<cmd, world, earlier, running, touched, callVars>>

-----------------------------------------------------------------------------
Worlds(h) ==
  {w \in [Names -> {"none", "old"}] :
     \A x \in Planned(h) : Possible(First(h, x), w[x])}

Init ==
  /\ cmd \in Commands
  /\ world \in Worlds(Handlers[cmd])
  /\ earlier = world
  /\ running = FALSE
  /\ previews = {}
  /\ pc = "idle"
  /\ using = [view |-> Seen(Handlers[cmd].watch, world), shown |-> world]
  /\ begun = world
  /\ at = 1
  /\ recorded = {} /\ made = {} /\ todo = {} /\ errors = FALSE
  /\ answer = "none"
  /\ used = [k \in Uses |-> 0]
  /\ touched = {} /\ ours = {}

Others == (\E x \in Names : Edit(x)) \/ Solve
Apply == \E p \in previews : RefuseBusy(p) \/ RefuseStale(p) \/ Begin(p)
Work == Step \/ Rename \/ Verified \/ NotVerified \/ NativeUndo \/ (\E x \in Names : Undo(x)) \/ Judge

Next == Others \/ Preview \/ Apply \/ Work \/ Kill

Spec == Init /\ [][Next]_vars

-----------------------------------------------------------------------------
(* Properties *)

\* The types, the bounds, and that a call in progress has something to work on.
TypeOK ==
  /\ cmd \in Commands
  /\ world \in [Names -> Values] /\ earlier \in [Names -> Values] /\ begun \in [Names -> Values]
  /\ running \in BOOLEAN /\ errors \in BOOLEAN
  /\ pc \in {"idle", "step", "verify", "native", "undo"}
  /\ \A p \in previews \cup {using} :
       /\ p.view \in [H.watch.names \cup H.watch.values -> Read]
       /\ p.shown \in [Names -> Values]
  /\ at \in DOMAIN H.plan
  /\ recorded \subseteq Names /\ made \subseteq Names /\ todo \subseteq Names
  /\ touched \subseteq Names /\ ours \subseteq Names
  /\ answer \in {"none", "refused", "stale", "verified", "failed", "incomplete", "lost"}
  /\ used \in [Uses -> Nat] /\ \A k \in Uses : used[k] \in 0 .. Limit[k]

\* A call changes objects only when each object of its plan that it watches still
\* is as it was shown for approval, whatever others did in between and whatever an
\* earlier call with the same preview, or a worker killed in one, has left behind.
BegunAsShown ==
  pc # "idle" =>
    /\ \A x \in Planned(H) \cap DOMAIN View : begun[x] = using.shown[x]
    /\ \A x \in Names : world[x] = "twice" => using.shown[x] \in {"new", "twice"}

\* A failure reported without "rollback is incomplete" has left nothing behind:
\* every object is as the call found it, unless somebody else changed it since.
CleanFailure ==
  answer = "failed" /\ Compares(H) => \A x \in Names \ touched : world[x] = begun[x]

\* What is verified is what was shown: each object of the plan that the command
\* reads back became what it was to become from the state that was approved, and
\* no other object it reads back changed, unless by somebody else since.
VerifiedAsShown ==
  answer = "verified" /\ ~H.counts =>
    /\ \A x \in H.check.values \ touched :
         world[x] = IF x \in Planned(H)
                    THEN Result(Last(H, x), using.shown[x], using.shown[x])
                    ELSE using.shown[x]
    /\ \A x \in H.check.names \ touched :
         (world[x] = "none") <=> IF x \in Planned(H) THEN Last(H, x) = "remove"
                                                    ELSE using.shown[x] = "none"

\* The commands whose rollback goes by what AEDT has confirmed to this call, or by
\* a readback that recognises the object.
Careful(h) ==
  \/ h.proves
  \/ h.record \in {"success", "returned", "gone"} /\ h.always = {} /\ ~h.made /\ h.fresh = {} /\ ~h.native

\* "Leaving rollback incomplete is safer than deleting an object that the Harness
\* did not create" (backend.py:14284): the rollback of these commands deletes no
\* object made or edited by others that the call has not changed itself, unless AEDT
\* returned its name to the call as done.
OthersKept ==
  [][pc = "undo" /\ Careful(H) /\ used'["edit"] = used["edit"] =>
       \A x \in Names \ (ours \cup recorded) :
          world[x] = "theirs" => world'[x] = "theirs"]_vars

-----------------------------------------------------------------------------
(* The inductive invariant *)

\* A preview holds what was seen of the design it was shown with, in which the plan
\* was possible.
ViewsTrue ==
  \A p \in previews \cup {using} :
    /\ p.view = Seen(H.watch, p.shown)
    /\ \A x \in Planned(H) : Possible(First(H, x), p.shown[x])

\* A call that works has found what its preview shows, and answers at its end.
Working ==
  pc # "idle" => Seen(H.watch, begun) = View /\ answer = "none"

\* Only what a command moves is ever moved twice; within a call, only what was moved
\* once when it was shown.
MovedOnly ==
  \A x \in Names :
    x \notin Moves(H) =>
      /\ world[x] # "twice" /\ earlier[x] # "twice"
      /\ \A p \in previews \cup {using} : p.shown[x] # "twice"

MovedOnce ==
  pc # "idle" =>
    \A x \in Names :
      /\ world[x] = "twice" => using.shown[x] \in {"new", "twice"}
      /\ pc = "step" /\ x \in Moves(H) /\ (\A i \in Calls(H, x) : at <= i) /\ world[x] = "new"
           => using.shown[x] = "new"

\* Where nothing was, only the call puts what its plan makes, unless AEDT's Undo
\* brings it back.
MadeByCall ==
  pc # "idle" /\ ~H.native =>
    \A x \in Names : begun[x] = "none" /\ world[x] = "new" => x \in ours

\* A rollback undoes what was recorded, what it always undoes, or what was not there;
\* a careful one, what is the call's.
UndoesKnown ==
  /\ H.record = "never" => recorded = {}
  /\ pc = "undo" => \A x \in todo : x \in recorded \cup H.always \/ begun[x] = "none"

UndoesOwn ==
  /\ pc = "undo" /\ Careful(H) => todo \subseteq ours \cup recorded
  /\ pc = "native" => H.native

\* Outside the plan a call changes only objects that were not there.
KeptOutside ==
  pc # "idle" /\ Compares(H) /\ ~H.native =>
    \A x \in Names \ (touched \cup Planned(H)) :
      /\ world[x] = begun[x] \/ begun[x] = "none"
      /\ x \in recorded => begun[x] = "none"

\* What the comparison passes over is as it was, or has still to be deleted, or could
\* not be.
UnjudgedKept ==
  pc # "idle" /\ Compares(H) =>
    \A x \in Names \ (touched \cup Planned(H) \cup H.judge.names \cup H.judge.values) :
      \/ world[x] = begun[x]
      \/ pc = "undo" /\ H.errors /\ (x \in todo \/ errors)

IInv ==
  /\ TypeOK /\ ViewsTrue /\ Working /\ MovedOnly /\ MovedOnce /\ MadeByCall /\ UndoesKnown
  /\ UndoesOwn /\ VerifiedAsShown
  /\ KeptOutside /\ UnjudgedKept /\ CleanFailure

-----------------------------------------------------------------------------
\* Whatever fails, the answer says so when the rollback is not complete
\* (docs/ansys-assistant-operations-guide.zh.md:389).
ResidueReported ==
  answer = "failed" => \A x \in Names \ touched : world[x] = begun[x]
=============================================================================
