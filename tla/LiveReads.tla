------------------------------ MODULE LiveReads ------------------------------
(***************************************************************************)
(* The commands of the live backend that only read.  A read goes through    *)
(* its sections one by one, over a PyAEDT application that is kept from      *)
(* call to call (the wrapper), or over AEDT's own editor; others change the  *)
(* design meanwhile.  What it cannot read it reports, passes over, reads     *)
(* another way, or fails on, each section in its own manner.                 *)
(*                                                                          *)
(* A collection of the layout wrapper that has failed may leave the wrapper  *)
(* broken: it raises from then on, or gives less than there is, while AEDT's *)
(* editor works on (backend.py:99, :6047).  Every section reads a collection *)
(* of its own; one set of objects stands for each of them.                   *)
(***************************************************************************)
EXTENDS Naturals, Sequences, FiniteSets

CONSTANTS Objects,    \* what there may be in a collection, in the order of a listing
          MaxReads, MaxFaults, MaxEdits   \* bounds: reads, calls that fail, acts of the user

ASSUME ReadsAssumption ==
  /\ Objects \subseteq Nat /\ IsFiniteSet(Objects)
  /\ {MaxReads, MaxFaults, MaxEdits} \subseteq Nat

-----------------------------------------------------------------------------
(* A section: what it reads through, what becomes of a collection that       *)
(* raises and of an object in it that cannot be read, whether it is cut to   *)
(* max_items, and whether it is skipped once another section has failed.     *)

Section(fault, items, cut) ==
  [via |-> "wrapper", fault |-> fault, items |-> items, cut |-> cut, guarded |-> FALSE]
Native(s) == [s EXCEPT !.via = "native"]
UnlessFaulty(s) == [s EXCEPT !.guarded = TRUE]

\* The collection is read or the command fails; an object may lack properties.
Listing     == Section("raises", "marked", "never")
\* All or nothing, and the answer says when it was cut.
Catalog     == Section("raises", "raises", "told")
\* getattr(app, name, []): an AttributeError inside counts as an empty list.
Defaulted   == Section("empty", "marked", "never")
\* Collected into a list of what is unavailable.
Reported    == Section("reported", "marked", "never")

MaterialCatalog    == Catalog
MeshOperations     == Catalog
FieldSetups        == Catalog
BoundaryRecords    == Section("empty", "raises", "never")
SurfaceBoundaries  == Catalog
CoordinateSystems  == Native(Catalog)
PortBoundaries     == Catalog
GeometryObjects    == Section("empty", "raises", "never")
SetupNames         == Listing
PortNames          == Defaulted
SolutionNames      == Section("empty", "empty", "never")
ResultFiles        == Native(Section("reported", "dropped", "never"))
Variables          == Section("empty", "raises", "never")

\* The editor is asked when the wrapper fails, at the collection or at a line of it.
Lines              == Section("native", "native", "never")
StackupLayers      == UnlessFaulty(Section("reported", "raises", "told"))
Padstacks          == UnlessFaulty(Section("reported", "marked", "told"))
\* Rows of the exported file that are too short are left out, which counts as a fault.
DifferentialPairs  == UnlessFaulty(Section("reported", "told", "told"))
TechnologyPorts    == UnlessFaulty(Section("empty", "marked", "told"))
Terminals          == Section("reported", "marked", "told")
Components         == Section("reported", "marked", "told")
NetClasses         == Reported
SignalNets         == Native(Section("rebind", "raises", "never"))
SignalVias         == Native(Section("rebind", "marked", "told"))
NetNames           == Listing
\* Pins whose net cannot be read are passed over; a component whose pins cannot be
\* read is reported.
ComponentPins      == Section("raises", "dropped", "told")
UniformLines       == Section("raises", "dropped", "told")
Categories         == Reported
ObjectRecords      == Listing
ViaTargets         == Section("native", "marked", "told")
NamedProperties    == Section("native", "marked", "never")
ProgramStep        == Section("reported", "marked", "silently")

-----------------------------------------------------------------------------
(* The commands: the sections each reads, and the products it reads them of   *)

Command(products, sections) == [products |-> products, sections |-> sections]
Hfss(sections)   == Command({"hfss"}, sections)
Layout(sections) == Command({"layout"}, sections)
Either(sections) == Command({"hfss", "layout"}, sections)

hfss_design_inventory            == Hfss(<<Defaulted, Defaulted, SetupNames, PortNames>>)
setup_inventory                  == Either(<<SetupNames, PortNames>>)
solution_inventory               == Either(<<SetupNames, SolutionNames, ResultFiles>>)
hfss_geometry_inventory          == Hfss(<<GeometryObjects>>)
hfss_material_inventory          == Hfss(<<MaterialCatalog>>)
hfss_mesh_inventory              == Hfss(<<MeshOperations>>)
hfss_far_field_inventory         == Hfss(<<FieldSetups, BoundaryRecords>>)
hfss_surface_boundary_inventory  == Hfss(<<SurfaceBoundaries>>)
hfss_coordinate_system_inventory == Hfss(<<CoordinateSystems>>)
hfss_port_inventory              == Hfss(<<PortBoundaries>>)
variable_inventory               == Either(<<Variables>>)
layout_paths_list                == Layout(<<Lines>>)
layout_routing_inventory         == Layout(<<Lines, Variables>>)
layout_technology_inventory ==
  Layout(<<StackupLayers, Padstacks, DifferentialPairs, TechnologyPorts>>)
layout_connectivity_inventory ==
  Layout(<<Terminals, Components, Terminals, Terminals, NetClasses>>)
layout_signal_via_inventory      == Layout(<<SignalNets, SignalVias>>)
layout_port_candidate_inventory  == Layout(<<NetNames, ComponentPins>>)
layout_edge_port_candidate_inventory == Layout(<<NetNames, UniformLines>>)
layout_object_inventory          == Layout(<<Categories, Categories>>)
layout_object_property_inventory == Layout(<<ObjectRecords>>)
via_target_inventory             == Layout(<<ViaTargets>>)
layout_property_schema           == Layout(<<>>)
layout_properties_read           == Layout(<<NamedProperties>>)
controlled_read_schema           == Layout(<<>>)
controlled_read_execute          == Layout(<<ProgramStep, ProgramStep>>)

Commands ==
  {hfss_design_inventory, setup_inventory, solution_inventory, hfss_geometry_inventory,
   hfss_material_inventory, hfss_mesh_inventory, hfss_far_field_inventory,
   hfss_surface_boundary_inventory, hfss_coordinate_system_inventory, hfss_port_inventory,
   variable_inventory, layout_paths_list, layout_routing_inventory,
   layout_technology_inventory, layout_connectivity_inventory, layout_signal_via_inventory,
   layout_port_candidate_inventory, layout_edge_port_candidate_inventory,
   layout_object_inventory, layout_object_property_inventory, via_target_inventory,
   layout_property_schema, layout_properties_read, controlled_read_schema,
   controlled_read_execute}

\* _LAYOUT_NONPERSISTENT_READ_COMMANDS: not the three that read either product.
NonPersistent(c) == c.products = {"layout"}

-----------------------------------------------------------------------------
VARIABLES
  present,     \* the objects of the design
  open,        \* the design is open under its name
  wrapper,     \* _apps: product -> "none", "clean", or broken by a read that drops its
               \* wrapper ("read") or by a command that keeps it ("kept")
  read,        \* the read that is under way, or the last one
  steady,      \* history: the objects that were there all through that read
  omitted,        \* history: section -> those of them that its answer leaves out
  started,     \* history: the wrapper the read began with
  readUses     \* what the bounds count

readVars == <<present, open, wrapper, read, steady, omitted, started, readUses>>

Products == {"hfss", "layout"}
Sections == 1 .. 5
NoRead == [at |-> "none", command |-> layout_property_schema, product |-> "layout", limit |-> 1,
           next |-> 1, told |-> {}, faulty |-> FALSE, again |-> FALSE]
NoneLeft == [i \in Sections |-> {}]

Reading == read.at = "reading"
Idle == read = NoRead
Current == read.command.sections[read.next]
More == read.next <= Len(read.command.sections)
Broken == wrapper[read.product] \in {"read", "kept"}
UseRead(k, most) == readUses[k] < most /\ readUses' = [readUses EXCEPT ![k] = @ + 1]
UseFault == UseRead("fault", MaxFaults)

ReadInit ==
  /\ present = Objects /\ open = TRUE
  /\ wrapper = [k \in Products |-> "none"]
  /\ read = NoRead /\ steady = {} /\ omitted = NoneLeft /\ started = "none"
  /\ readUses = [k \in {"read", "fault", "edit"} |-> 0]

-----------------------------------------------------------------------------
(* The user, and the other commands of the same backend *)

Stay(S) ==
  IF Reading
  THEN steady' = steady \cap S /\ omitted' = [i \in Sections |-> omitted[i] \cap S]
  ELSE UNCHANGED <<steady, omitted>>

EditObjects(S) ==
  /\ UseRead("edit", MaxEdits) /\ open
  /\ present' = S /\ S # present
  /\ Stay(S)
  /\ UNCHANGED <<open, wrapper, read, started>>

CloseDesign ==
  /\ UseRead("edit", MaxEdits) /\ open
  /\ open' = FALSE /\ present' = {}
  /\ Stay({})
  /\ UNCHANGED <<wrapper, read, started>>

(* hfss_design_create: no check that the design is there; it is, afterwards. *)
CreateDesign ==
  /\ Idle
  /\ open' = TRUE
  /\ wrapper' = [wrapper EXCEPT !["hfss"] = IF @ = "none" THEN "clean" ELSE @]
  /\ UNCHANGED <<present, read, steady, omitted, started, readUses>>

(* _app: a wrapper that is kept is taken as it is; a new one is made only    *)
(* for a design that is there.                                               *)
Bound(product) == wrapper[product] # "none" \/ open
Bind(product) ==
  wrapper' = [wrapper EXCEPT ![product] = IF @ = "none" THEN "clean" ELSE @]

(* A preview or an apply binds the wrapper, and leaves it as it is then.     *)
OtherCommand(product) ==
  /\ Idle /\ Bound(product)
  /\ \/ Bind(product) /\ UNCHANGED readUses
     \/ /\ product = "layout" /\ UseFault
        /\ wrapper' = [wrapper EXCEPT ![product] = "kept"]
  /\ UNCHANGED <<present, open, read, steady, omitted, started>>

-----------------------------------------------------------------------------
(* execute: the wrapper of a layout read is dropped, however the read ended. *)

\* Mutant: it is dropped when the read was answered.
DroppedAnswered(w, how) ==
  IF NonPersistent(read.command) /\ how = "answered" THEN [w EXCEPT !["layout"] = "none"] ELSE w

Dropped(w, how) ==
  IF NonPersistent(read.command) THEN [w EXCEPT !["layout"] = "none"] ELSE w

End(how, w) ==
  /\ read' = [read EXCEPT !.at = how] /\ UNCHANGED omitted
  /\ wrapper' = Dropped(w, how)

BeginRead(c, product, limit) ==
  /\ Idle /\ UseRead("read", MaxReads)
  /\ product \in c.products /\ Bound(product)
  /\ Bind(product)
  /\ read' = [NoRead EXCEPT !.at = "reading", !.command = c, !.product = product,
                            !.limit = limit]
  /\ steady' = present /\ omitted' = NoneLeft
  /\ started' = wrapper[product]
  /\ UNCHANGED <<present, open>>

-----------------------------------------------------------------------------
(* The sections *)

Cut(S) ==
  IF Current.cut = "never" THEN S
  ELSE {x \in S : Cardinality({y \in S : y <= x}) <= read.limit}

(* What goes into the answer, and whether it says that something is missing. *)
\* A fault is whatever is said to be missing, except for the cut.
Says(S, missing, w) ==
  /\ read' = [read EXCEPT
       !.next = @ + 1,
       !.told = IF missing \/ (Current.cut = "told" /\ Cut(S) # S) THEN @ \cup {read.next} ELSE @,
       !.faulty = @ \/ missing]
  /\ omitted' = [omitted EXCEPT ![read.next] = steady \ Cut(S)]
  /\ wrapper' = w

SkipSection ==
  /\ Current.guarded /\ read.faulty
  /\ Says({}, TRUE, wrapper) /\ UNCHANGED readUses

Attempted == ~(Current.guarded /\ read.faulty)
Healthy == Current.via = "native" \/ ~Broken

ReadSection ==
  /\ Attempted /\ open /\ Healthy
  /\ Says(present, FALSE, wrapper) /\ UNCHANGED readUses

(* A broken wrapper gives a part of it.                                      *)
ReadPart ==
  /\ Attempted /\ open /\ ~Healthy
  /\ \E S \in SUBSET present : Says(S, FALSE, wrapper)
  /\ UNCHANGED readUses

BreaksWrapper ==
  IF Current.via = "wrapper" /\ read.product = "layout" /\ ~Broken
  THEN [wrapper EXCEPT !["layout"] = IF NonPersistent(read.command) THEN "read" ELSE "kept"]
  ELSE wrapper

(* The signal vias are asked for once more with a new wrapper, once and for  *)
(* an error of the connection only.                                          *)
Rebind ==
  /\ ~read.again /\ open
  /\ read' = [read EXCEPT !.again = TRUE, !.next = 1, !.told = {}]
  /\ omitted' = NoneLeft
  /\ wrapper' = [wrapper EXCEPT !["layout"] = "clean"]

Meets(how, w) ==
  \/ how = "reported" /\ Says({}, TRUE, w)
  \/ how = "empty" /\ Says({}, FALSE, w)
  \/ how = "native" /\ open /\ Says(present, FALSE, w)
  \/ how = "rebind" /\ Rebind
  \/ how # "reported" /\ End("failed", w)

RaiseSection ==
  /\ Attempted
  /\ IF open /\ Healthy THEN UseFault ELSE UNCHANGED readUses
  /\ Meets(Current.fault, BreaksWrapper)

(* An object of the collection cannot be read.                               *)
RaiseItem(x) ==
  /\ Attempted /\ open /\ Healthy /\ x \in present
  /\ UseFault
  /\ CASE Current.items = "marked"  -> Says(present, FALSE, wrapper)
       [] Current.items = "dropped" -> \E told \in BOOLEAN : Says(present \ {x}, told, wrapper)
       [] Current.items = "told"    -> Says(present \ {x}, TRUE, wrapper)
       [] OTHER                     -> Meets(Current.items, wrapper)

Continue ==
  /\ Reading
  /\ IF More
     THEN SkipSection \/ ReadSection \/ ReadPart \/ RaiseSection \/ \E x \in Objects : RaiseItem(x)
     ELSE End("answered", wrapper) /\ UNCHANGED readUses
  /\ UNCHANGED <<present, open, steady, started>>

(* The worker takes the next request when it has answered this one.          *)
Answer ==
  /\ ~Reading /\ ~Idle
  /\ read' = NoRead /\ steady' = {} /\ omitted' = NoneLeft /\ started' = "none"
  /\ UNCHANGED <<present, open, wrapper, readUses>>

(* The worker process ends, with its wrappers and the read under way.        *)
ForgetReads ==
  /\ wrapper' = [k \in Products |-> "none"]
  /\ read' = IF Reading THEN [read EXCEPT !.at = "lost"] ELSE read
  /\ UNCHANGED <<present, open, steady, omitted, started, readUses>>

ReadStep ==
  \/ \E S \in SUBSET Objects : EditObjects(S)
  \/ CloseDesign \/ CreateDesign
  \/ \E k \in Products :
       \/ OtherCommand(k)
       \/ \E c \in Commands, limit \in {1, Cardinality(Objects)} : BeginRead(c, k, limit)
  \/ Continue \/ Answer

-----------------------------------------------------------------------------
ReadTypeOK ==
  /\ present \subseteq Objects /\ steady \subseteq Objects
  /\ wrapper \in [Products -> {"none", "clean", "read", "kept"}]
  /\ read \in [at : {"none", "reading", "answered", "failed", "lost"}, command : Commands,
               product : Products, limit : Nat, next : 1 .. 6, told : SUBSET Sections,
               faulty : BOOLEAN, again : BOOLEAN]
  /\ read.next <= Len(read.command.sections) + 1
  /\ omitted \in [Sections -> SUBSET steady]

\* Sections that leave something out without a word, by an empty default, an object
\* passed over or a silent cut.
Quiet(s) ==
  \/ "empty" \in {s.fault, s.items} \/ s.items = "dropped" \/ s.cut = "silently"

\* An answer that says nothing is missing misses nothing: every object that was in the
\* design from the beginning of the read to its end is in each section.  An inventory
\* that does say so is still right in the sections it gives when it stops reading at
\* the first fault.  No fault of an earlier layout read shows in a later answer
\* (backend.py:99); one of a preview or an apply may, which keep their wrapper.
MissingIsSaid ==
  read.at = "answered" /\ started # "kept" =>
    \A i \in 1 .. Len(read.command.sections) :
      LET s == read.command.sections[i] IN
      ~Quiet(s) /\ i \notin read.told /\ (read.told = {} \/ s.guarded)
        => omitted[i] = {}

-----------------------------------------------------------------------------
(* The inductive invariant behind MissingIsSaid *)

\* A wrapper that a layout read has broken is gone when the read ends.
DroppedInTime ==
  /\ wrapper["hfss"] \in {"none", "clean"}
  /\ wrapper["layout"] = "read" => Reading /\ NonPersistent(read.command)

\* What a broken wrapper may still leave out is said, or nothing that comes relies on it.
Relies(s) == s.via # "native" /\ ~Quiet(s)
BreakIsSaid ==
  Reading /\ started # "kept" /\ Broken =>
    \/ read.faulty /\ read.told # {}
    \/ \A i \in read.next .. Len(read.command.sections) : ~Relies(read.command.sections[i])

\* The sections that are done miss nothing but what the answer says so far.
SaidSoFar ==
  read.at \in {"reading", "answered"} /\ started # "kept" =>
    \A i \in 1 .. (read.next - 1) :
      LET s == read.command.sections[i] IN
      ~Quiet(s) /\ i \notin read.told /\ (read.told = {} \/ s.guarded)
        => omitted[i] = {}

ReadInv ==
  /\ ReadTypeOK /\ DroppedInTime /\ BreakIsSaid /\ SaidSoFar
  /\ Reading => steady \subseteq present /\ read.product \in read.command.products
  /\ read.at = "answered" => ~More
=============================================================================
