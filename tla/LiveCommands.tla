----------------------------- MODULE LiveCommands -----------------------------
(***************************************************************************)
(* The commands of live/backend.py that change a design: what the preview   *)
(* of each reads and asks for, what its apply records and reads back, and   *)
(* what its rollback undoes and compares.  LiveTransaction.tla explains the *)
(* fields and gives the steps.                                              *)
(*                                                                          *)
(* A command works on an inventory of three objects: the one or two it is   *)
(* asked to change, and another one.  Two objects stand for a batch, or for *)
(* two things one command changes together (a material and the layer it is  *)
(* assigned to, a blank and the tool subtracted from it).                   *)
(***************************************************************************)
EXTENDS TLC

Inventory == {"first", "second", "other"}
Pair == {"first", "second"}

One(e) == <<[x \in {"first"} |-> e]>>
Each(e) == <<[x \in {"first"} |-> e], [x \in {"second"} |-> e]>>
Together(e) == <<[x \in Pair |-> e]>>

(* What a snapshot reads: names of all objects, or of some; values of all, or of some *)
Nothing == [names |-> {}, values |-> {}]
Whole == [names |-> Inventory, values |-> Inventory]
Listed(S) == [names |-> Inventory, values |-> S]
Only(S) == [names |-> {}, values |-> S]
Existing(S) == [names |-> S, values |-> {}]
Also(A, B) == [names |-> A.names \cup B.names, values |-> A.values \cup B.values]

PreviewPart(plan, idle, watch) == [plan |-> plan, idle |-> idle, watch |-> watch]

ApplyPart(record, looks, check) ==
  [record |-> record, looks |-> looks, check |-> check,
   named |-> TRUE, counts |-> FALSE, keeps |-> TRUE]

RollbackPart(judge) ==
  [judge |-> judge, errors |-> TRUE, always |-> {}, made |-> FALSE, fresh |-> {},
   proves |-> FALSE, native |-> FALSE, own |-> FALSE, silent |-> FALSE]
DeletesMade(judge) == [RollbackPart(judge) EXCEPT !.made = TRUE]
Restores(S, judge) == [RollbackPart(judge) EXCEPT !.always = S]

\* An except clause that tries to put things back, passes over whatever that
\* raises, and raises the first error again.
Silently(S, D) == [RollbackPart(Nothing) EXCEPT !.always = S, !.fresh = D, !.silent = TRUE]

-----------------------------------------------------------------------------
(* Materials.  The names are read from AEDT; the values of materials that are not *)
(* targets come from PyAEDT's cache, so a change of one is not noticed.           *)

MaterialCatalog(S) == Listed(S)

MaterialCreatePlan == One("add")
MaterialCreatePreview == PreviewPart(MaterialCreatePlan, TRUE, MaterialCatalog({}))
MaterialCreateReadback == MaterialCatalog({"first"})
MaterialCreateApply == ApplyPart("never", FALSE, MaterialCreateReadback)
MaterialCreateRollback == DeletesMade(MaterialCatalog({}))

MaterialUpdatePlan == Each("set")
MaterialUpdatePreview == PreviewPart(MaterialUpdatePlan, TRUE, MaterialCatalog(Pair))
MaterialUpdateReadback == MaterialCatalog(Pair)
MaterialUpdateApply == ApplyPart("never", FALSE, MaterialUpdateReadback)
MaterialUpdateRollback == Restores(Pair, MaterialCatalog(Pair))

MaterialDeletePlan == Each("remove")
MaterialDeletePreview == PreviewPart(MaterialDeletePlan, TRUE, MaterialCatalog(Pair))
MaterialDeleteReadback == MaterialCatalog({})
MaterialDeleteApply == ApplyPart("success", TRUE, MaterialDeleteReadback)
MaterialDeleteRollback == RollbackPart(MaterialCatalog(Pair))

MaterialTargets == Only(Pair)
MaterialAssignPlan == Together("set")
MaterialAssignPreview == PreviewPart(MaterialAssignPlan, TRUE, MaterialTargets)
MaterialAssignApply == ApplyPart("never", FALSE, MaterialTargets)
MaterialAssignRollback == Restores(Pair, MaterialTargets)

-----------------------------------------------------------------------------
(* Mesh operations, field setups, boundaries, coordinate systems: one object each, *)
(* among a list that is read whole                                                 *)

MeshOperations == Whole
LengthMeshCreatePlan == One("add")
LengthMeshCreatePreview == PreviewPart(LengthMeshCreatePlan, TRUE, MeshOperations)
LengthMeshCreateReadback == Listed({"first"})
LengthMeshCreateApply == ApplyPart("never", FALSE, LengthMeshCreateReadback)
LengthMeshCreateRollback == DeletesMade(MeshOperations)

FieldSetups == Whole
InfiniteSphereCreatePlan == One("add")
InfiniteSphereCreatePreview == PreviewPart(InfiniteSphereCreatePlan, TRUE, FieldSetups)
InfiniteSphereCreateReadback == Listed({"first"})
InfiniteSphereCreateApply == ApplyPart("never", FALSE, InfiniteSphereCreateReadback)
InfiniteSphereCreateRollback == DeletesMade(FieldSetups)

SurfaceBoundaries == Whole
SurfaceBoundaryCreatePlan == One("add")
SurfaceBoundaryCreatePreview == PreviewPart(SurfaceBoundaryCreatePlan, TRUE, SurfaceBoundaries)
SurfaceBoundaryCreateReadback == Listed({"first"})
SurfaceBoundaryCreateApply == ApplyPart("never", FALSE, SurfaceBoundaryCreateReadback)
SurfaceBoundaryCreateRollback == DeletesMade(SurfaceBoundaries)

PortBoundaries == Whole
BoundaryCreatePlan == One("add")
BoundaryCreatePreview == PreviewPart(BoundaryCreatePlan, TRUE, PortBoundaries)
BoundaryCreateReadback == Listed({"first"})
BoundaryCreateApply == ApplyPart("never", FALSE, BoundaryCreateReadback)
BoundaryCreateRollback == DeletesMade(PortBoundaries)

\* "second" is the active coordinate system: creating one changes it, the command
\* sets it back, and so does the rollback, which does not look at its own errors.
CoordinateSystems == Whole
CoordinateSystemCreatePlan ==
  <<[x \in Pair |-> IF x = "first" THEN "add" ELSE "set"],
    [x \in {"second"} |-> "back"]>>
CoordinateSystemCreatePreview == PreviewPart(CoordinateSystemCreatePlan, TRUE, CoordinateSystems)
CoordinateSystemCreateReadback == Listed(Pair)
CoordinateSystemCreateApply == ApplyPart("never", FALSE, CoordinateSystemCreateReadback)
CoordinateSystemCreateRollback ==
  [DeletesMade(CoordinateSystems) EXCEPT !.always = {"second"}, !.errors = FALSE]

-----------------------------------------------------------------------------
(* Geometry *)

GeometryInventory == Whole
GeometryNames == Existing(Inventory)

\* Recorded is what the inventory shows after a call that did not raise.
GeometryCreatePlan == Each("add")
GeometryCreatePreview == PreviewPart(GeometryCreatePlan, TRUE, GeometryInventory)
GeometryCreateApply == ApplyPart("seen", TRUE, Only(Pair))
GeometryCreateRollback == RollbackPart(GeometryNames)

GeometryMoveState == Whole
GeometryMoveReadback == Whole
GeometryMovePlan == Each("move")
GeometryMovePreview == PreviewPart(GeometryMovePlan, TRUE, GeometryMoveState)
GeometryMoveApply == ApplyPart("success", FALSE, GeometryMoveReadback)
GeometryMoveRollback == RollbackPart(GeometryMoveState)

GeometryRotateState == Whole
GeometryRotateReadback == Whole
GeometryRotatePlan == Each("move")
GeometryRotatePreview == PreviewPart(GeometryRotatePlan, TRUE, GeometryRotateState)
GeometryRotateApply == ApplyPart("success", FALSE, GeometryRotateReadback)
GeometryRotateRollback == RollbackPart(GeometryRotateState)

\* "first" is the metal, "second" the cylinder that is cut out of it and goes.
AntipadSubtractState == Whole
AntipadSubtractReadback == Whole
AntipadSubtractPlan ==
  <<[x \in {"second"} |-> "add"],
    [x \in Pair |-> IF x = "first" THEN "set" ELSE "remove"]>>
AntipadSubtractPreview == PreviewPart(AntipadSubtractPlan, TRUE, AntipadSubtractState)
AntipadSubtractApply == ApplyPart("never", FALSE, AntipadSubtractReadback)
AntipadSubtractRollback ==
  [DeletesMade(AntipadSubtractState) EXCEPT !.native = TRUE, !.fresh = {"second"}]

\* "first" is an object, "second" a boundary on one of its faces.
GeometryBoundaryCreatePlan == Each("add")
GeometryBoundaryCreatePreview ==
  PreviewPart(GeometryBoundaryCreatePlan, TRUE, Listed({"first", "other"}))
GeometryBoundaryCreateApply ==
  ApplyPart("seen", TRUE, [names |-> {"second"}, values |-> {"first"}])
GeometryBoundaryCreateRollback == Restores({"second"}, GeometryNames)

-----------------------------------------------------------------------------
(* Setups, sweeps, reports *)

SetupNames == Existing(Inventory)

SetupPlan == One("add")
SetupPreview == PreviewPart(SetupPlan, FALSE, SetupNames)
SetupApply == [ApplyPart("never", FALSE, Only({"first"})) EXCEPT !.named = FALSE]
SetupRollback == Silently({}, {"first"})

SetupUpdatePlan == One("set")
SetupUpdatePreview == PreviewPart(SetupUpdatePlan, FALSE, Listed({"first"}))
SetupUpdateApply == ApplyPart("never", FALSE, Only({"first"}))
SetupUpdateRollback == Silently({"first"}, {})

SweepCreatePlan == One("add")
SweepCreatePreview == PreviewPart(SweepCreatePlan, FALSE, SetupNames)
SweepCreateApply == ApplyPart("never", TRUE, Existing({"first"}))
SweepCreateRollback == Silently({}, {"first"})

\* The sweep is part of the setup: it is deleted with it.
SetupSweepCreatePlan ==
  <<[x \in {"first"} |-> "add"], [x \in {"first"} |-> "set"]>>
SetupSweepCreatePreview == PreviewPart(SetupSweepCreatePlan, TRUE, SetupNames)
SetupSweepCreateApply == ApplyPart("never", TRUE, Only({"first"}))
SetupSweepCreateRollback == [RollbackPart(SetupNames) EXCEPT !.fresh = {"first"}]

ReportPlan == One("add")
ReportPreview == PreviewPart(ReportPlan, FALSE, SetupNames)
ReportApply == ApplyPart("never", TRUE, Existing({"first"}))
ReportRollback == Silently({}, {"first"})

-----------------------------------------------------------------------------
(* 3D Layout *)

\* "first" is a material, "second" the layer of the stackup it is assigned to.
LayoutStackup == Listed({"second"})
LayoutMaterialPlan ==
  <<[x \in {"first"} |-> "add"], [x \in {"second"} |-> "set"]>>
LayoutMaterialPreview == PreviewPart(LayoutMaterialPlan, TRUE, LayoutStackup)
LayoutMaterialReadback == Listed(Pair)
LayoutMaterialApply == ApplyPart("never", FALSE, LayoutMaterialReadback)
LayoutMaterialRollback == [DeletesMade(LayoutStackup) EXCEPT !.always = {"second"}]

ViaRecords == Only(Pair)

ViaCreateState == Existing(Pair)
ViaCreateReadback == ViaRecords
ViaCreatePlan == Each("add")
ViaCreatePreview == PreviewPart(ViaCreatePlan, TRUE, ViaCreateState)
ViaCreateApply == ApplyPart("returned", FALSE, ViaCreateReadback)
ViaCreateRollback == RollbackPart(ViaCreateState)

ViaUpdateState == ViaRecords
ViaUpdateReadback == ViaRecords
ViaUpdatePlan == Each("set")
ViaUpdatePreview == PreviewPart(ViaUpdatePlan, TRUE, ViaUpdateState)
ViaUpdateApply == ApplyPart("before", FALSE, ViaUpdateReadback)
ViaUpdateRollback == RollbackPart(ViaUpdateState)

ViaDeleteState == ViaRecords
ViaDeleteReadback == Existing(Pair)
ViaDeletePlan == Each("remove")
ViaDeletePreview == PreviewPart(ViaDeletePlan, TRUE, ViaDeleteState)
ViaDeleteApply == ApplyPart("gone", TRUE, ViaDeleteReadback)
ViaDeleteRollback == RollbackPart(ViaDeleteState)

\* Only voids that read back as requested are deleted.
CircleVoids == Existing(Inventory)
NativeProperties(S) == Only(S)
CircleVoidRecords == NativeProperties(Pair)
AntipadCircleState == CircleVoids
AntipadCircleReadback == Also(CircleVoids, CircleVoidRecords)
AntipadCirclePlan == Each("add")
AntipadCirclePreview == PreviewPart(AntipadCirclePlan, TRUE, AntipadCircleState)
AntipadCircleApply == ApplyPart("never", FALSE, AntipadCircleReadback)
AntipadCircleRollback == [RollbackPart(AntipadCircleState) EXCEPT !.fresh = Pair, !.proves = TRUE]

\* AEDT chooses the names of ports: their number is checked, and every port that
\* was not there before is deleted.
PortNames == Existing(Inventory)
PortRollback == [RollbackPart(PortNames) EXCEPT !.fresh = Inventory, !.errors = FALSE]
Ports == [ApplyPart("never", FALSE, PortNames) EXCEPT !.named = FALSE, !.counts = TRUE]

ComponentPortsState == PortNames
ComponentPortsPlan == Together("add")
ComponentPortsPreview == PreviewPart(ComponentPortsPlan, TRUE, ComponentPortsState)
ComponentPortsApply == Ports

EdgePortsPlan == Each("add")
EdgePortsPreview == PreviewPart(EdgePortsPlan, TRUE, PortNames)
EdgePortsApply == Ports

ObjectPropertyPlan == Each("set")
ObjectPropertyPreview == PreviewPart(ObjectPropertyPlan, FALSE, Only(Pair))
ObjectPropertyApply == ApplyPart("never", FALSE, Only(Pair))
ObjectPropertyRollback == Silently(Pair, {})

\* "first" is a path, "second" the design variable its width is set to, which may
\* exist already: it is not watched, and its value is not put back.
WidthPlan ==
  <<[x \in {"second"} |-> "put"], [x \in {"first"} |-> "set"]>>
WidthPreview == PreviewPart(WidthPlan, FALSE, Only({"first"}))
WidthApply == ApplyPart("never", FALSE, Only({"first"}))
WidthRollback == Silently({"first"}, {"second"})

-----------------------------------------------------------------------------
(* Design variables and exploratory plans *)

VariableReadback == Whole
VariableChanges == ApplyPart("before", TRUE, VariableReadback)
VariableRollback == [RollbackPart(Whole) EXCEPT !.errors = FALSE]
VariablePlan == One("put")
VariablePreview == PreviewPart(VariablePlan, FALSE, Whole)
VariableApply == VariableChanges
VariableBatchPlan == Each("put")
VariableBatchPreview == PreviewPart(VariableBatchPlan, FALSE, Whole)
VariableBatchApply == VariableChanges

\* An exploratory preview is gone after one apply, whatever that answered; after a
\* rollback only the steps recorded as applied are compared.
ExplorationPlan == Each("set")
ExplorationState == Only(Pair)
ExplorationPreview == PreviewPart(ExplorationPlan, FALSE, ExplorationState)
ExplorationApply == [ApplyPart("success", FALSE, Only(Pair)) EXCEPT !.keeps = FALSE]
ExplorationRollback == [RollbackPart(Only(Pair)) EXCEPT !.own = TRUE]

-----------------------------------------------------------------------------
CommandTable == [
  material_create  |-> MaterialCreatePreview @@ MaterialCreateApply @@ MaterialCreateRollback,
  material_update  |-> MaterialUpdatePreview @@ MaterialUpdateApply @@ MaterialUpdateRollback,
  material_delete  |-> MaterialDeletePreview @@ MaterialDeleteApply @@ MaterialDeleteRollback,
  material_assign  |-> MaterialAssignPreview @@ MaterialAssignApply @@ MaterialAssignRollback,
  length_mesh      |-> LengthMeshCreatePreview @@ LengthMeshCreateApply @@ LengthMeshCreateRollback,
  infinite_sphere  |-> InfiniteSphereCreatePreview @@ InfiniteSphereCreateApply
                         @@ InfiniteSphereCreateRollback,
  surface_boundary |-> SurfaceBoundaryCreatePreview @@ SurfaceBoundaryCreateApply
                         @@ SurfaceBoundaryCreateRollback,
  boundary         |-> BoundaryCreatePreview @@ BoundaryCreateApply @@ BoundaryCreateRollback,
  coordinate_system |-> CoordinateSystemCreatePreview @@ CoordinateSystemCreateApply
                         @@ CoordinateSystemCreateRollback,
  geometry_create  |-> GeometryCreatePreview @@ GeometryCreateApply @@ GeometryCreateRollback,
  geometry_move    |-> GeometryMovePreview @@ GeometryMoveApply @@ GeometryMoveRollback,
  geometry_rotate  |-> GeometryRotatePreview @@ GeometryRotateApply @@ GeometryRotateRollback,
  antipad_subtract |-> AntipadSubtractPreview @@ AntipadSubtractApply @@ AntipadSubtractRollback,
  geometry_boundary |-> GeometryBoundaryCreatePreview @@ GeometryBoundaryCreateApply
                         @@ GeometryBoundaryCreateRollback,
  setup            |-> SetupPreview @@ SetupApply @@ SetupRollback,
  setup_update     |-> SetupUpdatePreview @@ SetupUpdateApply @@ SetupUpdateRollback,
  sweep_create     |-> SweepCreatePreview @@ SweepCreateApply @@ SweepCreateRollback,
  setup_sweep      |-> SetupSweepCreatePreview @@ SetupSweepCreateApply @@ SetupSweepCreateRollback,
  report           |-> ReportPreview @@ ReportApply @@ ReportRollback,
  layout_material  |-> LayoutMaterialPreview @@ LayoutMaterialApply @@ LayoutMaterialRollback,
  via_create       |-> ViaCreatePreview @@ ViaCreateApply @@ ViaCreateRollback,
  via_update       |-> ViaUpdatePreview @@ ViaUpdateApply @@ ViaUpdateRollback,
  via_delete       |-> ViaDeletePreview @@ ViaDeleteApply @@ ViaDeleteRollback,
  antipad_circle   |-> AntipadCirclePreview @@ AntipadCircleApply @@ AntipadCircleRollback,
  component_ports  |-> ComponentPortsPreview @@ ComponentPortsApply @@ PortRollback,
  edge_ports       |-> EdgePortsPreview @@ EdgePortsApply @@ PortRollback,
  object_property  |-> ObjectPropertyPreview @@ ObjectPropertyApply @@ ObjectPropertyRollback,
  width            |-> WidthPreview @@ WidthApply @@ WidthRollback,
  variable         |-> VariablePreview @@ VariableApply @@ VariableRollback,
  variable_batch   |-> VariableBatchPreview @@ VariableBatchApply @@ VariableRollback,
  exploration      |-> ExplorationPreview @@ ExplorationApply @@ ExplorationRollback]
=============================================================================
