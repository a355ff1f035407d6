----------------------------- MODULE LiveTools ------------------------------
(***************************************************************************)
(* The guarded tools of the live session manager.  Each is a pair of       *)
(* methods, preview_x and apply_x: the preview sends <command>_preview to  *)
(* the backend and registers the result for approval under an action; the  *)
(* apply verifies a token for that action and sends <command>_apply.  The  *)
(* arguments, which the manager passes through, are left out.              *)
(***************************************************************************)

Guarded(action, command) == [action |-> action, command |-> command]

project_save                  == Guarded("project.save", "project_save")
hfss_material_create          == Guarded("hfss.material.create", "hfss_material_create")
hfss_material_update          == Guarded("hfss.material.update", "hfss_material_update")
hfss_material_delete          == Guarded("hfss.material.delete", "hfss_material_delete")
layout_material_create_assign ==
  Guarded("layout.material.create_and_assign", "layout_material_create_assign")
layout_via_create             == Guarded("layout.vias.create", "layout_via_create")
layout_via_update             == Guarded("layout.vias.update", "layout_via_update")
layout_via_delete             == Guarded("layout.vias.delete", "layout_via_delete")
layout_antipad_circle_create ==
  Guarded("layout.antipad.circle.create", "layout_antipad_circle_create")
open_aedt_python              == Guarded("aedt.open_python.execute", "open_aedt_python")
hfss_material_assign          == Guarded("hfss.material.assign", "hfss_material_assign")
hfss_length_mesh_create ==
  Guarded("hfss.mesh.length.create", "hfss_length_mesh_create")
hfss_infinite_sphere_create ==
  Guarded("hfss.far_field.infinite_sphere.create", "hfss_infinite_sphere_create")
hfss_surface_boundary_create ==
  Guarded("hfss.surface_boundary.create", "hfss_surface_boundary_create")
hfss_coordinate_system_create ==
  Guarded("hfss.coordinate_system.create", "hfss_coordinate_system_create")
hfss_geometry_create          == Guarded("hfss.geometry.create", "hfss_geometry_create")
hfss_geometry_move            == Guarded("hfss.geometry.move", "hfss_geometry_move")
hfss_geometry_rotate          == Guarded("hfss.geometry.rotate", "hfss_geometry_rotate")
hfss_antipad_subtract         == Guarded("hfss.antipad.subtract", "hfss_antipad_subtract")
hfss_geometry_boundary_create ==
  Guarded("hfss.geometry_boundary.create", "hfss_geometry_boundary_create")
hfss_setup                    == Guarded("hfss.setup.create", "hfss_setup")
hfss_setup_update             == Guarded("hfss.setup.update", "hfss_setup_update")
frequency_sweep_create ==
  Guarded("aedt.frequency_sweep.create", "frequency_sweep_create")
hfss_setup_sweep_create ==
  Guarded("hfss.setup_sweep.create", "hfss_setup_sweep_create")
hfss_report                   == Guarded("hfss.report.create", "hfss_report")
hfss_boundary                 == Guarded("hfss.boundary.create", "hfss_boundary")
hfss_analysis_start           == Guarded("hfss.analysis.start", "hfss_analysis_start")
hfss_analysis_cancel          == Guarded("hfss.analysis.cancel", "hfss_analysis_cancel")
hfss_export                   == Guarded("hfss.results.export", "hfss_export")
layout_component_ports_create ==
  Guarded("layout.component_ports.create", "layout_component_ports_create")
layout_edge_ports_create ==
  Guarded("layout.edge_ports.create", "layout_edge_ports_create")
layout_object_property_update ==
  Guarded("layout.object.property.update", "layout_object_property_update")
variable_upsert               == Guarded("aedt.variable.upsert", "variable_upsert")
variable_batch_upsert ==
  Guarded("aedt.variables.batch_upsert", "variable_batch_upsert")
layout_width                  == Guarded("layout.path_width.parameterize", "layout_width")

(* The graph workflows borrow the manager's guard for their own two steps   *)
(* (register_guarded_preview, authorize_guarded_preview); an exploratory    *)
(* plan has one action for every plan.                                      *)
start   == Guarded("workflow.graph.start", "start")
advance == Guarded("workflow.graph.advance", "advance")
explore(plan) == Guarded("exploration.apply", plan)

(* The tools without a preview.  Those that read send their command and     *)
(* return what comes (LiveReads.tla); the two that do not are refused in a  *)
(* strict desktop session.                                                  *)
Unguarded(command) == Guarded("none", command)

hfss_design_inventory                == Unguarded("hfss_design_inventory")
setup_inventory                      == Unguarded("setup_inventory")
solution_inventory                   == Unguarded("solution_inventory")
hfss_geometry_inventory              == Unguarded("hfss_geometry_inventory")
hfss_material_inventory              == Unguarded("hfss_material_inventory")
hfss_mesh_inventory                  == Unguarded("hfss_mesh_inventory")
hfss_far_field_inventory             == Unguarded("hfss_far_field_inventory")
hfss_surface_boundary_inventory      == Unguarded("hfss_surface_boundary_inventory")
hfss_coordinate_system_inventory     == Unguarded("hfss_coordinate_system_inventory")
hfss_port_inventory                  == Unguarded("hfss_port_inventory")
hfss_analysis_status                 == Unguarded("hfss_analysis_status")
layout_paths_list                    == Unguarded("layout_paths_list")
layout_routing_inventory             == Unguarded("layout_routing_inventory")
layout_technology_inventory          == Unguarded("layout_technology_inventory")
layout_connectivity_inventory        == Unguarded("layout_connectivity_inventory")
layout_signal_via_inventory          == Unguarded("layout_signal_via_inventory")
layout_port_candidate_inventory      == Unguarded("layout_port_candidate_inventory")
layout_edge_port_candidate_inventory == Unguarded("layout_edge_port_candidate_inventory")
layout_object_inventory              == Unguarded("layout_object_inventory")
layout_object_property_inventory     == Unguarded("layout_object_property_inventory")
layout_property_schema               == Unguarded("layout_property_schema")
layout_properties_read               == Unguarded("layout_properties_read")
controlled_read_schema               == Unguarded("controlled_read_schema")
controlled_read_execute              == Unguarded("controlled_read_execute")
variable_inventory                   == Unguarded("variable_inventory")
hfss_design_create   == Unguarded("hfss_design_create")
hfss_analysis_direct == Unguarded("hfss_analysis_start")

(* What the assistant's server offers, as it is laid out there.             *)
MaterialTools   == {hfss_material_create, hfss_material_update, hfss_material_delete}
ViaTools        == {layout_material_create_assign, layout_via_create, layout_via_update,
                    layout_via_delete}
AntipadTools    == {layout_antipad_circle_create, hfss_material_assign}
MeshTools       == {hfss_length_mesh_create, hfss_infinite_sphere_create}
BoundaryTools   == {hfss_surface_boundary_create, hfss_coordinate_system_create}
GeometryTools   == {hfss_geometry_create, hfss_geometry_move, hfss_geometry_rotate,
                    hfss_antipad_subtract}
SetupTools      == {hfss_geometry_boundary_create, hfss_setup, hfss_setup_update}
SweepTools      == {frequency_sweep_create, hfss_setup_sweep_create, hfss_report}
PortTools       == {hfss_boundary, layout_component_ports_create}
EdgePortTools   == {layout_component_ports_create, layout_edge_ports_create}
PropertyTools   == {layout_object_property_update, variable_upsert}
VariableTools   == {variable_batch_upsert, layout_width}
DesignReads     == {hfss_design_inventory, setup_inventory, solution_inventory,
                    hfss_geometry_inventory, hfss_material_inventory}
MeshReads       == {hfss_mesh_inventory}
FieldReads      == {hfss_far_field_inventory}
SurfaceReads    == {hfss_surface_boundary_inventory}
CoordinateReads == {hfss_coordinate_system_inventory}
PortReads       == {hfss_port_inventory}
LayoutReads     == {layout_paths_list, layout_routing_inventory, layout_technology_inventory,
                    layout_connectivity_inventory, layout_signal_via_inventory,
                    layout_port_candidate_inventory}
EdgeReads       == {layout_edge_port_candidate_inventory}
ObjectReads     == {layout_object_inventory, layout_object_property_inventory,
                    layout_property_schema, layout_properties_read, controlled_read_schema,
                    controlled_read_execute}
VariableReads   == {variable_inventory}
(* Methods of the manager that no tool of the server calls; the graph       *)
(* workflows use some of them.                                              *)
ManagerOnly     == {project_save, open_aedt_python, hfss_analysis_start,
                    hfss_analysis_cancel, hfss_export}

StatusReads     == {hfss_analysis_status}
DirectTools     == {hfss_design_create, hfss_analysis_direct}

ReadTools ==
  UNION {DesignReads, MeshReads, FieldReads, SurfaceReads, CoordinateReads, PortReads,
         LayoutReads, EdgeReads, ObjectReads, VariableReads, StatusReads}
ToolFamilies ==
  {MaterialTools, ViaTools, AntipadTools, MeshTools, BoundaryTools, GeometryTools,
   SetupTools, SweepTools, PortTools, EdgePortTools, PropertyTools, VariableTools, ManagerOnly}
=============================================================================
